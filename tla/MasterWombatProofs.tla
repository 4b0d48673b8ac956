-------------------------- MODULE MasterWombatProofs --------------------------
(***************************************************************************)
(* MasterWombat and its rewarder together: the state stays well typed, the *)
(* timestamps of the pool stay in order, and no transaction costs a user   *)
(* earned WOM or earned reward tokens, for any users, stakes, payments and *)
(* durations.  The last section is about the loop of DSMath.sqrt, which    *)
(* computes the boosting factors: when it returns, and with what.          *)
(***************************************************************************)
EXTENDS MasterWombat, SquareRoot, SumProofs, FiniteSetTheorems, TLAPS

-----------------------------------------------------------------------------
(* What the operations of BoostedMultiRewarder preserve, whatever totals   *)
(* MasterWombat reports: the accumulators only grow, a debt never exceeds  *)
(* what the share has earned, and no user loses earned tokens.             *)

LEMMA MaxOfTwo ==
  ASSUME NEW a \in Int, NEW b \in Int
  PROVE  /\ Max({a, b}) \in {a, b}
         /\ Max({a, b}) >= a /\ Max({a, b}) >= b
BY DEF Max

LEMMA MinOfTwo ==
  ASSUME NEW a \in Int, NEW b \in Int
  PROVE  /\ Min({a, b}) \in {a, b}
         /\ Min({a, b}) <= a /\ Min({a, b}) <= b
BY DEF Min

LEMMA DivNat ==
  ASSUME NEW a \in Nat, NEW b \in Nat \ {0}
  PROVE  /\ a \div b \in Nat
         /\ a = 0 => a \div b = 0
OBVIOUS

LEMMA DivMonotone ==
  ASSUME NEW a \in Nat, NEW c \in Nat, a <= c, NEW b \in Nat \ {0}
  PROVE  a \div b <= c \div b
<1> DEFINE q == a \div b
           r == c \div b
<1>1. q \in Nat /\ b * q <= a
  OBVIOUS
<1>2. r \in Nat /\ c < b * r + b
  OBVIOUS
<1> HIDE DEF q, r
<1>3. b * q < b * (r + 1)
  BY <1>1, <1>2
<1>4. q < r + 1
  <2>1. CASE q >= r + 1
    <3>1. b * q >= b * (r + 1)
      BY <2>1, <1>1, <1>2
    <3>2. QED
      BY <3>1, <1>3, <1>1, <1>2
  <2>2. QED
    BY <2>1, <1>1, <1>2
<1>5. q <= r
  BY <1>1, <1>2, <1>4
<1>6. QED
  BY <1>5 DEF q, r

LEMMA ProductMonotone ==
  ASSUME NEW a \in Nat, NEW b \in Nat, NEW c \in Nat, b <= c
  PROVE  a * b \in Nat /\ a * b <= a * c
OBVIOUS

\* Debts grow with the accumulators.
LEMMA DebtMonotone ==
  ASSUME NEW a \in Nat, NEW f \in Nat,
         NEW p \in Nat, NEW p2 \in Nat, p <= p2,
         NEW g \in Nat, NEW g2 \in Nat, g <= g2
  PROVE  /\ Debt(a, p, f, g) \in Nat
         /\ Debt(a, p, f, g) <= Debt(a, p2, f, g2)
<1>1. ACC_TOKEN_PRECISION \in Nat \ {0}
  BY RewarderAssumption
<1>2. a * p \in Nat /\ a * p <= a * p2 /\ a * p2 \in Nat
  BY ProductMonotone
<1>3. f * g \in Nat /\ f * g <= f * g2 /\ f * g2 \in Nat
  BY ProductMonotone
<1>4. a * p + f * g \in Nat /\ a * p2 + f * g2 \in Nat /\ a * p + f * g <= a * p2 + f * g2
  BY <1>2, <1>3
<1>5. QED
  BY <1>1, <1>4, DivNat, DivMonotone DEF Debt

LEMMA DebtNat ==
  ASSUME NEW a \in Nat, NEW f \in Nat, NEW p \in Nat, NEW g \in Nat
  PROVE  Debt(a, p, f, g) \in Nat
<1>1. p <= p /\ g <= g
  OBVIOUS
<1>2. QED
  BY <1>1, DebtMonotone

\* A registered stake has a debt: the accumulator starts at one.
LEMMA DebtCoversStake ==
  ASSUME NEW a \in Nat, NEW f \in Nat, NEW p \in Nat, p >= ACC_TOKEN_PRECISION, NEW g \in Nat
  PROVE  Debt(a, p, f, g) \in Nat /\ Debt(a, p, f, g) >= a
<1>1. ACC_TOKEN_PRECISION \in Nat \ {0}
  BY RewarderAssumption
<1>2. a * ACC_TOKEN_PRECISION \in Nat /\ a * ACC_TOKEN_PRECISION <= a * p
  BY <1>1, ProductMonotone
<1>3. f * g \in Nat /\ a * p \in Nat
  BY ProductMonotone
<1>4. a * ACC_TOKEN_PRECISION <= a * p + f * g /\ a * p + f * g \in Nat
  BY <1>2, <1>3
<1>5. (a * ACC_TOKEN_PRECISION) \div ACC_TOKEN_PRECISION = a
  BY <1>1
<1>6. (a * p + f * g) \div ACC_TOKEN_PRECISION \in Nat
  BY <1>1, <1>4, DivNat
<1>7. (a * ACC_TOKEN_PRECISION) \div ACC_TOKEN_PRECISION
         <= (a * p + f * g) \div ACC_TOKEN_PRECISION
  BY <1>1, <1>2, <1>4, DivMonotone
<1>8. QED
  BY <1>5, <1>6, <1>7 DEF Debt
-----------------------------------------------------------------------------
InfoType == [acc : Nat, accFactor : Nat, distributed : Nat, claimed : Nat, last : Nat,
             tokenPerSec : Nat]

ShareType == [amount : Nat, factor : Nat, debt : Nat, unpaid : Nat]

Earned(i, s) == Debt(s.amount, i.acc, s.factor, i.accFactor)

\* As long as no token was ever sent, nothing has been distributed.
NothingSent ==
  /\ tokens = 0
  /\ info.distributed = 0 /\ info.claimed = 0
  /\ info.acc = ACC_TOKEN_PRECISION /\ info.accFactor = 0
  /\ \A u \in Users : share[u].unpaid = 0 /\ share[u].debt \in {0, share[u].amount}

\* The types; no debt exceeds what the share has earned; a registered stake
\* has a debt.
RInv ==
  /\ now \in Nat
  /\ info \in InfoType
  /\ share \in [Users -> ShareType]
  /\ tokens \in Nat /\ sent \in Nat
  /\ claimedBy \in [Users -> Nat]
  /\ info.acc >= ACC_TOKEN_PRECISION
  /\ \A u \in Users : share[u].debt <= Earned(info, share[u])
  /\ \A u \in Users : share[u].amount > 0 /\ share[u].debt = 0 => share[u].unpaid = 0
  /\ sent = 0 => NothingSent

Grows(i) ==
  /\ i \in InfoType
  /\ i.acc >= info.acc /\ i.accFactor >= info.accFactor
  /\ i.claimed = info.claimed

LEMMA RewardsToDistributeNat ==
  ASSUME RInv
  PROVE  /\ RewardsToDistribute \in Nat
         /\ sent = 0 => RewardsToDistribute = 0
<1> DEFINE surplus == info.claimed + tokens - info.distributed
           rate == info.tokenPerSec * (now - info.last)
<1>1. info.claimed \in Nat /\ info.distributed \in Nat /\ info.last \in Nat
        /\ info.tokenPerSec \in Nat /\ tokens \in Nat /\ now \in Nat
  BY DEF RInv, InfoType
<1>2. surplus \in Int
  BY <1>1
<1>3. Available \in Nat /\ (surplus = 0 => Available = 0)
  <2>1. Available = Max({0, surplus})
    BY DEF Available
  <2>2. PICK a \in Int : a = surplus
    BY <1>2
  <2>3. Max({0, a}) \in {0, a} /\ Max({0, a}) >= 0
    BY MaxOfTwo
  <2> HIDE DEF surplus
  <2>4. QED
    BY <2>1, <2>2, <2>3
<1>4. sent = 0 => surplus = 0
  BY <1>1 DEF RInv, NothingSent
<1>5. CASE now < info.last
  BY <1>5 DEF RewardsToDistribute
<1>6. CASE ~(now < info.last)
  <2>1. rate \in Nat
    <3>1. now - info.last \in Nat
      BY <1>1, <1>6
    <3>2. QED
      BY <1>1, <3>1, ProductMonotone
  <2>2. RewardsToDistribute = Min({rate, Available})
    BY <1>6 DEF RewardsToDistribute
  <2>3. PICK a \in Nat, b \in Nat : a = rate /\ b = Available
    BY <1>3, <2>1
  <2>4. Min({a, b}) \in {a, b} /\ Min({a, b}) <= b
    BY MinOfTwo
  <2> HIDE DEF surplus, rate
  <2>5. QED
    BY <1>3, <1>4, <2>2, <2>3, <2>4
<1>7. QED
  BY <1>5, <1>6

\* No more is distributed than the balance still covers.
LEMMA RewardsAreAvailable ==
  ASSUME RInv, info.distributed <= info.claimed + tokens
  PROVE  info.distributed + RewardsToDistribute <= info.claimed + tokens
<1>1. info.claimed \in Nat /\ info.distributed \in Nat /\ info.last \in Nat
        /\ info.tokenPerSec \in Nat /\ tokens \in Nat /\ now \in Nat
  BY DEF RInv, InfoType
<1>2. PICK a \in Int : a = info.claimed + tokens - info.distributed /\ a >= 0
  BY <1>1
<1>3. Available = a
  <2>1. Max({0, a}) \in {0, a} /\ Max({0, a}) >= a
    BY MaxOfTwo
  <2>2. QED
    BY <1>2, <2>1 DEF Available
<1>4. CASE now < info.last
  BY <1>1, <1>4 DEF RewardsToDistribute
<1>5. CASE ~(now < info.last)
  <2>1. PICK r \in Int : r = info.tokenPerSec * (now - info.last)
    BY <1>1
  <2>2. Min({r, a}) \in {r, a} /\ Min({r, a}) <= a
    BY MinOfTwo
  <2>3. QED
    BY <1>1, <1>2, <1>3, <1>5, <2>1, <2>2 DEF RewardsToDistribute
<1>6. QED
  BY <1>4, <1>5

LEMMA PerShareNat ==
  ASSUME NEW r \in Nat, NEW part \in Nat, NEW total \in Nat \ {0}
  PROVE  /\ PerShare(r, part, total) \in Nat
         /\ r = 0 => PerShare(r, part, total) = 0
<1>1. ACC_TOKEN_PRECISION \in Nat /\ TOTAL_PARTITION \in Nat \ {0}
  BY RewarderAssumption
<1>2. r * ACC_TOKEN_PRECISION * part \in Nat
  BY <1>1, ProductMonotone
<1>3. r = 0 => r * ACC_TOKEN_PRECISION * part = 0
  BY <1>1
<1> DEFINE a == r * ACC_TOKEN_PRECISION * part
           q == a \div total
<1>4. q \in Nat /\ (a = 0 => q = 0)
  <2> HIDE DEF a
  <2>1. a \in Nat
    BY <1>2 DEF a
  <2>2. QED
    BY <2>1, DivNat
<1>5. q \div TOTAL_PARTITION \in Nat /\ (q = 0 => q \div TOTAL_PARTITION = 0)
  <2> HIDE DEF q
  <2>1. QED
    BY <1>1, <1>4, DivNat
<1>6. QED
  BY <1>3, <1>4, <1>5 DEF PerShare

\* _updateReward: the accumulators grow, and stay while nothing was sent.
LEMMA UpdatedInfoGrows ==
  ASSUME RInv, NEW supply \in Int, NEW sum \in Int, NEW base \in 0..TOTAL_PARTITION
  PROVE  /\ Grows(UpdatedInfo(supply, sum, base))
         /\ sent = 0 => /\ UpdatedInfo(supply, sum, base).acc = info.acc
                        /\ UpdatedInfo(supply, sum, base).accFactor = info.accFactor
                        /\ UpdatedInfo(supply, sum, base).distributed = info.distributed
<1> DEFINE r == RewardsToDistribute
           total == Max({supply, MinSupply})
           perShare == PerShare(r, base, total)
           perFactor == IF sum > 0 THEN PerShare(r, TOTAL_PARTITION - base, sum) ELSE 0
<1>1. r \in Nat /\ (sent = 0 => r = 0)
  BY RewardsToDistributeNat
<1>2. total \in Nat \ {0}
  <2>1. MinSupply \in Nat \ {0}
    BY RewarderAssumption
  <2>2. total \in {supply, MinSupply} /\ total >= MinSupply
    BY <2>1, MaxOfTwo
  <2>3. QED
    BY <2>1, <2>2
<1>3. TOTAL_PARTITION \in Nat /\ base \in Nat /\ TOTAL_PARTITION - base \in Nat
  BY RewarderAssumption
<1>4. perShare \in Nat /\ (r = 0 => perShare = 0)
  <2> HIDE DEF r, total
  <2>1. QED
    BY <1>1, <1>2, <1>3, PerShareNat
<1>5. perFactor \in Nat /\ (r = 0 => perFactor = 0)
  <2> HIDE DEF r
  <2>1. QED
    BY <1>1, <1>3, PerShareNat
<1>6. UpdatedInfo(supply, sum, base) =
        [acc |-> info.acc + perShare, accFactor |-> info.accFactor + perFactor,
         distributed |-> info.distributed + r, claimed |-> info.claimed,
         last |-> Max({info.last, now}), tokenPerSec |-> info.tokenPerSec]
  BY DEF UpdatedInfo
<1>7. info.acc \in Nat /\ info.accFactor \in Nat /\ info.distributed \in Nat
        /\ info.claimed \in Nat /\ info.last \in Nat /\ info.tokenPerSec \in Nat /\ now \in Nat
  BY DEF RInv, InfoType
<1>8. Max({info.last, now}) \in Nat
  <2>1. PICK a \in Nat, b \in Nat : a = info.last /\ b = now
    BY <1>7
  <2>2. Max({a, b}) \in {a, b}
    BY MaxOfTwo
  <2>3. QED
    BY <2>1, <2>2
<1> HIDE DEF r, perShare, perFactor
<1>9. QED
  BY <1>1, <1>4, <1>5, <1>6, <1>7, <1>8 DEF Grows, InfoType
-----------------------------------------------------------------------------
\* What a user has earned only grows with the accumulators.
LEMMA PendingGrows ==
  ASSUME RInv, NEW i, Grows(i), NEW u \in Users
  PROVE  /\ share[u].debt <= Earned(i, share[u])
         /\ Earned(i, share[u]) \in Nat
         /\ PendingReward(info, share[u]) \in Nat
         /\ PendingReward(i, share[u]) \in Nat
         /\ PendingReward(info, share[u]) <= PendingReward(i, share[u])
<1> DEFINE s == share[u]
           old == Earned(info, s)
           new == Earned(i, s)
<1>1. s.amount \in Nat /\ s.factor \in Nat /\ s.debt \in Nat /\ s.unpaid \in Nat
  BY DEF RInv, ShareType
<1>2. info.acc \in Nat /\ info.accFactor \in Nat /\ i.acc \in Nat /\ i.accFactor \in Nat
        /\ info.acc <= i.acc /\ info.accFactor <= i.accFactor
  BY DEF RInv, InfoType, Grows
<1>3. old \in Nat /\ old <= new
  BY <1>1, <1>2, DebtMonotone DEF Earned
<1>4. new \in Nat
  BY <1>1, <1>2, DebtNat DEF Earned
<1>5. s.debt <= old
  BY DEF RInv
<1>6. PendingReward(info, s) = IF s.debt > 0 \/ s.unpaid > 0 THEN old + s.unpaid - s.debt ELSE 0
  BY DEF PendingReward, Earned
<1>7. PendingReward(i, s) = IF s.debt > 0 \/ s.unpaid > 0 THEN new + s.unpaid - s.debt ELSE 0
  BY DEF PendingReward, Earned
<1> HIDE DEF old, new
<1>8. s.debt <= new
  BY <1>1, <1>3, <1>4, <1>5
<1>9. PendingReward(info, s) \in Nat /\ PendingReward(i, s) \in Nat
        /\ PendingReward(info, s) <= PendingReward(i, s)
  BY <1>1, <1>3, <1>4, <1>5, <1>6, <1>7, <1>8
<1>10. QED
  BY <1>4, <1>8, <1>9 DEF new

LEMMA DebtAtStart ==
  ASSUME NEW a \in Nat, NEW f \in Nat
  PROVE  Debt(a, ACC_TOKEN_PRECISION, f, 0) = a
<1>1. ACC_TOKEN_PRECISION \in Nat \ {0}
  BY RewarderAssumption
<1>2. (a * ACC_TOKEN_PRECISION) \div ACC_TOKEN_PRECISION = a
  BY <1>1
<1>3. a * ACC_TOKEN_PRECISION + f * 0 = a * ACC_TOKEN_PRECISION
  BY <1>1, ProductMonotone
<1>4. QED
  BY <1>2, <1>3 DEF Debt

\* A share with a fresh debt has earned nothing but what is unpaid.
LEMMA FreshShare ==
  ASSUME NEW i \in InfoType, i.acc >= ACC_TOKEN_PRECISION,
         NEW amount \in Nat, NEW factor \in Nat, NEW owed \in Nat,
         NEW s, s = [amount |-> amount, factor |-> factor,
                     debt |-> Debt(amount, i.acc, factor, i.accFactor), unpaid |-> owed]
  PROVE  /\ s \in ShareType
         /\ s.debt = Earned(i, s)
         /\ PendingReward(i, s) = owed
         /\ s.amount > 0 => s.debt > 0
<1> DEFINE d == Debt(amount, i.acc, factor, i.accFactor)
<1>1. i.acc \in Nat /\ i.accFactor \in Nat
  BY DEF InfoType
<1>2. d \in Nat /\ d >= amount
  BY <1>1, DebtCoversStake
<1>3. s.amount = amount /\ s.factor = factor /\ s.debt = d /\ s.unpaid = owed
  OBVIOUS
<1>4. Earned(i, s) = d
  BY <1>3 DEF Earned
<1>5. PendingReward(i, s) = IF d > 0 \/ owed > 0 THEN d + owed - d ELSE 0
  BY <1>3 DEF PendingReward
<1> HIDE DEF d
<1>6. PendingReward(i, s) = owed
  BY <1>2, <1>5
<1>7. s \in ShareType
  <2>1. s = [amount |-> amount, factor |-> factor, debt |-> d, unpaid |-> owed]
    BY DEF d
  <2>2. QED
    BY <1>2, <2>1 DEF ShareType
<1>8. QED
  BY <1>2, <1>3, <1>4, <1>6, <1>7
-----------------------------------------------------------------------------
\* The step of a user u whose share becomes fresh and who is paid a reward,
\* while the accumulators go from info to i: nobody loses, and the shares of
\* the others stay covered.
LEMMA FreshStepKeeps ==
  ASSUME RInv, NEW i, Grows(i), NEW u \in Users,
         NEW amount \in Nat, NEW factor \in Nat, NEW owed \in Nat, NEW reward \in Nat,
         (share[u].amount = 0 => share[u].factor = 0) =>
            PendingReward(i, share[u]) <= owed + reward,
         info' \in InfoType, info'.acc = i.acc, info'.accFactor = i.accFactor,
         share' = [share EXCEPT ![u] =
                     [amount |-> amount, factor |-> factor,
                      debt |-> Debt(amount, i.acc, factor, i.accFactor), unpaid |-> owed]],
         claimedBy' = [claimedBy EXCEPT ![u] = @ + reward]
  PROVE  /\ share' \in [Users -> ShareType]
         /\ claimedBy' \in [Users -> Nat]
         /\ info'.acc >= ACC_TOKEN_PRECISION
         /\ \A v \in Users : share'[v].debt <= Earned(info', share'[v])
         /\ \A v \in Users : share'[v].amount > 0 /\ share'[v].debt = 0 => share'[v].unpaid = 0
         /\ KeepsRewards
<1> DEFINE s == [amount |-> amount, factor |-> factor,
                 debt |-> Debt(amount, i.acc, factor, i.accFactor), unpaid |-> owed]
<1>1. i \in InfoType /\ i.acc >= ACC_TOKEN_PRECISION
  <2>1. ACC_TOKEN_PRECISION \in Nat /\ info.acc \in Nat /\ i.acc \in Nat
    BY RewarderAssumption DEF RInv, InfoType, Grows
  <2>2. QED
    BY <2>1 DEF RInv, Grows
<1>2. /\ s \in ShareType
      /\ s.debt = Earned(i, s)
      /\ PendingReward(i, s) = owed
      /\ s.amount > 0 => s.debt > 0
  BY <1>1, FreshShare
<1> HIDE DEF s
<1>3. share' = [share EXCEPT ![u] = s]
  BY DEF s
<1>4. share'[u] = s /\ \A v \in Users \ {u} : share'[v] = share[v]
  BY <1>3 DEF RInv
<1>5. claimedBy'[u] = claimedBy[u] + reward /\ \A v \in Users \ {u} : claimedBy'[v] = claimedBy[v]
  BY DEF RInv
<1>6. \A v \in Users : claimedBy[v] \in Nat
  BY DEF RInv
<1>7. \A t : Earned(info', t) = Earned(i, t) /\ PendingReward(info', t) = PendingReward(i, t)
  BY DEF Earned, PendingReward
<1>8. ASSUME NEW v \in Users
      PROVE  /\ share'[v].debt <= Earned(info', share'[v])
             /\ share'[v].amount > 0 /\ share'[v].debt = 0 => share'[v].unpaid = 0
             /\ (share[v].amount = 0 => share[v].factor = 0) =>
                  claimedBy[v] + PendingReward(info, share[v])
                    <= claimedBy'[v] + PendingReward(info', share'[v])
  <2>1. CASE v = u
    <3>1. PendingReward(info, share[u]) \in Nat /\ PendingReward(i, share[u]) \in Nat
            /\ PendingReward(info, share[u]) <= PendingReward(i, share[u])
      BY PendingGrows
    <3>2. s.debt \in Nat
      BY <1>2 DEF ShareType
    <3>3. PendingReward(info', share'[u]) = owed
      BY <1>2, <1>4, <1>7
    <3>4. share'[u].debt = s.debt /\ Earned(info', share'[u]) = s.debt
      BY <1>2, <1>4, <1>7
    <3>5. share'[u].amount > 0 => share'[u].debt > 0
      BY <1>2, <1>4
    <3>6. (share[u].amount = 0 => share[u].factor = 0) =>
            claimedBy[u] + PendingReward(info, share[u]) <= claimedBy'[u] + owed
      <4> SUFFICES ASSUME share[u].amount = 0 => share[u].factor = 0
                   PROVE  claimedBy[u] + PendingReward(info, share[u]) <= claimedBy'[u] + owed
        OBVIOUS
      <4>1. PICK p \in Nat, q \in Nat, c \in Nat :
              p = PendingReward(info, share[u]) /\ q = PendingReward(i, share[u]) /\ c = claimedBy[u]
        BY <1>6, <3>1
      <4>2. p <= q /\ q <= owed + reward /\ claimedBy'[u] = c + reward
        BY <1>5, <3>1, <4>1
      <4>3. QED
        BY <4>1, <4>2
    <3>7. QED
      BY <2>1, <3>2, <3>3, <3>4, <3>5, <3>6
  <2>2. CASE v # u
    <3>1. share[v].debt <= Earned(i, share[v])
            /\ PendingReward(info, share[v]) \in Nat /\ PendingReward(i, share[v]) \in Nat
            /\ PendingReward(info, share[v]) <= PendingReward(i, share[v])
      BY PendingGrows
    <3>2. share'[v] = share[v] /\ claimedBy'[v] = claimedBy[v]
      BY <1>4, <1>5, <2>2
    <3>3. share[v].amount > 0 /\ share[v].debt = 0 => share[v].unpaid = 0
      BY DEF RInv
    <3>4. QED
      BY <1>6, <1>7, <3>1, <3>2, <3>3
  <2>3. QED
    BY <2>1, <2>2
<1>9. share' \in [Users -> ShareType]
  BY <1>2, <1>3 DEF RInv
<1>10. claimedBy' \in [Users -> Nat]
  BY DEF RInv
<1>11. QED
  BY <1>1, <1>8, <1>9, <1>10 DEF KeepsRewards
-----------------------------------------------------------------------------
LEMMA OnRewardKeeps ==
  ASSUME RInv, now' = now, NEW u \in Users, NEW amount \in Nat, NEW factor \in Nat,
         NEW supply \in Int, NEW sum \in Int, NEW base \in 0..TOTAL_PARTITION,
         OnReward(u, amount, factor, supply, sum, base)
  PROVE  RInv' /\ KeepsRewards
<1> DEFINE up == UpdatedInfo(supply, sum, base)
<1>1. PICK i : i = up
  OBVIOUS
<1>2. /\ Grows(i)
      /\ sent = 0 => /\ i.acc = info.acc /\ i.accFactor = info.accFactor
                     /\ i.distributed = info.distributed
  BY <1>1, UpdatedInfoGrows
<1>3. PICK pending \in Nat : pending = PendingReward(i, share[u])
  BY <1>2, PendingGrows
<1>4. pending \in Nat
  OBVIOUS
<1>5. PICK held \in Nat : held = tokens
  BY DEF RInv
<1>6. PICK reward : reward = Min({pending, held})
  OBVIOUS
<1>7. reward \in Nat /\ reward <= pending /\ reward <= held
        /\ pending - reward \in Nat /\ held - reward \in Nat
  <2>1. Min({pending, held}) \in {pending, held}
          /\ Min({pending, held}) <= pending /\ Min({pending, held}) <= held
    <3>1. pending \in Int /\ held \in Int
      OBVIOUS
    <3>2. QED
      BY <3>1, MinOfTwo
  <2>2. reward \in {pending, held} /\ reward <= pending /\ reward <= held
    BY <1>6, <2>1
  <2>3. QED
    BY <2>2
<1>8. /\ info' = [i EXCEPT !.claimed = @ + reward]
      /\ share' = [share EXCEPT ![u] =
           [amount |-> amount, factor |-> factor,
            debt |-> Debt(amount, i.acc, factor, i.accFactor), unpaid |-> pending - reward]]
      /\ tokens' = held - reward
      /\ claimedBy' = [claimedBy EXCEPT ![u] = @ + reward]
      /\ sent' = sent
  BY <1>1, <1>3, <1>5, <1>6 DEF OnReward, Unpaid
<1>9. info' \in InfoType /\ info'.acc = i.acc /\ info'.accFactor = i.accFactor
        /\ info'.distributed = i.distributed /\ info'.claimed = info.claimed + reward
  BY <1>2, <1>7, <1>8 DEF Grows, InfoType
<1>10. PendingReward(i, share[u]) <= (pending - reward) + reward
  BY <1>3, <1>4, <1>7
<1>11. /\ share' \in [Users -> ShareType]
       /\ claimedBy' \in [Users -> Nat]
       /\ info'.acc >= ACC_TOKEN_PRECISION
       /\ \A v \in Users : share'[v].debt <= Earned(info', share'[v])
       /\ \A v \in Users : share'[v].amount > 0 /\ share'[v].debt = 0 => share'[v].unpaid = 0
       /\ KeepsRewards
  BY <1>2, <1>7, <1>8, <1>9, <1>10, FreshStepKeeps
<1>12. sent' = 0 => NothingSent'
  <2> SUFFICES ASSUME sent = 0 PROVE NothingSent'
    BY <1>8
  <2>1. NothingSent
    BY DEF RInv
  <2>2. held = 0 /\ reward = 0
    BY <1>5, <1>7, <2>1 DEF NothingSent
  <2>3. i.acc = ACC_TOKEN_PRECISION /\ i.accFactor = 0
    BY <1>2, <2>1 DEF NothingSent
  <2>4. pending = 0
    <3>1. share[u].unpaid = 0 /\ share[u].debt \in {0, share[u].amount}
            /\ share[u].amount \in Nat /\ share[u].factor \in Nat
      BY <2>1 DEF NothingSent, RInv, ShareType
    <3>2. Debt(share[u].amount, i.acc, share[u].factor, i.accFactor) = share[u].amount
      BY <2>3, <3>1, DebtAtStart
    <3>3. QED
      BY <1>3, <3>1, <3>2 DEF PendingReward
  <2>5. Debt(amount, i.acc, factor, i.accFactor) = amount
    BY <2>3, DebtAtStart
  <2>6. \A v \in Users : share'[v].unpaid = 0 /\ share'[v].debt \in {0, share'[v].amount}
    <3> SUFFICES ASSUME NEW v \in Users
                 PROVE  share'[v].unpaid = 0 /\ share'[v].debt \in {0, share'[v].amount}
      OBVIOUS
    <3>1. CASE v = u
      BY <1>8, <2>2, <2>4, <2>5, <3>1 DEF RInv
    <3>2. CASE v # u
      BY <1>8, <2>1, <3>2 DEF RInv, NothingSent
    <3>3. QED
      BY <3>1, <3>2
  <2>7. info'.distributed = 0 /\ info'.claimed = 0
    BY <1>2, <1>9, <2>1, <2>2 DEF NothingSent
  <2>8. tokens' = 0
    BY <1>8, <2>2
  <2>9. QED
    BY <1>9, <2>3, <2>6, <2>7, <2>8 DEF NothingSent
<1>13. now' \in Nat /\ tokens' \in Nat /\ sent' \in Nat
  BY <1>7, <1>8 DEF RInv
<1>14. QED
  BY <1>9, <1>11, <1>12, <1>13 DEF RInv

\* A step that only lets the accumulators grow.
LEMMA GrowthKeeps ==
  ASSUME RInv, now' \in Nat, NEW i, Grows(i),
         info' \in InfoType, info'.acc = i.acc, info'.accFactor = i.accFactor,
         tokens' \in Nat, sent' \in Nat, UNCHANGED <<share, claimedBy>>,
         sent' = 0 => /\ sent = 0 /\ tokens' = 0
                      /\ info'.acc = info.acc /\ info'.accFactor = info.accFactor
                      /\ info'.distributed = info.distributed /\ info'.claimed = info.claimed
  PROVE  RInv' /\ KeepsRewards
<1>1. \A t : Earned(info', t) = Earned(i, t) /\ PendingReward(info', t) = PendingReward(i, t)
  BY DEF Earned, PendingReward
<1>2. share' = share /\ claimedBy' = claimedBy
  OBVIOUS
<1>3. ASSUME NEW u \in Users
      PROVE  /\ share'[u].debt <= Earned(info', share'[u])
             /\ claimedBy[u] + PendingReward(info, share[u])
                  <= claimedBy'[u] + PendingReward(info', share'[u])
  <2>1. share[u].debt <= Earned(i, share[u])
          /\ PendingReward(info, share[u]) \in Nat /\ PendingReward(i, share[u]) \in Nat
          /\ PendingReward(info, share[u]) <= PendingReward(i, share[u])
    BY PendingGrows
  <2>2. claimedBy[u] \in Nat
    BY DEF RInv
  <2>3. QED
    BY <1>1, <1>2, <2>1, <2>2
<1>4. KeepsRewards
  BY <1>3 DEF KeepsRewards
<1>5. info'.acc >= ACC_TOKEN_PRECISION
  <2>1. info.acc \in Nat /\ i.acc \in Nat /\ ACC_TOKEN_PRECISION \in Nat
    BY RewarderAssumption DEF RInv, InfoType, Grows
  <2>2. QED
    BY <2>1 DEF RInv, Grows
<1>6. sent' = 0 => NothingSent'
  BY <1>2 DEF RInv, NothingSent
<1>7. QED
  BY <1>2, <1>3, <1>4, <1>5, <1>6 DEF RInv

LEMMA SameInfoGrows ==
  ASSUME RInv
  PROVE  Grows(info)
BY DEF RInv, Grows, InfoType

LEMMA UpdateRewardKeeps ==
  ASSUME RInv, now' = now,
         NEW supply \in Int, NEW sum \in Int, NEW base \in 0..TOTAL_PARTITION,
         UpdateReward(supply, sum, base)
  PROVE  RInv' /\ KeepsRewards
<1>1. PICK i : i = UpdatedInfo(supply, sum, base)
  OBVIOUS
<1>2. /\ Grows(i)
      /\ sent = 0 => /\ i.acc = info.acc /\ i.accFactor = info.accFactor
                     /\ i.distributed = info.distributed
  BY <1>1, UpdatedInfoGrows
<1>3. info' = i /\ UNCHANGED <<share, claimedBy, tokens, sent>>
  BY <1>1 DEF UpdateReward
<1>4. sent' = 0 => tokens' = 0
  BY <1>3 DEF RInv, NothingSent
<1>5. now' \in Nat /\ tokens' \in Nat /\ sent' \in Nat /\ info' \in InfoType /\ info'.claimed = info.claimed
  BY <1>2, <1>3 DEF RInv, Grows
<1>6. QED
  BY <1>2, <1>3, <1>4, <1>5, GrowthKeeps

LEMMA SetRewardRateKeeps ==
  ASSUME RInv, now' = now, NEW rate \in Nat, NEW start \in Nat,
         NEW supply \in Int, NEW sum \in Int, NEW base \in 0..TOTAL_PARTITION,
         SetRewardRate(rate, start, supply, sum, base)
  PROVE  RInv' /\ KeepsRewards
<1>1. PICK i : i = UpdatedInfo(supply, sum, base)
  OBVIOUS
<1>2. /\ Grows(i)
      /\ sent = 0 => /\ i.acc = info.acc /\ i.accFactor = info.accFactor
                     /\ i.distributed = info.distributed
  BY <1>1, UpdatedInfoGrows
<1>3. /\ info' = [i EXCEPT !.tokenPerSec = rate, !.last = IF start > 0 THEN start ELSE @]
      /\ UNCHANGED <<share, claimedBy, tokens, sent>>
  BY <1>1 DEF SetRewardRate
<1>4. sent' = 0 => tokens' = 0
  BY <1>3 DEF RInv, NothingSent
<1>5. info' \in InfoType /\ info'.acc = i.acc /\ info'.accFactor = i.accFactor
        /\ info'.distributed = i.distributed /\ info'.claimed = info.claimed
  BY <1>2, <1>3 DEF Grows, InfoType
<1>6. now' \in Nat /\ tokens' \in Nat /\ sent' \in Nat
  BY <1>3 DEF RInv
<1>7. QED
  BY <1>2, <1>3, <1>4, <1>5, <1>6, GrowthKeeps

LEMMA OnUpdateFactorKeeps ==
  ASSUME RInv, now' = now, NEW u \in Users, NEW factor \in Nat,
         NEW supply \in Int, NEW sum \in Int, NEW base \in 0..TOTAL_PARTITION,
         OnUpdateFactor(u, factor, supply, sum, base)
  PROVE  RInv' /\ KeepsRewards
<1>1. CASE base = TOTAL_PARTITION
  <2>1. UNCHANGED <<info, share, tokens, claimedBy, sent>>
    BY <1>1 DEF OnUpdateFactor, rewarderVars
  <2>2. Grows(info) /\ info' \in InfoType
    BY <2>1, SameInfoGrows DEF RInv
  <2>3. now' \in Nat /\ tokens' \in Nat /\ sent' \in Nat
    BY <2>1 DEF RInv
  <2>4. sent' = 0 => tokens' = 0
    BY <2>1 DEF RInv, NothingSent
  <2>5. PICK i : i = info
    OBVIOUS
  <2>6. QED
    BY <2>1, <2>2, <2>3, <2>4, <2>5, GrowthKeeps
<1>2. CASE base # TOTAL_PARTITION
  <2>1. PICK i : i = UpdatedInfo(supply, sum, base)
    OBVIOUS
  <2>2. /\ Grows(i)
        /\ sent = 0 => /\ i.acc = info.acc /\ i.accFactor = info.accFactor
                       /\ i.distributed = info.distributed
    BY <2>1, UpdatedInfoGrows
  <2>3. PICK a \in Nat, f \in Nat, d \in Nat, n \in Nat :
          a = share[u].amount /\ f = share[u].factor /\ d = share[u].debt /\ n = share[u].unpaid
    BY DEF RInv, ShareType
  <2>4. PICK new \in Nat : new = Debt(a, i.acc, f, i.accFactor)
    BY <2>2, <2>3, PendingGrows DEF Earned
  <2>5. d <= new
    BY <2>2, <2>3, <2>4, PendingGrows DEF Earned
  <2>6. PICK owed : owed = n + (IF d > 0 THEN new - d ELSE 0)
    OBVIOUS
  <2>7. owed \in Nat
    BY <2>5, <2>6
  <2>8. /\ info' = i
        /\ share' = [share EXCEPT ![u] =
             [amount |-> a, factor |-> factor,
              debt |-> Debt(a, i.acc, factor, i.accFactor), unpaid |-> owed]]
        /\ UNCHANGED <<tokens, claimedBy, sent>>
    BY <1>2, <2>1, <2>3, <2>4, <2>6 DEF OnUpdateFactor
  <2>9. (a = 0 => f = 0) => PendingReward(i, share[u]) <= owed + 0
    <3> SUFFICES ASSUME a = 0 => f = 0 PROVE PendingReward(i, share[u]) <= owed + 0
      OBVIOUS
    <3>1. PendingReward(i, share[u]) = IF d > 0 \/ n > 0 THEN new + n - d ELSE 0
      BY <2>3, <2>4 DEF PendingReward
    <3>2. d = 0 /\ n > 0 => a = 0
      <4>1. share[u].amount > 0 /\ share[u].debt = 0 => share[u].unpaid = 0
        BY DEF RInv
      <4>2. a > 0 /\ d = 0 => n = 0
        BY <4>1, <2>3
      <4>3. QED
        BY <4>2, <2>3
    <3>3. a = 0 => new = 0
      <4> SUFFICES ASSUME a = 0 PROVE new = 0
        OBVIOUS
      <4>1. f = 0
        OBVIOUS
      <4>2. i.acc \in Nat /\ i.accFactor \in Nat
        BY <2>2 DEF Grows, InfoType
      <4>3. a * i.acc + f * i.accFactor = 0
        BY <4>1, <4>2
      <4>4. ACC_TOKEN_PRECISION \in Nat \ {0}
        BY RewarderAssumption
      <4>5. QED
        BY <2>4, <4>3, <4>4, DivNat DEF Debt
    <3>4. QED
      BY <2>5, <2>6, <3>1, <3>2, <3>3
  <2>10. claimedBy' = [claimedBy EXCEPT ![u] = @ + 0]
    BY <2>8 DEF RInv
  <2>11. info' \in InfoType /\ info'.acc = i.acc /\ info'.accFactor = i.accFactor
    BY <2>2, <2>8 DEF Grows
  <2>12. /\ share' \in [Users -> ShareType]
         /\ claimedBy' \in [Users -> Nat]
         /\ info'.acc >= ACC_TOKEN_PRECISION
         /\ \A v \in Users : share'[v].debt <= Earned(info', share'[v])
         /\ \A v \in Users : share'[v].amount > 0 /\ share'[v].debt = 0 => share'[v].unpaid = 0
         /\ KeepsRewards
    <3>1. PICK zero \in Nat : zero = 0
      OBVIOUS
    <3>2. QED
      BY <2>2, <2>3, <2>7, <2>8, <2>9, <2>10, <2>11, <3>1, FreshStepKeeps
  <2>13. sent' = 0 => NothingSent'
    <3> SUFFICES ASSUME sent = 0 PROVE NothingSent'
      BY <2>8
    <3>1. NothingSent
      BY DEF RInv
    <3>2. i.acc = ACC_TOKEN_PRECISION /\ i.accFactor = 0
      BY <2>2, <3>1 DEF NothingSent
    <3>3. new = a /\ Debt(a, i.acc, factor, i.accFactor) = a
      BY <2>4, <3>2, DebtAtStart
    <3>4. n = 0 /\ d \in {0, a}
      BY <2>3, <3>1 DEF NothingSent
    <3>5. owed = 0
      BY <2>6, <3>3, <3>4
    <3>6. \A v \in Users : share'[v].unpaid = 0 /\ share'[v].debt \in {0, share'[v].amount}
      BY <2>8, <3>1, <3>3, <3>5 DEF RInv, NothingSent
    <3>7. QED
      BY <2>2, <2>8, <3>1, <3>2, <3>6 DEF NothingSent, Grows
  <2>14. now' \in Nat /\ tokens' \in Nat /\ sent' \in Nat
    BY <2>8 DEF RInv
  <2>15. QED
    BY <2>11, <2>12, <2>13, <2>14 DEF RInv
<1>3. QED
  BY <1>1, <1>2
-----------------------------------------------------------------------------
\* The clock, refills and the owner leave the accumulators alone.
LEMMA SameInfoKeeps ==
  ASSUME RInv, now' \in Nat, tokens' \in Nat, sent' \in Nat,
         info' \in InfoType, info'.acc = info.acc, info'.accFactor = info.accFactor,
         UNCHANGED <<share, claimedBy>>,
         sent' = 0 => /\ sent = 0 /\ tokens' = 0
                      /\ info'.distributed = info.distributed /\ info'.claimed = info.claimed
  PROVE  RInv' /\ KeepsRewards
<1>1. Grows(info)
  BY SameInfoGrows
<1>2. PICK i : i = info
  OBVIOUS
<1>3. QED
  BY <1>1, <1>2, GrowthKeeps

LEMMA UnchangedKeeps ==
  ASSUME RInv, now' \in Nat, UNCHANGED <<info, share, tokens, claimedBy, sent>>
  PROVE  RInv' /\ KeepsRewards
<1>1. info' \in InfoType /\ tokens' \in Nat /\ sent' \in Nat
  BY DEF RInv
<1>2. sent' = 0 => tokens' = 0
  BY DEF RInv, NothingSent
<1>3. QED
  BY <1>1, <1>2, SameInfoKeeps

LEMMA RefillKeeps ==
  ASSUME RInv, now' = now, NEW n \in Nat, Refill(n)
  PROVE  RInv' /\ KeepsRewards
<1>1. tokens' \in Nat /\ sent' \in Nat /\ now' \in Nat /\ info' \in InfoType
  BY DEF Refill, RInv
<1>2. sent' = 0 => sent = 0 /\ n = 0
  BY DEF Refill, RInv
<1>3. sent' = 0 => sent = 0 /\ tokens' = 0
  BY <1>2 DEF Refill, RInv, NothingSent
<1>4. QED
  BY <1>1, <1>3, SameInfoKeeps DEF Refill

LEMMA TokenWithdrawKeeps ==
  ASSUME RInv, now' = now, EmergencyTokenWithdraw
  PROVE  RInv' /\ KeepsRewards
<1>1. tokens' \in Nat /\ sent' \in Nat /\ now' \in Nat /\ info' \in InfoType
  BY DEF EmergencyTokenWithdraw, RInv
<1>2. QED
  BY <1>1, SameInfoKeeps DEF EmergencyTokenWithdraw

LEMMA EmergencyWithdrawKeeps ==
  ASSUME RInv, now' = now, RewarderEmergencyWithdraw
  PROVE  RInv' /\ KeepsRewards
<1>1. tokens' \in Nat /\ sent' \in Nat /\ now' \in Nat
  BY DEF RewarderEmergencyWithdraw, RInv
<1>2. info' = [info EXCEPT !.tokenPerSec = 0, !.last = now]
  BY DEF RewarderEmergencyWithdraw
<1>3. info \in InfoType /\ now \in Nat
  BY DEF RInv
<1>4. /\ info' \in InfoType
      /\ info'.acc = info.acc /\ info'.accFactor = info.accFactor
      /\ info'.distributed = info.distributed /\ info'.claimed = info.claimed
  BY <1>2, <1>3 DEF InfoType
<1>5. QED
  BY <1>1, <1>4, SameInfoKeeps DEF RewarderEmergencyWithdraw

\* Nobody had a reward in a token that was never sent, so replacing it by a
\* new one costs nothing.
LEMMA AddRewardTokenKeeps ==
  ASSUME RInv, now' = now, NEW rate \in Nat, NEW start \in Nat, AddRewardToken(rate, start)
  PROVE  RInv' /\ KeepsRewards
<1>1. /\ sent = 0 /\ sent' = 0
      /\ UNCHANGED <<tokens, claimedBy>>
      /\ share' = [u \in Users |-> [amount |-> share[u].amount, factor |-> share[u].factor,
                                    debt |-> 0, unpaid |-> 0]]
  BY DEF AddRewardToken
<1>2. NothingSent
  BY <1>1 DEF RInv
<1>3. PICK first \in Nat : info' = NewInfo(rate, first)
  <2>1. now \in Nat
    BY DEF RInv
  <2>2. QED
    BY <2>1 DEF AddRewardToken
<1>4. ACC_TOKEN_PRECISION \in Nat \ {0}
  BY RewarderAssumption
<1>5. /\ info' \in InfoType
      /\ info'.acc = ACC_TOKEN_PRECISION /\ info'.accFactor = 0
      /\ info'.distributed = 0 /\ info'.claimed = 0
  BY <1>3, <1>4 DEF NewInfo, InfoType
<1>6. ASSUME NEW u \in Users
      PROVE  /\ share[u] \in ShareType /\ share'[u] \in ShareType
             /\ share'[u].debt = 0 /\ share'[u].unpaid = 0
  <2>1. share[u] \in ShareType
    BY DEF RInv
  <2>2. share[u].amount \in Nat /\ share[u].factor \in Nat
    BY <2>1 DEF ShareType
  <2>3. share'[u] = [amount |-> share[u].amount, factor |-> share[u].factor,
                     debt |-> 0, unpaid |-> 0]
    BY <1>1
  <2>4. QED
    BY <2>1, <2>2, <2>3 DEF ShareType
<1>7. share' \in [Users -> ShareType]
  BY <1>1, <1>6
<1>8. ASSUME NEW u \in Users
      PROVE  /\ share'[u].debt <= Earned(info', share'[u])
             /\ PendingReward(info', share'[u]) = 0
  <2>1. PICK a \in Nat, f \in Nat : a = share'[u].amount /\ f = share'[u].factor
    BY <1>6 DEF ShareType
  <2>2. Earned(info', share'[u]) = a
    BY <1>5, <2>1, DebtAtStart DEF Earned
  <2>3. QED
    BY <1>6, <2>1, <2>2 DEF PendingReward
<1>9. ASSUME NEW u \in Users
      PROVE  PendingReward(info, share[u]) = 0
  <2>1. PICK a \in Nat, f \in Nat, d \in Nat, n \in Nat :
          a = share[u].amount /\ f = share[u].factor /\ d = share[u].debt /\ n = share[u].unpaid
    BY <1>6 DEF ShareType
  <2>2. Debt(a, info.acc, f, info.accFactor) = a
    BY <1>2, DebtAtStart DEF NothingSent
  <2>3. n = 0 /\ d \in {0, a}
    BY <1>2, <2>1 DEF NothingSent
  <2>4. PendingReward(info, share[u]) = IF d > 0 \/ n > 0 THEN a + n - d ELSE 0
    BY <2>1, <2>2 DEF PendingReward
  <2>5. QED
    BY <2>1, <2>3, <2>4
<1>10. KeepsRewards
  BY <1>1, <1>8, <1>9 DEF KeepsRewards, RInv
<1>11. NothingSent'
  BY <1>1, <1>2, <1>5, <1>6 DEF NothingSent
<1>12. /\ now' \in Nat /\ tokens' \in Nat /\ sent' \in Nat
       /\ claimedBy' \in [Users -> Nat] /\ info'.acc >= ACC_TOKEN_PRECISION
  BY <1>1, <1>4, <1>5 DEF RInv
<1>13. RInv'
  BY <1>5, <1>6, <1>7, <1>8, <1>11, <1>12 DEF RInv
<1>14. QED
  BY <1>10, <1>13
-----------------------------------------------------------------------------
(* MasterWombat.                                                           *)

LEMMA FloorRootNat ==
  ASSUME NEW y \in Nat
  PROVE  FloorRoot(y) \in Nat
<1> DEFINE roots == {n \in 1..y : n * n <= y}
<1>1. IsFiniteSet(1..y)
  BY FS_Interval
<1>2. roots \subseteq 1..y
  OBVIOUS
<1>3. IsFiniteSet(roots)
  BY <1>1, <1>2, FS_Subset
<1>4. QED
  BY <1>3, FS_CardinalityType DEF FloorRoot

LEMMA BoostNat ==
  ASSUME NEW amount \in Nat, NEW ve \in Nat
  PROVE  Boost(amount, ve) \in Nat
<1>1. PICK y \in Nat : y = amount * ve
  OBVIOUS
<1>2. QED
  BY <1>1, FloorRootNat DEF Boost

PoolType ==
  [accWomPerShare : Nat, accWomPerFactorShare : Nat, sumOfFactors : Nat,
   rewardRate : Nat, periodFinish : Nat, lastRewardTimestamp : Nat]

StakeType == [amount : Nat, factor : Nat, rewardDebt : Nat, pendingWom : Nat]

SettingsType ==
  [paused : BOOLEAN, voter : BOOLEAN, newMasterWombat : BOOLEAN,
   boostedRewarder : BOOLEAN, basePartition : 0..TOTAL_PARTITION]

\* A pool whose last update is neither in the future nor past its period.
InOrder(p) ==
  /\ p \in PoolType
  /\ p.lastRewardTimestamp <= now /\ p.lastRewardTimestamp <= p.periodFinish
  /\ p.periodFinish <= now + REWARD_DURATION

\* The part of the invariant about MasterWombat: its types, and no debt above
\* what the stake has earned.
MInv ==
  /\ InOrder(pool)
  /\ user \in [Users -> StakeType]
  /\ \A u \in Users : user[u].rewardDebt <= WomDebt(pool, user[u])
  /\ veBalance \in [Users -> Nat]
  /\ lpHeld \in Nat /\ womHeld \in Nat
  /\ paid \in [Users -> Nat]
  /\ settings \in SettingsType

WInv == RInv /\ MInv

\* A pool brought up to date: only its accumulators and its period moved.
Ahead(p) ==
  /\ InOrder(p)
  /\ p.accWomPerShare >= pool.accWomPerShare
  /\ p.accWomPerFactorShare >= pool.accWomPerFactorShare
  /\ p.sumOfFactors = pool.sumOfFactors

\* The step of EarningsKept.
KeepsEarnings ==
  \A u \in Users :
    \/ paid[u] + Owed(pool, user[u]) <= paid'[u] + Owed(pool', user'[u])
    \/ EmergencyWithdraw(u) /\ user'[u].pendingWom = user[u].pendingWom

LEMMA InOrderIsPeriodInOrder ==
  ASSUME WInv
  PROVE  PeriodInOrder
<1>1. PICK t \in Int, f \in Int : t = now /\ f = pool.periodFinish
  BY DEF WInv, RInv, MInv, InOrder, PoolType
<1>2. Min({t, f}) \in {t, f}
  BY MinOfTwo
<1>3. QED
  BY <1>1, <1>2 DEF WInv, MInv, InOrder, PoolType, PeriodInOrder

LEMMA MInit == Init => WInv
<1> SUFFICES ASSUME Init PROVE WInv
  OBVIOUS
<1>1. /\ REWARD_DURATION \in Nat /\ InitialBase \in 0..TOTAL_PARTITION
      /\ InitialRewarders \subseteq BOOLEAN
  BY MasterWombatAssumption
<1>2. /\ ACC_TOKEN_PRECISION \in Nat \ {0} /\ InitialTokenPerSec \in Nat
  BY RewarderAssumption
<1>3. InOrder(pool)
  BY <1>1 DEF Init, InOrder, PoolType
<1>4. user \in [Users -> StakeType] /\ \A u \in Users : user[u].rewardDebt <= WomDebt(pool, user[u])
  <2>1. user = [u \in Users |-> NoStake] /\ NoStake \in StakeType
    BY DEF Init, NoStake, StakeType
  <2>2. Debt(0, pool.accWomPerShare, 0, pool.accWomPerFactorShare) \in Nat
    BY <1>3, DebtNat DEF InOrder, PoolType
  <2>3. QED
    BY <2>1, <2>2 DEF NoStake, WomDebt
<1>5. settings \in SettingsType
  BY <1>1 DEF Init, SettingsType
<1>6. MInv
  BY <1>3, <1>4, <1>5 DEF Init, MInv
<1>7. info \in InfoType /\ info.acc = ACC_TOKEN_PRECISION /\ info.accFactor = 0
        /\ info.distributed = 0 /\ info.claimed = 0
  BY <1>2 DEF Init, RewarderInit, NewInfo, InfoType
<1>8. share = [u \in Users |-> NoShare] /\ tokens = 0 /\ now = 0 /\ sent = 0
        /\ claimedBy = [u \in Users |-> 0]
  BY DEF Init, RewarderInit
<1>9. ASSUME NEW u \in Users
      PROVE  share[u] \in ShareType /\ share[u].debt <= Earned(info, share[u])
  <2>1. share[u] = [amount |-> 0, factor |-> 0, debt |-> 0, unpaid |-> 0]
    BY <1>8 DEF NoShare
  <2>2. Debt(0, info.acc, 0, info.accFactor) = 0
    BY <1>7, DebtAtStart
  <2>3. QED
    BY <2>1, <2>2 DEF ShareType, Earned
<1>10. share \in [Users -> ShareType]
  BY <1>8, <1>9
<1>11. NothingSent
  BY <1>7, <1>8 DEF NothingSent, NoShare
<1>12. \A u \in Users : share[u].amount > 0 /\ share[u].debt = 0 => share[u].unpaid = 0
  BY <1>8 DEF NoShare
<1>13. RInv
  BY <1>2, <1>7, <1>8, <1>9, <1>10, <1>11, <1>12 DEF RInv
<1>14. QED
  BY <1>6, <1>13 DEF WInv
-----------------------------------------------------------------------------
\* What the accumulators gain in an update.
LEMMA WomPerUnitNat ==
  ASSUME WInv, NEW p, InOrder(p), NEW part \in Nat, NEW total \in Nat \ {0}
  PROVE  WomPerUnit(p, part, total) \in Nat
<1>1. TOTAL_PARTITION \in Nat \ {0} /\ ACC_TOKEN_PRECISION \in Nat
  BY RewarderAssumption
<1>2. PICK t \in Int, f \in Int : t = now /\ f = p.periodFinish /\ t >= 0 /\ f >= 0
  BY DEF WInv, RInv, InOrder, PoolType
<1>3. LastTimeRewardApplicable(p.periodFinish) \in {t, f}
  BY <1>2, MinOfTwo DEF LastTimeRewardApplicable
<1>4. PICK e \in Nat : e = LastTimeRewardApplicable(p.periodFinish) - p.lastRewardTimestamp
  BY <1>2, <1>3 DEF InOrder, PoolType
<1>5. PICK r \in Nat : r = p.rewardRate
  BY DEF InOrder, PoolType
<1>6. e * r * ACC_TOKEN_PRECISION * part \in Nat
  <2>1. e * r \in Nat
    BY ProductMonotone
  <2>2. e * r * ACC_TOKEN_PRECISION \in Nat
    BY <1>1, <2>1, ProductMonotone
  <2>3. QED
    BY <2>2, ProductMonotone
<1>7. total * TOTAL_PARTITION \in Nat \ {0}
  BY <1>1
<1>8. QED
  BY <1>4, <1>5, <1>6, <1>7, DivNat DEF WomPerUnit

LEMMA AccruedPoolAhead ==
  ASSUME WInv
  PROVE  Ahead(AccruedPool)
<1>1. InOrder(pool) /\ lpHeld \in Nat /\ now \in Nat
  BY DEF WInv, MInv, RInv
<1>2. PICK b \in Nat, c \in Nat : b = settings.basePartition /\ c = TOTAL_PARTITION - b
  BY RewarderAssumption DEF WInv, MInv, SettingsType
<1>3. PICK a \in Nat : a = IF lpHeld = 0 THEN 0 ELSE WomPerUnit(pool, b, lpHeld)
  BY <1>1, WomPerUnitNat
<1>4. PICK f \in Nat : f = IF lpHeld = 0 \/ pool.sumOfFactors = 0 THEN 0
                           ELSE WomPerUnit(pool, c, pool.sumOfFactors)
  BY <1>1, WomPerUnitNat DEF InOrder, PoolType
<1>5. PICK last \in Nat : /\ last = LastTimeRewardApplicable(pool.periodFinish)
                          /\ last <= now /\ last <= pool.periodFinish
  <2>1. PICK t \in Int, g \in Int : t = now /\ g = pool.periodFinish /\ t >= 0 /\ g >= 0
    BY <1>1 DEF InOrder, PoolType
  <2>2. Min({t, g}) \in {t, g} /\ Min({t, g}) <= t /\ Min({t, g}) <= g
    BY MinOfTwo
  <2>3. QED
    BY <2>1, <2>2 DEF LastTimeRewardApplicable
<1>6. PICK q : q = [accWomPerShare |-> pool.accWomPerShare + a,
                    accWomPerFactorShare |-> pool.accWomPerFactorShare + f,
                    sumOfFactors |-> pool.sumOfFactors, rewardRate |-> pool.rewardRate,
                    periodFinish |-> pool.periodFinish, lastRewardTimestamp |-> last]
  OBVIOUS
<1>7. AccruedPool = q
  BY <1>2, <1>3, <1>4, <1>5, <1>6 DEF AccruedPool
<1>8. InOrder(q) /\ q.sumOfFactors = pool.sumOfFactors
  BY <1>1, <1>5, <1>6 DEF InOrder, PoolType
<1>9. /\ q.accWomPerShare >= pool.accWomPerShare
      /\ q.accWomPerFactorShare >= pool.accWomPerFactorShare
  BY <1>1, <1>6 DEF InOrder, PoolType
<1>10. QED
  BY <1>7, <1>8, <1>9 DEF Ahead

\* A payment only moves the period and the rate.
LEMMA NotifyAhead ==
  ASSUME WInv, NEW p, Ahead(p), NEW w \in Nat
  PROVE  Ahead(NotifyRewardAmount(p, w))
<1>1. InOrder(p) /\ now \in Nat /\ REWARD_DURATION \in Nat \ {0}
  BY MasterWombatAssumption DEF WInv, RInv, Ahead
<1>2. PICK n \in Nat : n = IF p.lastRewardTimestamp >= p.periodFinish THEN 0
                           ELSE (p.periodFinish - p.lastRewardTimestamp) * p.rewardRate
  <2>1. PICK d \in Nat : d = p.periodFinish - p.lastRewardTimestamp
    BY <1>1 DEF InOrder, PoolType
  <2>2. PICK r \in Nat : r = p.rewardRate
    BY <1>1 DEF InOrder, PoolType
  <2>3. d * r \in Nat
    BY ProductMonotone
  <2>4. QED
    BY <2>1, <2>2, <2>3
<1>3. PICK rate \in Nat : rate = (w + n) \div REWARD_DURATION
  BY <1>1, DivNat
<1>4. NotifyRewardAmount(p, w) =
        [p EXCEPT !.rewardRate = rate, !.lastRewardTimestamp = now,
                  !.periodFinish = now + REWARD_DURATION]
  BY <1>2, <1>3 DEF NotifyRewardAmount
<1>5. PICK q : q = [p EXCEPT !.rewardRate = rate, !.lastRewardTimestamp = now,
                             !.periodFinish = now + REWARD_DURATION]
  OBVIOUS
<1>6. q = [accWomPerShare |-> p.accWomPerShare, accWomPerFactorShare |-> p.accWomPerFactorShare,
           sumOfFactors |-> p.sumOfFactors, rewardRate |-> rate,
           periodFinish |-> now + REWARD_DURATION, lastRewardTimestamp |-> now]
  BY <1>1, <1>5 DEF InOrder, PoolType
<1>7. Ahead(q)
  BY <1>1, <1>6 DEF Ahead, InOrder, PoolType
<1>8. QED
  BY <1>4, <1>5, <1>7

LEMMA PoolAhead ==
  ASSUME WInv
  PROVE  Ahead(pool)
BY DEF Ahead, WInv, MInv, InOrder, PoolType

\* An update of the pool, with or without a payment, only moves it ahead.
LEMMA UpdatedPoolAhead ==
  ASSUME WInv, NEW w \in Nat
  PROVE  Ahead(UpdatedPool(w))
BY PoolAhead, AccruedPoolAhead, NotifyAhead DEF UpdatedPool

\* A stake has earned as much or more in a pool ahead.
LEMMA OwedGrows ==
  ASSUME WInv, NEW p, Ahead(p), NEW u \in Users
  PROVE  /\ WomDebt(p, user[u]) \in Nat
         /\ user[u].rewardDebt <= WomDebt(p, user[u])
         /\ Owed(pool, user[u]) \in Nat /\ Owed(p, user[u]) \in Nat
         /\ Owed(pool, user[u]) <= Owed(p, user[u])
<1>1. /\ user[u] \in StakeType /\ user[u].rewardDebt <= WomDebt(pool, user[u])
      /\ InOrder(pool) /\ InOrder(p)
  BY DEF WInv, MInv, Ahead
<1>2. PICK a \in Nat, f \in Nat : a = user[u].amount /\ f = user[u].factor
  BY <1>1 DEF StakeType
<1>3. PICK x \in Nat, y \in Nat, x2 \in Nat, y2 \in Nat :
        /\ x = pool.accWomPerShare /\ y = pool.accWomPerFactorShare
        /\ x2 = p.accWomPerShare /\ y2 = p.accWomPerFactorShare
        /\ x <= x2 /\ y <= y2
  BY <1>1 DEF InOrder, PoolType, Ahead
<1>4. /\ Debt(a, x, f, y) \in Nat /\ Debt(a, x2, f, y2) \in Nat
      /\ Debt(a, x, f, y) <= Debt(a, x2, f, y2)
  BY <1>3, DebtMonotone, DebtNat
<1>5. WomDebt(pool, user[u]) = Debt(a, x, f, y) /\ WomDebt(p, user[u]) = Debt(a, x2, f, y2)
  BY <1>2, <1>3 DEF WomDebt
<1>6. QED
  BY <1>1, <1>4, <1>5 DEF Owed, StakeType

\* A new sum of factors changes nothing of what a stake is owed.
LEMMA SumIsNoMatter ==
  ASSUME NEW p \in PoolType, NEW k, NEW s
  PROVE  LET q == [p EXCEPT !.sumOfFactors = k]
         IN  WomDebt(q, s) = WomDebt(p, s) /\ Owed(q, s) = Owed(p, s)
BY DEF PoolType, WomDebt, Owed

\* MasterWombat's part of a step in which the pool p gets a new sum of
\* factors, one user a new stake, and that user r of WOM.
LEMMA StakeStep ==
  ASSUME WInv, now' = now, NEW p, Ahead(p), NEW k \in Nat,
         NEW u \in Users, NEW s \in StakeType, s.rewardDebt <= WomDebt(p, s),
         NEW r \in Nat,
         pool' = [p EXCEPT !.sumOfFactors = k],
         user' = [user EXCEPT ![u] = s],
         paid' = [paid EXCEPT ![u] = @ + r],
         veBalance' \in [Users -> Nat], lpHeld' \in Nat, womHeld' \in Nat,
         settings' \in SettingsType,
         \/ Owed(pool, user[u]) <= r + s.pendingWom
         \/ EmergencyWithdraw(u) /\ s.pendingWom = user[u].pendingWom
  PROVE  MInv' /\ KeepsEarnings
<1>1. InOrder(p) /\ p \in PoolType /\ user \in [Users -> StakeType] /\ paid \in [Users -> Nat]
  BY DEF WInv, MInv, Ahead, InOrder
<1>2. InOrder(pool)'
  BY <1>1 DEF InOrder, PoolType
<1>3. \A v \in Users : /\ user'[v] = IF v = u THEN s ELSE user[v]
                       /\ paid'[v] = IF v = u THEN paid[v] + r ELSE paid[v]
  BY <1>1
<1>4. user' \in [Users -> StakeType] /\ paid' \in [Users -> Nat]
  BY <1>1, <1>3
<1>5. \A t : WomDebt(pool', t) = WomDebt(p, t) /\ Owed(pool', t) = Owed(p, t)
  BY <1>1, SumIsNoMatter
<1>6. ASSUME NEW v \in Users
      PROVE  (user[v].rewardDebt <= WomDebt(pool, user[v]))'
  BY <1>3, <1>5, OwedGrows
<1>7. ASSUME NEW v \in Users
      PROVE  \/ paid[v] + Owed(pool, user[v]) <= paid'[v] + Owed(pool', user'[v])
             \/ EmergencyWithdraw(v) /\ user'[v].pendingWom = user[v].pendingWom
  <2>1. paid[v] \in Nat /\ Owed(pool, user[v]) \in Nat /\ Owed(p, user[v]) \in Nat
          /\ Owed(pool, user[v]) <= Owed(p, user[v])
    BY <1>1, OwedGrows
  <2>2. CASE v # u
    BY <1>3, <1>5, <2>1, <2>2
  <2>3. CASE v = u /\ Owed(pool, user[u]) <= r + s.pendingWom
    <3>1. PICK d \in Nat : d = WomDebt(p, s)
      <4>1. /\ s.amount \in Nat /\ s.factor \in Nat
            /\ p.accWomPerShare \in Nat /\ p.accWomPerFactorShare \in Nat
        BY <1>1 DEF StakeType, PoolType
      <4>2. QED
        BY <4>1, DebtNat DEF WomDebt
    <3>2. Owed(pool', user'[u]) >= s.pendingWom /\ Owed(pool', user'[u]) \in Nat
      BY <1>3, <1>5, <3>1 DEF Owed, StakeType
    <3>3. s.pendingWom \in Nat /\ paid'[u] = paid[u] + r
      BY <1>3 DEF StakeType
    <3>4. QED
      BY <2>1, <2>3, <3>2, <3>3
  <2>4. CASE v = u /\ EmergencyWithdraw(u) /\ s.pendingWom = user[u].pendingWom
    BY <1>3, <2>4
  <2>5. QED
    BY <2>2, <2>3, <2>4
<1>8. QED
  BY <1>2, <1>4, <1>6, <1>7 DEF MInv, KeepsEarnings

\* MasterWombat's part of a step that only brings the pool up to date.
LEMMA PoolStep ==
  ASSUME WInv, now' = now, NEW p, Ahead(p), pool' = p, UNCHANGED <<user, paid>>,
         veBalance' \in [Users -> Nat], lpHeld' \in Nat, womHeld' \in Nat,
         settings' \in SettingsType
  PROVE  MInv' /\ KeepsEarnings
<1>1. user \in [Users -> StakeType] /\ paid \in [Users -> Nat] /\ InOrder(pool)'
  BY DEF WInv, MInv, Ahead, InOrder
<1>2. MInv'
  BY <1>1, OwedGrows DEF MInv
<1>3. QED
  BY <1>1, <1>2, OwedGrows DEF KeepsEarnings

\* The totals stay natural numbers: the subtractions are checked.
LEMMA TotalsFollowType ==
  ASSUME WInv, NEW p, Ahead(p), NEW u \in Users, NEW amount \in Nat, NEW factor \in Nat,
         TotalsFollow(p, u, amount, factor)
  PROVE  /\ \E k \in Nat : pool' = [p EXCEPT !.sumOfFactors = k]
         /\ lpHeld' \in Nat
<1>1. PICK a \in Nat, f \in Nat : a = user[u].amount /\ f = user[u].factor
  BY DEF WInv, MInv, StakeType
<1>2. PICK k \in Nat : k = p.sumOfFactors + factor - f
  BY <1>1 DEF TotalsFollow, Ahead, InOrder, PoolType
<1>3. pool' = [p EXCEPT !.sumOfFactors = k]
  BY <1>1, <1>2 DEF TotalsFollow
<1>4. QED
  BY <1>1, <1>3 DEF TotalsFollow, WInv, MInv

LEMMA PayWomType ==
  ASSUME WInv, NEW u \in Users, NEW r \in Nat, NEW w \in Nat, PayWom(u, r, w)
  PROVE  womHeld' \in Nat /\ paid' = [paid EXCEPT ![u] = @ + r]
BY DEF PayWom, WInv, MInv

\* Calls of the rewarder, with the totals of MasterWombat.
LEMMA TellRewarderKeeps ==
  ASSUME WInv, now' = now, NEW u \in Users, NEW amount \in Nat, NEW factor \in Nat,
         TellRewarder(u, amount, factor)
  PROVE  RInv' /\ KeepsRewards
<1>1. PICK sum \in Int, supply \in Int, base \in 0..TOTAL_PARTITION :
        sum = pool.sumOfFactors /\ supply = lpHeld /\ base = settings.basePartition
  BY DEF WInv, MInv, InOrder, PoolType, SettingsType
<1>2. CASE settings.boostedRewarder
  BY <1>1, <1>2, OnRewardKeeps DEF TellRewarder, WInv
<1>3. CASE ~settings.boostedRewarder
  BY <1>3, UnchangedKeeps DEF TellRewarder, WInv, rewarderVars, RInv
<1>4. QED
  BY <1>2, <1>3

LEMMA ClaimWomKeeps ==
  ASSUME WInv, now' = now, NEW u \in Users, NEW p, NEW w, ClaimWom(u, p, w)
  PROVE  RInv' /\ KeepsRewards
<1>1. user[u].amount \in Nat /\ user[u].factor \in Nat
  BY DEF WInv, MInv, StakeType
<1>2. CASE user[u].amount > 0
  BY <1>1, <1>2, TellRewarderKeeps DEF ClaimWom
<1>3. CASE ~(user[u].amount > 0)
  BY <1>3, UnchangedKeeps DEF ClaimWom, WInv, rewarderVars, RInv
<1>4. QED
  BY <1>2, <1>3
-----------------------------------------------------------------------------
LEMMA UpdateUserAmountKeeps ==
  ASSUME WInv, now' = now, NEW u \in Users, NEW amount \in Nat, NEW w \in Nat,
         UpdateUserAmount(u, amount, w), UNCHANGED <<veBalance, settings>>
  PROVE  WInv' /\ KeepsRewards /\ KeepsEarnings
<1>1. PICK p : p = UpdatedPool(w)
  OBVIOUS
<1>2. Ahead(p)
  BY <1>1, UpdatedPoolAhead
<1>3. PICK factor \in Nat : factor = Boost(amount, veBalance[u])
  BY BoostNat DEF WInv, MInv
<1>4. PICK r \in Nat : r = Owed(p, user[u])
  BY <1>2, OwedGrows
<1>5. PICK d \in Nat : d = Debt(amount, p.accWomPerShare, factor, p.accWomPerFactorShare)
  BY <1>2, DebtNat DEF Ahead, InOrder, PoolType
<1>6. PICK s \in StakeType : s = [amount |-> amount, factor |-> factor,
                                  rewardDebt |-> d, pendingWom |-> 0]
  BY DEF StakeType
<1>7. /\ user' = [user EXCEPT ![u] = s] /\ TellRewarder(u, amount, factor)
      /\ PayWom(u, r, w) /\ TotalsFollow(p, u, amount, factor)
  BY <1>1, <1>3, <1>4, <1>5, <1>6 DEF UpdateUserAmount
<1>8. PICK k \in Nat : pool' = [p EXCEPT !.sumOfFactors = k] /\ lpHeld' \in Nat
  BY <1>2, <1>7, TotalsFollowType
<1>9. womHeld' \in Nat /\ paid' = [paid EXCEPT ![u] = @ + r]
  BY <1>7, PayWomType
<1>10. veBalance' \in [Users -> Nat] /\ settings' \in SettingsType
  BY DEF WInv, MInv
<1>11. s.rewardDebt <= WomDebt(p, s)
  BY <1>5, <1>6 DEF WomDebt
<1>12. Owed(pool, user[u]) <= r + s.pendingWom
  BY <1>2, <1>4, <1>6, OwedGrows
<1>13. MInv' /\ KeepsEarnings
  BY <1>2, <1>7, <1>8, <1>9, <1>10, <1>11, <1>12, StakeStep
<1>14. RInv' /\ KeepsRewards
  BY <1>7, TellRewarderKeeps
<1>15. QED
  BY <1>13, <1>14 DEF WInv

LEMMA MultiClaimKeeps ==
  ASSUME WInv, NEW u \in Users, NEW w \in Nat, MultiClaim(u, w)
  PROVE  WInv' /\ KeepsRewards /\ KeepsEarnings
<1>1. PICK p : p = UpdatedPool(w)
  OBVIOUS
<1>2. Ahead(p) /\ user[u] \in StakeType
  BY <1>1, UpdatedPoolAhead DEF WInv, MInv
<1>3. /\ now' = now /\ pool' = p /\ ClaimWom(u, p, w)
      /\ UNCHANGED <<lpHeld, veBalance, settings>>
  BY <1>1 DEF MultiClaim
<1>4. RInv' /\ KeepsRewards
  BY <1>3, ClaimWomKeeps
<1>5. veBalance' \in [Users -> Nat] /\ lpHeld' \in Nat /\ settings' \in SettingsType
  BY <1>3 DEF WInv, MInv
<1>6. CASE user[u].amount > 0
  <2>1. PICK r \in Nat : r = Owed(p, user[u])
    BY <1>2, OwedGrows
  <2>2. womHeld' \in Nat /\ paid' = [paid EXCEPT ![u] = @ + r]
    BY <1>3, <1>6, <2>1, PayWomType DEF ClaimWom
  <2>3. PICK d \in Nat : d = WomDebt(p, user[u])
    BY <1>2, OwedGrows
  <2>4. PICK s \in StakeType : s = [amount |-> user[u].amount, factor |-> user[u].factor,
                                    rewardDebt |-> d, pendingWom |-> 0]
    BY <1>2 DEF StakeType
  <2>5. user' = [user EXCEPT ![u] = s]
    BY <1>1, <1>6, <2>3, <2>4 DEF MultiClaim
  <2>6. PICK k \in Nat : pool' = [p EXCEPT !.sumOfFactors = k]
    <3>1. p \in PoolType
      BY <1>2 DEF Ahead, InOrder
    <3>2. p.sumOfFactors \in Nat /\ p = [p EXCEPT !.sumOfFactors = p.sumOfFactors]
      BY <3>1 DEF PoolType
    <3>3. QED
      BY <1>3, <3>2
  <2>7. s.rewardDebt <= WomDebt(p, s)
    BY <2>3, <2>4 DEF WomDebt
  <2>8. Owed(pool, user[u]) <= r + s.pendingWom
    BY <1>2, <2>1, <2>4, OwedGrows
  <2>9. MInv' /\ KeepsEarnings
    BY <1>2, <1>3, <1>5, <2>2, <2>5, <2>6, <2>7, <2>8, StakeStep
  <2>10. QED
    BY <1>4, <2>9 DEF WInv
<1>7. CASE ~(user[u].amount > 0)
  <2>1. user' = user
    BY <1>7 DEF MultiClaim
  <2>2. PICK zero \in Nat : zero = 0
    OBVIOUS
  <2>3. womHeld' \in Nat /\ paid' = [paid EXCEPT ![u] = @ + zero]
    BY <1>3, <1>7, <2>2, PayWomType DEF ClaimWom
  <2>4. paid' = paid
    BY <2>2, <2>3 DEF WInv, MInv
  <2>5. MInv' /\ KeepsEarnings
    BY <1>2, <1>3, <1>5, <2>1, <2>3, <2>4, PoolStep
  <2>6. QED
    BY <1>4, <2>5 DEF WInv
<1>8. QED
  BY <1>6, <1>7

LEMMA MigrateKeeps ==
  ASSUME WInv, NEW u \in Users, NEW w \in Nat, Migrate(u, w)
  PROVE  WInv' /\ KeepsRewards /\ KeepsEarnings
<1>1. PICK p : p = UpdatedPool(w)
  OBVIOUS
<1>2. Ahead(p)
  BY <1>1, UpdatedPoolAhead
<1>3. PICK r \in Nat : r = Owed(p, user[u])
  BY <1>2, OwedGrows
<1>4. PICK zero \in Nat : zero = 0
  OBVIOUS
<1>5. /\ now' = now /\ ClaimWom(u, p, w) /\ PayWom(u, r, w)
      /\ TotalsFollow(p, u, zero, zero)
      /\ user' = [user EXCEPT ![u] = NoStake]
      /\ UNCHANGED <<veBalance, settings>>
  BY <1>1, <1>3, <1>4 DEF Migrate, ClaimWom
<1>6. RInv' /\ KeepsRewards
  BY <1>5, ClaimWomKeeps
<1>7. PICK k \in Nat : pool' = [p EXCEPT !.sumOfFactors = k] /\ lpHeld' \in Nat
  BY <1>2, <1>5, TotalsFollowType
<1>8. womHeld' \in Nat /\ paid' = [paid EXCEPT ![u] = @ + r]
  BY <1>5, PayWomType
<1>9. veBalance' \in [Users -> Nat] /\ settings' \in SettingsType
  BY <1>5 DEF WInv, MInv
<1>10. PICK s \in StakeType : s = NoStake /\ s.pendingWom = 0
  <2>1. NoStake \in StakeType /\ NoStake.pendingWom = 0
    BY DEF StakeType, NoStake
  <2>2. QED
    BY <2>1
<1>11. s.rewardDebt <= WomDebt(p, s)
  <2>1. Debt(0, p.accWomPerShare, 0, p.accWomPerFactorShare) \in Nat
    BY <1>2, DebtNat DEF Ahead, InOrder, PoolType
  <2>2. QED
    BY <1>10, <2>1 DEF WomDebt, NoStake
<1>12. Owed(pool, user[u]) <= r + s.pendingWom
  BY <1>2, <1>3, <1>10, OwedGrows
<1>13. MInv' /\ KeepsEarnings
  BY <1>2, <1>5, <1>7, <1>8, <1>9, <1>10, <1>11, <1>12, StakeStep
<1>14. QED
  BY <1>6, <1>13 DEF WInv

LEMMA StakerEmergencyWithdrawKeeps ==
  ASSUME WInv, NEW u \in Users, EmergencyWithdraw(u)
  PROVE  WInv' /\ KeepsRewards /\ KeepsEarnings
<1>1. PICK p : p = pool
  OBVIOUS
<1>2. Ahead(p)
  BY <1>1, PoolAhead
<1>3. PICK zero \in Nat : zero = 0
  OBVIOUS
<1>4. PICK s \in StakeType : s = [amount |-> 0, factor |-> 0, rewardDebt |-> 0,
                                  pendingWom |-> user[u].pendingWom]
  BY DEF WInv, MInv, StakeType
<1>5. /\ now' = now /\ TellRewarder(u, zero, zero)
      /\ TotalsFollow(p, u, zero, zero)
      /\ user' = [user EXCEPT ![u] = s]
      /\ UNCHANGED <<veBalance, settings, womHeld, paid>>
  BY <1>1, <1>3, <1>4 DEF EmergencyWithdraw
<1>6. RInv' /\ KeepsRewards
  BY <1>5, TellRewarderKeeps
<1>7. PICK k \in Nat : pool' = [p EXCEPT !.sumOfFactors = k] /\ lpHeld' \in Nat
  BY <1>2, <1>5, TotalsFollowType
<1>8. paid' = [paid EXCEPT ![u] = @ + zero] /\ womHeld' \in Nat
  BY <1>3, <1>5 DEF WInv, MInv
<1>9. veBalance' \in [Users -> Nat] /\ settings' \in SettingsType
  BY <1>5 DEF WInv, MInv
<1>10. s.rewardDebt <= WomDebt(p, s)
  <2>1. Debt(0, p.accWomPerShare, 0, p.accWomPerFactorShare) \in Nat
    BY <1>2, DebtNat DEF Ahead, InOrder, PoolType
  <2>2. QED
    BY <1>4, <2>1 DEF WomDebt
<1>11. EmergencyWithdraw(u) /\ s.pendingWom = user[u].pendingWom
  BY <1>4
<1>12. MInv' /\ KeepsEarnings
  BY <1>2, <1>5, <1>7, <1>8, <1>9, <1>10, <1>11, StakeStep
<1>13. QED
  BY <1>6, <1>12 DEF WInv

LEMMA UpdateFactorKeeps ==
  ASSUME WInv, NEW u \in Users, NEW b \in Nat, NEW w \in Nat, UpdateFactor(u, b, w)
  PROVE  WInv' /\ KeepsRewards /\ KeepsEarnings
<1>1. PICK p : p = UpdatedPool(w)
  OBVIOUS
<1>2. Ahead(p)
  BY <1>1, UpdatedPoolAhead
<1>3. PICK a \in Nat : a = user[u].amount
  BY DEF WInv, MInv, StakeType
<1>4. PICK factor \in Nat : factor = Boost(a, b)
  BY BoostNat
<1>5. /\ now' = now /\ settings' = settings
      /\ veBalance' = [veBalance EXCEPT ![u] = b]
  BY DEF UpdateFactor
<1>6. veBalance' \in [Users -> Nat] /\ settings' \in SettingsType
  BY <1>5 DEF WInv, MInv
<1>7. CASE a = 0
  <2>1. /\ UNCHANGED <<pool, user, lpHeld, womHeld, paid>>
        /\ UNCHANGED <<info, share, tokens, claimedBy, sent>>
    BY <1>3, <1>7 DEF UpdateFactor, poolVars, rewarderVars
  <2>2. RInv' /\ KeepsRewards
    BY <1>5, <2>1, UnchangedKeeps DEF WInv, RInv
  <2>3. lpHeld' \in Nat /\ womHeld' \in Nat
    BY <2>1 DEF WInv, MInv
  <2>4. MInv' /\ KeepsEarnings
    BY <1>5, <1>6, <2>1, <2>3, PoolAhead, PoolStep
  <2>5. QED
    BY <2>2, <2>4 DEF WInv
<1>8. CASE a # 0
  <2>1. PICK d \in Nat : d = Debt(a, p.accWomPerShare, factor, p.accWomPerFactorShare)
    BY <1>2, DebtNat DEF Ahead, InOrder, PoolType
  <2>2. PICK owed \in Nat : owed = Owed(p, user[u])
    BY <1>2, OwedGrows
  <2>3. PICK s \in StakeType : s = [amount |-> a, factor |-> factor,
                                    rewardDebt |-> d, pendingWom |-> owed]
    BY DEF StakeType
  <2>4. /\ user' = [user EXCEPT ![u] = s]
        /\ IF settings.boostedRewarder
           THEN OnUpdateFactor(u, factor, lpHeld, pool.sumOfFactors, settings.basePartition)
           ELSE UNCHANGED rewarderVars
        /\ TotalsFollow(p, u, a, factor)
        /\ womHeld' = womHeld + w
        /\ UNCHANGED paid
    BY <1>1, <1>3, <1>4, <1>8, <2>1, <2>2, <2>3 DEF UpdateFactor
  <2>5. PICK sum \in Int, supply \in Int, base \in 0..TOTAL_PARTITION :
          sum = pool.sumOfFactors /\ supply = lpHeld /\ base = settings.basePartition
    BY DEF WInv, MInv, InOrder, PoolType, SettingsType
  <2>6. RInv' /\ KeepsRewards
    <3>1. CASE settings.boostedRewarder
      BY <1>5, <2>4, <2>5, <3>1, OnUpdateFactorKeeps DEF WInv
    <3>2. CASE ~settings.boostedRewarder
      BY <1>5, <2>4, <3>2, UnchangedKeeps DEF WInv, RInv, rewarderVars
    <3>3. QED
      BY <3>1, <3>2
  <2>7. PICK k \in Nat : pool' = [p EXCEPT !.sumOfFactors = k] /\ lpHeld' \in Nat
    BY <1>2, <2>4, TotalsFollowType
  <2>8. PICK zero \in Nat : zero = 0
    OBVIOUS
  <2>9. paid' = [paid EXCEPT ![u] = @ + zero] /\ womHeld' \in Nat
    BY <2>4, <2>8 DEF WInv, MInv
  <2>10. s.rewardDebt <= WomDebt(p, s)
    BY <2>1, <2>3 DEF WomDebt
  <2>11. Owed(pool, user[u]) <= zero + s.pendingWom
    BY <1>2, <2>2, <2>3, <2>8, OwedGrows
  <2>12. MInv' /\ KeepsEarnings
    BY <1>2, <1>5, <1>6, <2>4, <2>7, <2>9, <2>10, <2>11, StakeStep
  <2>13. QED
    BY <2>6, <2>12 DEF WInv
<1>9. QED
  BY <1>7, <1>8
-----------------------------------------------------------------------------
LEMMA StakerStepKeeps ==
  ASSUME WInv, NEW w \in Nat, StakerStep(w)
  PROVE  WInv' /\ KeepsRewards /\ KeepsEarnings
<1>1. PICK u \in Users :
        \/ \E n \in Stakes : Deposit(u, n, w) \/ Withdraw(u, n, w)
        \/ Harvest(u, w)
        \/ MultiClaim(u, w)
        \/ Migrate(u, w)
        \/ \E b \in VeBalances : UpdateFactor(u, b, w)
  BY DEF StakerStep
<1>2. PICK a \in Nat : a = user[u].amount
  BY DEF WInv, MInv, StakeType
<1>3. ASSUME NEW n \in Stakes, Deposit(u, n, w)
      PROVE  WInv' /\ KeepsRewards /\ KeepsEarnings
  <2>1. PICK amount \in Nat : amount = a + n
    BY MasterWombatAssumption
  <2>2. /\ now' = now /\ UpdateUserAmount(u, amount, w)
        /\ UNCHANGED <<veBalance, settings>>
    BY <1>2, <1>3, <2>1 DEF Deposit
  <2>3. QED
    BY <2>2, UpdateUserAmountKeeps
<1>4. ASSUME NEW n \in Stakes, Withdraw(u, n, w)
      PROVE  WInv' /\ KeepsRewards /\ KeepsEarnings
  <2>1. PICK amount \in Nat : amount = a - n
    BY <1>2, <1>4, MasterWombatAssumption DEF Withdraw
  <2>2. /\ now' = now /\ UpdateUserAmount(u, amount, w)
        /\ UNCHANGED <<veBalance, settings>>
    BY <1>2, <1>4, <2>1 DEF Withdraw
  <2>3. QED
    BY <2>2, UpdateUserAmountKeeps
<1>5. CASE Harvest(u, w)
  <2>1. /\ now' = now /\ UpdateUserAmount(u, a, w)
        /\ UNCHANGED <<veBalance, settings>>
    BY <1>2, <1>5 DEF Harvest
  <2>2. QED
    BY <2>1, UpdateUserAmountKeeps
<1>6. CASE MultiClaim(u, w)
  BY <1>6, MultiClaimKeeps
<1>7. CASE Migrate(u, w)
  BY <1>7, MigrateKeeps
<1>8. ASSUME NEW b \in VeBalances, UpdateFactor(u, b, w)
      PROVE  WInv' /\ KeepsRewards /\ KeepsEarnings
  <2>1. b \in Nat
    BY MasterWombatAssumption
  <2>2. QED
    BY <1>8, <2>1, UpdateFactorKeeps
<1>9. QED
  BY <1>1, <1>3, <1>4, <1>5, <1>6, <1>7, <1>8

\* A step of MasterWombat that changes neither the stakes nor the rewarder.
LEMMA QuietStepKeeps ==
  ASSUME WInv, now' = now, UNCHANGED <<rewarderVars, user, lpHeld, paid, veBalance>>,
         NEW p, Ahead(p), pool' = p, womHeld' \in Nat, settings' \in SettingsType
  PROVE  WInv' /\ KeepsRewards /\ KeepsEarnings
<1>1. RInv' /\ KeepsRewards
  BY UnchangedKeeps DEF WInv, RInv, rewarderVars
<1>2. veBalance' \in [Users -> Nat] /\ lpHeld' \in Nat
  BY DEF WInv, MInv
<1>3. MInv' /\ KeepsEarnings
  BY <1>2, PoolStep
<1>4. QED
  BY <1>1, <1>3 DEF WInv

LEMMA UpdatePoolKeeps ==
  ASSUME WInv, NEW w \in Nat, UpdatePool(w)
  PROVE  WInv' /\ KeepsRewards /\ KeepsEarnings
<1>1. PICK p : p = UpdatedPool(w)
  OBVIOUS
<1>2. /\ now' = now /\ pool' = p
      /\ UNCHANGED <<rewarderVars, user, lpHeld, paid, veBalance, settings>>
  BY <1>1 DEF UpdatePool
<1>3. Ahead(p) /\ womHeld' \in Nat /\ settings' \in SettingsType
  BY <1>1, <1>2, UpdatedPoolAhead DEF UpdatePool, WInv, MInv
<1>4. QED
  BY <1>2, <1>3, QuietStepKeeps

LEMMA UpdateEmissionPartitionKeeps ==
  ASSUME WInv, NEW b \in BasePartitions, NEW w \in Nat, UpdateEmissionPartition(b, w)
  PROVE  WInv' /\ KeepsRewards /\ KeepsEarnings
<1>1. PICK p : p = UpdatedPool(w)
  OBVIOUS
<1>2. /\ now' = now /\ pool' = p
      /\ UNCHANGED <<rewarderVars, user, lpHeld, paid, veBalance>>
  BY <1>1 DEF UpdateEmissionPartition
<1>3. Ahead(p) /\ womHeld' \in Nat
  BY <1>1, UpdatedPoolAhead DEF UpdateEmissionPartition, WInv, MInv
<1>4. settings' \in SettingsType
  BY MasterWombatAssumption DEF UpdateEmissionPartition, WInv, MInv, SettingsType
<1>5. QED
  BY <1>2, <1>3, <1>4, QuietStepKeeps

LEMMA SamePoolKeeps ==
  ASSUME WInv, UNCHANGED <<pool, user, paid>>
  PROVE  KeepsEarnings
<1>1. \A u \in Users : paid[u] \in Nat /\ Owed(pool, user[u]) \in Nat
  BY PoolAhead, OwedGrows DEF WInv, MInv
<1>2. QED
  BY <1>1 DEF KeepsEarnings

LEMMA OwnerStepKeeps ==
  ASSUME WInv,
         \/ \E name \in {"paused", "voter", "newMasterWombat"} : Switch(name)
         \/ SetBoostedRewarder
         \/ EmergencyWomWithdraw
  PROVE  WInv' /\ KeepsRewards /\ KeepsEarnings
<1>1. PICK p : p = pool
  OBVIOUS
<1>2. Ahead(p)
  BY <1>1, PoolAhead
<1>3. /\ now' = now /\ pool' = p
      /\ UNCHANGED <<rewarderVars, user, lpHeld, paid, veBalance>>
      /\ womHeld' \in {0, womHeld}
  BY <1>1 DEF Switch, SetBoostedRewarder, EmergencyWomWithdraw, poolVars
<1>4. settings \in SettingsType
  BY DEF WInv, MInv
<1>5. settings' \in SettingsType
  <2>1. CASE \E name \in {"paused", "voter", "newMasterWombat"} : Switch(name)
    BY <1>4, <2>1 DEF Switch, SettingsType
  <2>2. CASE SetBoostedRewarder
    BY <1>4, <2>2 DEF SetBoostedRewarder, SettingsType
  <2>3. CASE EmergencyWomWithdraw
    BY <1>4, <2>3 DEF EmergencyWomWithdraw
  <2>4. QED
    BY <2>1, <2>2, <2>3
<1>6. womHeld' \in Nat
  BY <1>3 DEF WInv, MInv
<1>7. QED
  BY <1>2, <1>3, <1>5, <1>6, QuietStepKeeps

LEMMA ElapseKeeps ==
  ASSUME WInv, Elapse
  PROVE  WInv' /\ KeepsRewards /\ KeepsEarnings
<1>1. /\ now' = now + 1 /\ now \in Nat
      /\ UNCHANGED <<rewarderVars, poolVars, veBalance, settings>>
  BY DEF Elapse, WInv, RInv
<1>2. RInv' /\ KeepsRewards
  BY <1>1, UnchangedKeeps DEF WInv, rewarderVars
<1>3. InOrder(pool)'
  BY <1>1, MasterWombatAssumption DEF WInv, MInv, InOrder, PoolType, poolVars
<1>4. MInv'
  BY <1>1, <1>3 DEF WInv, MInv, WomDebt, poolVars
<1>5. KeepsEarnings
  BY <1>1, SamePoolKeeps DEF poolVars
<1>6. QED
  BY <1>2, <1>4, <1>5 DEF WInv

LEMMA RewarderStepKeeps ==
  ASSUME WInv, RewarderStep
  PROVE  WInv' /\ KeepsRewards /\ KeepsEarnings
<1>1. PICK sum \in Int, supply \in Int, base \in 0..TOTAL_PARTITION :
        sum = pool.sumOfFactors /\ supply = lpHeld /\ base = settings.basePartition
  BY DEF WInv, MInv, InOrder, PoolType, SettingsType
<1>2. now' = now /\ UNCHANGED <<poolVars, veBalance, settings>>
  BY DEF RewarderStep
<1>3. /\ RInv
      /\ \A n \in Refills : n \in Nat
      /\ \A r \in TokenRates : r \in Nat
      /\ \A t \in StartTimes : t \in Nat
  BY RewarderAssumption DEF WInv
<1>4. PICK zero \in Nat : zero = 0
  OBVIOUS
<1>5. \/ UpdateReward(supply, sum, base)
      \/ \E n \in Refills : Refill(n)
      \/ \E u \in Users : OnReward(u, zero, zero, supply, sum, base)
      \/ \E r \in TokenRates, t \in StartTimes : SetRewardRate(r, t, supply, sum, base)
      \/ \E r \in TokenRates, t \in StartTimes : AddRewardToken(r, t)
      \/ SetIsDeprecated
      \/ RewarderEmergencyWithdraw
      \/ EmergencyTokenWithdraw
  BY <1>1, <1>4 DEF RewarderStep, EmergencyClaimReward
<1>6. RInv' /\ KeepsRewards
  <2>1. CASE UpdateReward(supply, sum, base)
    BY <1>2, <1>3, <2>1, UpdateRewardKeeps
  <2>2. CASE \E n \in Refills : Refill(n)
    BY <1>2, <1>3, <2>2, RefillKeeps
  <2>3. CASE \E u \in Users : OnReward(u, zero, zero, supply, sum, base)
    BY <1>2, <1>3, <2>3, OnRewardKeeps
  <2>4. CASE \E r \in TokenRates, t \in StartTimes : SetRewardRate(r, t, supply, sum, base)
    BY <1>2, <1>3, <2>4, SetRewardRateKeeps
  <2>5. CASE \E r \in TokenRates, t \in StartTimes : AddRewardToken(r, t)
    BY <1>2, <1>3, <2>5, AddRewardTokenKeeps
  <2>6. CASE SetIsDeprecated
    BY <1>2, <1>3, <2>6, UnchangedKeeps DEF SetIsDeprecated, RInv
  <2>7. CASE RewarderEmergencyWithdraw
    BY <1>2, <1>3, <2>7, EmergencyWithdrawKeeps
  <2>8. CASE EmergencyTokenWithdraw
    BY <1>2, <1>3, <2>8, TokenWithdrawKeeps
  <2>9. QED
    BY <1>5, <2>1, <2>2, <2>3, <2>4, <2>5, <2>6, <2>7, <2>8
<1>7. MInv'
  BY <1>2 DEF WInv, MInv, InOrder, WomDebt, poolVars
<1>8. KeepsEarnings
  BY <1>2, SamePoolKeeps DEF poolVars
<1>9. QED
  BY <1>6, <1>7, <1>8 DEF WInv

LEMMA StepKeeps ==
  ASSUME WInv, [Next]_vars
  PROVE  WInv' /\ [KeepsRewards /\ KeepsEarnings]_vars
<1>1. ASSUME NEW w \in {0} \cup Payments,
             \/ StakerStep(w)
             \/ UpdatePool(w)
             \/ \E b \in BasePartitions : UpdateEmissionPartition(b, w)
      PROVE  WInv' /\ KeepsRewards /\ KeepsEarnings
  <2>1. w \in Nat
    BY MasterWombatAssumption
  <2>2. QED
    BY <1>1, <2>1, StakerStepKeeps, UpdatePoolKeeps, UpdateEmissionPartitionKeeps
<1>2. ASSUME NEW u \in Users, EmergencyWithdraw(u)
      PROVE  WInv' /\ KeepsRewards /\ KeepsEarnings
  BY <1>2, StakerEmergencyWithdrawKeeps
<1>3. CASE \/ \E name \in {"paused", "voter", "newMasterWombat"} : Switch(name)
           \/ SetBoostedRewarder
           \/ EmergencyWomWithdraw
  BY <1>3, OwnerStepKeeps
<1>4. CASE RewarderStep
  BY <1>4, RewarderStepKeeps
<1>5. CASE Elapse
  BY <1>5, ElapseKeeps
<1>6. CASE UNCHANGED vars
  <2>1. RInv'
    BY <1>6, UnchangedKeeps DEF WInv, RInv, vars, rewarderVars
  <2>2. MInv'
    BY <1>6 DEF WInv, MInv, InOrder, WomDebt, vars, poolVars
  <2>3. QED
    BY <1>6, <2>1, <2>2 DEF WInv
<1>7. QED
  BY <1>1, <1>2, <1>3, <1>4, <1>5, <1>6 DEF Next

THEOREM WombatInvariant == Spec => []WInv
<1>1. Init => WInv
  BY MInit
<1>2. WInv /\ [Next]_vars => WInv'
  BY StepKeeps
<1>3. QED
  BY <1>1, <1>2, PTL DEF Spec

\* The state stays well typed: the checked subtractions and the payments
\* never take a total below zero (BoostedMasterWombat.sol:510).
THEOREM TypeCorrect == Spec => []TypeOK
<1>1. WInv => TypeOK
  BY DEF WInv, RInv, MInv, InOrder, PoolType, StakeType, InfoType, ShareType, TypeOK
<1>2. QED
  BY <1>1, WombatInvariant, PTL

\* The timestamps of a pool stay in order (calRewardPerUnit,
\* BoostedMasterWombat.sol:689, subtracts them), whenever the Voter pays.
THEOREM PeriodStaysInOrder == Spec => []PeriodInOrder
<1>1. WInv => PeriodInOrder
  BY InOrderIsPeriodInOrder
<1>2. QED
  BY <1>1, WombatInvariant, PTL

\* No transaction on MasterWombat, on veWOM or on the rewarder costs a user
\* reward tokens already earned (BoostedMultiRewarder.sol:356).
THEOREM RewardsAreKept == Spec => RewardsKept
<1>1. WInv /\ [Next]_vars => [KeepsRewards]_vars
  BY StepKeeps
<1>2. QED
  BY <1>1, WombatInvariant, PTL DEF Spec, RewardsKept

\* No transaction on MasterWombat or on veWOM costs a user WOM already earned,
\* but the user's own emergencyWithdraw (BoostedMasterWombat.sol:515).
THEOREM EarningsAreKept == Spec => EarningsKept
<1>1. WInv /\ [Next]_vars => [KeepsEarnings]_vars
  BY StepKeeps
<1>2. QED
  BY <1>1, WombatInvariant, PTL DEF Spec, EarningsKept, KeepsEarnings
-----------------------------------------------------------------------------
(* The rewarder's copies of the stakes *)

\* While no rewarder is attached and none ever missed a change, it knows of
\* no stake.
Detached ==
  ~settings.boostedRewarder => \A u \in Users : share[u].amount = 0 /\ share[u].factor = 0

SyncInv == ~astray => SharesInSync /\ Detached

\* One user gets the stake s, of which the rewarder is told.
LEMMA TellRewarderInSync ==
  ASSUME WInv, SharesInSync, Detached, ~astray, UNCHANGED settings,
         NEW u \in Users, NEW s \in StakeType, user' = [user EXCEPT ![u] = s],
         TellRewarder(u, s.amount, s.factor)
  PROVE  SharesInSync' /\ Detached'
<1>1. user \in [Users -> StakeType] /\ share \in [Users -> ShareType]
  BY DEF WInv, RInv, MInv
<1>2. CASE settings.boostedRewarder
  <2>1. PICK t : /\ share' = [share EXCEPT ![u] = t]
                 /\ t.amount = s.amount /\ t.factor = s.factor
    BY <1>2 DEF TellRewarder, OnReward
  <2>2. QED
    BY <1>1, <1>2, <2>1 DEF SharesInSync, Detached
<1>3. CASE ~settings.boostedRewarder
  <2>1. share' = share
    BY <1>3 DEF TellRewarder, rewarderVars
  <2>2. \A v \in Users : share[v].amount = 0 /\ share[v].factor = 0
    BY <1>3 DEF Detached
  <2>3. QED
    BY <2>1, <2>2 DEF SharesInSync, Detached
<1>4. QED
  BY <1>2, <1>3

\* Nothing of the stakes and their copies changes.
LEMMA SameSharesInSync ==
  ASSUME SyncInv, UNCHANGED <<share, user, settings, astray>>
  PROVE  SyncInv'
BY DEF SyncInv, SharesInSync, Detached

LEMMA UpdateUserAmountSync ==
  ASSUME WInv, SyncInv, NEW u \in Users, NEW amount \in Nat, NEW w \in Nat,
         UpdateUserAmount(u, amount, w), UNCHANGED <<veBalance, settings, astray>>
  PROVE  SyncInv'
<1> SUFFICES ASSUME ~astray PROVE SharesInSync' /\ Detached'
  BY DEF SyncInv
<1>1. PICK p : p = UpdatedPool(w)
  OBVIOUS
<1>2. PICK factor \in Nat : factor = Boost(amount, veBalance[u])
  BY BoostNat DEF WInv, MInv
<1>3. PICK d \in Nat : d = Debt(amount, p.accWomPerShare, factor, p.accWomPerFactorShare)
  BY <1>1, UpdatedPoolAhead, DebtNat DEF Ahead, InOrder, PoolType
<1>4. PICK s \in StakeType : s = [amount |-> amount, factor |-> factor,
                                 rewardDebt |-> d, pendingWom |-> 0]
  BY DEF StakeType
<1>5. user' = [user EXCEPT ![u] = s] /\ TellRewarder(u, s.amount, s.factor)
  BY <1>1, <1>2, <1>3, <1>4 DEF UpdateUserAmount
<1>6. QED
  BY <1>5, TellRewarderInSync DEF SyncInv

LEMMA MultiClaimSync ==
  ASSUME WInv, SyncInv, NEW u \in Users, NEW w \in Nat, MultiClaim(u, w)
  PROVE  SyncInv'
<1>1. PICK p : p = UpdatedPool(w)
  OBVIOUS
<1>2. ClaimWom(u, p, w) /\ UNCHANGED <<settings, astray>> /\ user[u] \in StakeType
  BY <1>1 DEF MultiClaim, WInv, MInv
<1>3. CASE user[u].amount > 0
  <2>1. PICK d \in Nat : d = WomDebt(p, user[u])
    BY <1>1, UpdatedPoolAhead, OwedGrows
  <2>2. PICK s \in StakeType : s = [amount |-> user[u].amount, factor |-> user[u].factor,
                                   rewardDebt |-> d, pendingWom |-> 0]
    BY <1>2 DEF StakeType
  <2>3. user' = [user EXCEPT ![u] = s] /\ TellRewarder(u, s.amount, s.factor)
    BY <1>1, <1>2, <1>3, <2>1, <2>2 DEF MultiClaim, ClaimWom
  <2>4. QED
    BY <1>2, <2>3, TellRewarderInSync DEF SyncInv
<1>4. CASE ~(user[u].amount > 0)
  <2>1. user' = user /\ share' = share
    BY <1>2, <1>4 DEF MultiClaim, ClaimWom, rewarderVars
  <2>2. QED
    BY <1>2, <2>1, SameSharesInSync
<1>5. QED
  BY <1>3, <1>4

LEMMA MigrateSync ==
  ASSUME WInv, SyncInv, NEW u \in Users, NEW w \in Nat, Migrate(u, w)
  PROVE  SyncInv'
<1> SUFFICES ASSUME ~astray' PROVE SharesInSync' /\ Detached'
  BY DEF SyncInv
<1>1. ~astray /\ ~settings.boostedRewarder
  BY DEF Migrate
<1>2. settings' = settings
  BY DEF Migrate
<1>3. PICK p : p = UpdatedPool(w)
  OBVIOUS
<1>4. ClaimWom(u, p, w)
  BY <1>3 DEF Migrate
<1>5. share' = share
  BY <1>1, <1>4 DEF ClaimWom, TellRewarder, rewarderVars
<1>6. \A v \in Users : share[v].amount = 0 /\ share[v].factor = 0
  BY <1>1 DEF SyncInv, Detached
<1>7. QED
  BY <1>2, <1>5, <1>6 DEF SharesInSync, Detached

LEMMA EmergencyWithdrawSync ==
  ASSUME WInv, SyncInv, NEW u \in Users, EmergencyWithdraw(u)
  PROVE  SyncInv'
<1> SUFFICES ASSUME ~astray PROVE SharesInSync' /\ Detached'
  BY DEF SyncInv, EmergencyWithdraw
<1>1. PICK s \in StakeType : s = [amount |-> 0, factor |-> 0, rewardDebt |-> 0,
                                 pendingWom |-> user[u].pendingWom]
  BY DEF WInv, MInv, StakeType
<1>2. /\ user' = [user EXCEPT ![u] = s] /\ TellRewarder(u, s.amount, s.factor)
      /\ UNCHANGED settings
  BY <1>1 DEF EmergencyWithdraw
<1>3. QED
  BY <1>2, TellRewarderInSync DEF SyncInv

LEMMA UpdateFactorSync ==
  ASSUME WInv, SyncInv, NEW u \in Users, NEW b \in Nat, NEW w \in Nat, UpdateFactor(u, b, w)
  PROVE  SyncInv'
<1>1. user \in [Users -> StakeType] /\ share \in [Users -> ShareType] /\ settings' = settings
  BY DEF WInv, RInv, MInv, UpdateFactor
<1>2. CASE user[u].amount = 0
  <2>1. UNCHANGED <<share, user, settings, astray>>
    BY <1>1, <1>2 DEF UpdateFactor, poolVars, rewarderVars
  <2>2. QED
    BY <2>1, SameSharesInSync
<1>3. CASE user[u].amount # 0
  <2> SUFFICES ASSUME ~astray' PROVE SharesInSync' /\ Detached'
    BY DEF SyncInv
  <2>1. PICK factor : factor = Boost(user[u].amount, b)
    OBVIOUS
  <2>2. ~astray /\ ~(/\ settings.boostedRewarder
                     /\ settings.basePartition = TOTAL_PARTITION
                     /\ factor # user[u].factor)
    BY <1>3, <2>1 DEF UpdateFactor
  <2>3. SharesInSync /\ Detached
    BY <2>2 DEF SyncInv
  <2>4. PICK s : user' = [user EXCEPT ![u] = s] /\ s.amount = user[u].amount /\ s.factor = factor
    <3>1. PICK p : p = UpdatedPool(w)
      OBVIOUS
    <3>2. PICK s : s = [amount |-> user[u].amount, factor |-> factor,
                        rewardDebt |-> Debt(user[u].amount, p.accWomPerShare,
                                            factor, p.accWomPerFactorShare),
                        pendingWom |-> Owed(p, user[u])]
      OBVIOUS
    <3>3. user' = [user EXCEPT ![u] = s]
      BY <1>3, <2>1, <3>1, <3>2 DEF UpdateFactor
    <3>4. s.amount = user[u].amount /\ s.factor = factor
      BY <3>2
    <3>5. QED
      BY <3>3, <3>4
  <2>5. IF settings.boostedRewarder
        THEN OnUpdateFactor(u, factor, lpHeld, pool.sumOfFactors, settings.basePartition)
        ELSE UNCHANGED rewarderVars
    BY <1>3, <2>1 DEF UpdateFactor
  <2>6. CASE ~settings.boostedRewarder
    <3>1. share' = share /\ \A v \in Users : share[v].amount = 0 /\ share[v].factor = 0
      BY <2>3, <2>5, <2>6 DEF rewarderVars, Detached
    <3>2. QED
      BY <1>1, <3>1 DEF SharesInSync, Detached
  <2>7. CASE settings.boostedRewarder /\ settings.basePartition = TOTAL_PARTITION
    <3>1. share' = share /\ factor = user[u].factor
      BY <2>2, <2>5, <2>7 DEF OnUpdateFactor, rewarderVars
    <3>2. \A v \in Users : user'[v].amount = user[v].amount /\ user'[v].factor = user[v].factor
      BY <1>1, <2>4, <3>1
    <3>3. QED
      BY <1>1, <2>2, <2>3, <2>7, <3>1, <3>2 DEF SharesInSync, Detached
  <2>8. CASE settings.boostedRewarder /\ settings.basePartition # TOTAL_PARTITION
    <3>1. PICK t : /\ share' = [share EXCEPT ![u] = t]
                   /\ t.amount = share[u].amount /\ t.factor = factor
      <4>1. PICK i : i = UpdatedInfo(lpHeld, pool.sumOfFactors, settings.basePartition)
        OBVIOUS
      <4>2. PICK e : e = IF share[u].debt > 0
                         THEN Debt(share[u].amount, i.acc, share[u].factor, i.accFactor)
                                - share[u].debt
                         ELSE 0
        OBVIOUS
      <4>3. PICK t : t = [amount |-> share[u].amount, factor |-> factor,
                          debt |-> Debt(share[u].amount, i.acc, factor, i.accFactor),
                          unpaid |-> share[u].unpaid + e]
        OBVIOUS
      <4>4. share' = [share EXCEPT ![u] = t]
        BY <2>5, <2>8, <4>1, <4>2, <4>3 DEF OnUpdateFactor
      <4>5. t.amount = share[u].amount /\ t.factor = factor
        BY <4>3
      <4>6. QED
        BY <4>4, <4>5
    <3>2. \A v \in Users : /\ share[v].amount \in {0, user[v].amount}
                           /\ share[v].factor \in {0, user[v].factor}
      BY <2>2, <2>3 DEF SharesInSync
    <3>3. \A v \in Users : /\ share'[v].amount \in {0, user'[v].amount}
                           /\ share'[v].factor \in {0, user'[v].factor}
      BY <1>1, <2>4, <3>1, <3>2
    <3>4. QED
      BY <1>1, <2>8, <3>3 DEF SharesInSync, Detached
  <2>9. QED
    BY <2>6, <2>7, <2>8
<1>4. QED
  BY <1>2, <1>3

LEMMA SetBoostedRewarderSync ==
  ASSUME WInv, SyncInv, SetBoostedRewarder
  PROVE  SyncInv'
<1> SUFFICES ASSUME ~astray' PROVE SharesInSync' /\ Detached'
  BY DEF SyncInv
<1>1. ~astray /\ ~settings.boostedRewarder
  BY DEF SetBoostedRewarder
<1>2. UNCHANGED <<share, user>>
  BY DEF SetBoostedRewarder, rewarderVars, poolVars
<1>3. \A u \in Users : share[u].amount = 0 /\ share[u].factor = 0
  BY <1>1 DEF SyncInv, Detached
<1>4. QED
  BY <1>2, <1>3 DEF SharesInSync, Detached

\* Whatever happens on the rewarder alone, a copy stays or is forgotten.
LEMMA RewarderStepSync ==
  ASSUME WInv, SyncInv, RewarderStep
  PROVE  SyncInv'
<1>1. share \in [Users -> ShareType] /\ UNCHANGED <<user, settings, astray>>
  BY DEF WInv, RInv, RewarderStep, poolVars
<1>2. \A u \in Users : \/ share'[u].amount = 0 /\ share'[u].factor = 0
                       \/ share'[u].amount = share[u].amount /\ share'[u].factor = share[u].factor
  <2>1. CASE share' = share
    BY <2>1
  <2>2. ASSUME NEW u \in Users, EmergencyClaimReward(u, lpHeld, pool.sumOfFactors,
                                                     settings.basePartition)
        PROVE  \A v \in Users :
                 \/ share'[v].amount = 0 /\ share'[v].factor = 0
                 \/ share'[v].amount = share[v].amount /\ share'[v].factor = share[v].factor
    <3>1. PICK i : i = UpdatedInfo(lpHeld, pool.sumOfFactors, settings.basePartition)
      OBVIOUS
    <3>2. PICK t : t = [amount |-> 0, factor |-> 0, debt |-> Debt(0, i.acc, 0, i.accFactor),
                        unpaid |-> Unpaid(PendingReward(i, share[u]))]
      OBVIOUS
    <3>3. share' = [share EXCEPT ![u] = t]
      BY <2>2, <3>1, <3>2 DEF EmergencyClaimReward, OnReward
    <3>4. t.amount = 0 /\ t.factor = 0
      BY <3>2
    <3>5. QED
      BY <1>1, <3>3, <3>4
  <2>3. ASSUME NEW r, NEW t, AddRewardToken(r, t)
        PROVE  \A v \in Users :
                 share'[v].amount = share[v].amount /\ share'[v].factor = share[v].factor
    BY <2>3 DEF AddRewardToken
  <2>4. \/ share' = share
        \/ \E u \in Users : EmergencyClaimReward(u, lpHeld, pool.sumOfFactors,
                                                  settings.basePartition)
        \/ \E r \in TokenRates, t \in StartTimes : AddRewardToken(r, t)
    BY DEF RewarderStep, UpdateReward, Refill, SetRewardRate, SetIsDeprecated,
           RewarderEmergencyWithdraw, EmergencyTokenWithdraw
  <2>5. QED
    BY <2>1, <2>2, <2>3, <2>4
<1>3. QED
  BY <1>1, <1>2 DEF SyncInv, SharesInSync, Detached

LEMMA StakerStepSync ==
  ASSUME WInv, SyncInv, NEW w \in Nat, StakerStep(w)
  PROVE  SyncInv'
<1>1. PICK u \in Users :
        \/ \E n \in Stakes : Deposit(u, n, w) \/ Withdraw(u, n, w)
        \/ Harvest(u, w)
        \/ MultiClaim(u, w)
        \/ Migrate(u, w)
        \/ \E b \in VeBalances : UpdateFactor(u, b, w)
  BY DEF StakerStep
<1>2. user[u].amount \in Nat
  BY DEF WInv, MInv, StakeType
<1>3. ASSUME NEW n \in Stakes, Deposit(u, n, w) \/ Withdraw(u, n, w)
      PROVE  SyncInv'
  <2>1. \E amount \in Nat : UpdateUserAmount(u, amount, w)
    BY <1>2, <1>3, MasterWombatAssumption DEF Deposit, Withdraw
  <2>2. UNCHANGED <<veBalance, settings, astray>>
    BY <1>3 DEF Deposit, Withdraw
  <2>3. QED
    BY <2>1, <2>2, UpdateUserAmountSync
<1>4. CASE Harvest(u, w)
  BY <1>2, <1>4, UpdateUserAmountSync DEF Harvest
<1>5. CASE \E b \in VeBalances : UpdateFactor(u, b, w)
  BY <1>5, MasterWombatAssumption, UpdateFactorSync
<1>6. QED
  BY <1>1, <1>3, <1>4, <1>5, MultiClaimSync, MigrateSync

LEMMA StepSync ==
  ASSUME WInv, SyncInv, [Next]_vars
  PROVE  SyncInv'
<1>1. ASSUME NEW w \in {0} \cup Payments, StakerStep(w)
      PROVE  SyncInv'
  BY <1>1, MasterWombatAssumption, StakerStepSync
<1>2. ASSUME NEW w \in {0} \cup Payments,
             UpdatePool(w) \/ \E b \in BasePartitions : UpdateEmissionPartition(b, w)
      PROVE  SyncInv'
  <2>1. share' = share /\ user' = user /\ astray' = astray
          /\ settings'.boostedRewarder = settings.boostedRewarder
    BY <1>2 DEF UpdatePool, UpdateEmissionPartition, rewarderVars, WInv, MInv, SettingsType
  <2>2. QED
    BY <2>1 DEF SyncInv, SharesInSync, Detached
<1>3. ASSUME NEW u \in Users, EmergencyWithdraw(u)
      PROVE  SyncInv'
  BY <1>3, EmergencyWithdrawSync
<1>4. ASSUME NEW name \in {"paused", "voter", "newMasterWombat"}, Switch(name)
      PROVE  SyncInv'
  <2>1. share' = share /\ user' = user /\ astray' = astray
          /\ settings'.boostedRewarder = settings.boostedRewarder
    BY <1>4 DEF Switch, rewarderVars, poolVars, WInv, MInv, SettingsType
  <2>2. QED
    BY <2>1 DEF SyncInv, SharesInSync, Detached
<1>5. CASE SetBoostedRewarder
  BY <1>5, SetBoostedRewarderSync
<1>6. CASE EmergencyWomWithdraw \/ Elapse \/ UNCHANGED vars
  <2>1. UNCHANGED <<share, user, settings, astray>>
    BY <1>6 DEF EmergencyWomWithdraw, Elapse, vars, rewarderVars, poolVars
  <2>2. QED
    BY <2>1, SameSharesInSync
<1>7. CASE RewarderStep
  BY <1>7, RewarderStepSync
<1>8. QED
  BY <1>1, <1>2, <1>3, <1>4, <1>5, <1>6, <1>7 DEF Next

\* The rewarder's copies of the stakes are MasterWombat's, or nothing, until
\* a change was kept from it (BoostedMasterWombat.sol:493).
THEOREM SharesStayInSync == Spec => []SharesInSync
<1>1. Init => SyncInv
  BY DEF Init, RewarderInit, NoShare, SyncInv, SharesInSync, Detached
<1>2. WInv /\ SyncInv /\ [Next]_vars => SyncInv'
  BY StepSync
<1>3. SyncInv => SharesInSync
  BY DEF SyncInv, SharesInSync
<1>4. QED
  BY <1>1, <1>2, <1>3, WombatInvariant, PTL DEF Spec
-----------------------------------------------------------------------------
(* What the rewarder distributes *)

CoveredInv == ~emptied => info.distributed <= info.claimed + tokens

\* What an update distributes is covered by the balance.
LEMMA UpdatedInfoCovered ==
  ASSUME RInv, info.distributed <= info.claimed + tokens,
         NEW supply \in Int, NEW sum \in Int, NEW base \in 0..TOTAL_PARTITION
  PROVE  LET i == UpdatedInfo(supply, sum, base)
         IN  i \in InfoType /\ i.claimed = info.claimed /\ i.distributed <= info.claimed + tokens
<1>1. UpdatedInfo(supply, sum, base) \in InfoType
  BY UpdatedInfoGrows DEF Grows
<1>2. /\ UpdatedInfo(supply, sum, base).claimed = info.claimed
      /\ UpdatedInfo(supply, sum, base).distributed = info.distributed + RewardsToDistribute
  BY DEF UpdatedInfo
<1>3. QED
  BY <1>1, <1>2, RewardsAreAvailable

\* A payment moves tokens from the balance to the claims.
LEMMA OnRewardCovered ==
  ASSUME RInv, CoveredInv, NEW u \in Users, NEW amount, NEW factor,
         NEW supply \in Int, NEW sum \in Int, NEW base \in 0..TOTAL_PARTITION,
         OnReward(u, amount, factor, supply, sum, base)
  PROVE  CoveredInv'
<1> SUFFICES ASSUME ~emptied PROVE (info.distributed <= info.claimed + tokens)'
  BY DEF CoveredInv, OnReward
<1>1. PICK i : i = UpdatedInfo(supply, sum, base)
  OBVIOUS
<1>2. i \in InfoType /\ i.claimed = info.claimed /\ i.distributed <= info.claimed + tokens
  BY <1>1, UpdatedInfoCovered DEF CoveredInv
<1>3. PICK pending \in Int, held \in Int : pending = PendingReward(i, share[u]) /\ held = tokens
  <2>1. PendingReward(i, share[u]) \in Nat
    BY <1>1, UpdatedInfoGrows, PendingGrows
  <2>2. QED
    BY <2>1 DEF RInv
<1>4. PICK r \in Int : r = Min({pending, held})
  BY <1>3, MinOfTwo
<1>5. info' = [i EXCEPT !.claimed = @ + r] /\ tokens' = held - r
  BY <1>1, <1>3, <1>4 DEF OnReward
<1>6. info'.distributed = i.distributed /\ info'.claimed = i.claimed + r
  BY <1>2, <1>5 DEF InfoType
<1>7. QED
  BY <1>2, <1>3, <1>5, <1>6 DEF InfoType

\* Everything else that calls the rewarder: an update at most.
LEMMA UpdateCovered ==
  ASSUME RInv, CoveredInv, UNCHANGED <<tokens, emptied>>,
         NEW supply \in Int, NEW sum \in Int, NEW base \in 0..TOTAL_PARTITION,
         NEW i, i = UpdatedInfo(supply, sum, base),
         info'.distributed = i.distributed, info'.claimed = i.claimed
  PROVE  CoveredInv'
BY UpdatedInfoCovered DEF CoveredInv

\* What a step of the whole may do to the rewarder.
LEMMA CallsOfRewarder ==
  ASSUME WInv, [Next]_vars,
         NEW supply, supply = lpHeld, NEW sum, sum = pool.sumOfFactors,
         NEW base, base = settings.basePartition
  PROVE  \/ UNCHANGED rewarderVars
         \/ \E u \in Users : \E amount, factor : OnReward(u, amount, factor, supply, sum, base)
         \/ \E u \in Users : \E factor : OnUpdateFactor(u, factor, supply, sum, base)
         \/ UpdateReward(supply, sum, base)
         \/ \E n \in Refills : Refill(n)
         \/ \E r \in TokenRates, t \in StartTimes : SetRewardRate(r, t, supply, sum, base)
         \/ \E r \in TokenRates, t \in StartTimes : AddRewardToken(r, t)
         \/ SetIsDeprecated \/ RewarderEmergencyWithdraw \/ EmergencyTokenWithdraw
<1> DEFINE Paid == \E u \in Users : \E amount, factor :
                     OnReward(u, amount, factor, supply, sum, base)
           Told == \E u \in Users : \E factor : OnUpdateFactor(u, factor, supply, sum, base)
<1>1. ASSUME NEW u \in Users, NEW amount, NEW factor, TellRewarder(u, amount, factor)
      PROVE  Paid \/ UNCHANGED rewarderVars
  BY <1>1 DEF TellRewarder
<1>2. ASSUME NEW u \in Users, NEW p, NEW w, ClaimWom(u, p, w)
      PROVE  Paid \/ UNCHANGED rewarderVars
  BY <1>1, <1>2 DEF ClaimWom
<1>3. ASSUME NEW u \in Users, NEW w, NEW amount, UpdateUserAmount(u, amount, w)
      PROVE  Paid \/ UNCHANGED rewarderVars
  BY <1>1, <1>3 DEF UpdateUserAmount
<1>4. ASSUME NEW u \in Users, NEW b, NEW w, UpdateFactor(u, b, w)
      PROVE  Told \/ UNCHANGED rewarderVars
  <2>1. CASE user[u].amount = 0
    BY <1>4, <2>1 DEF UpdateFactor
  <2>2. CASE user[u].amount # 0 /\ settings.boostedRewarder
    <3>1. PICK factor : factor = Boost(user[u].amount, b)
      OBVIOUS
    <3>2. OnUpdateFactor(u, factor, supply, sum, base)
      BY <1>4, <2>2, <3>1 DEF UpdateFactor
    <3>3. QED
      BY <3>2
  <2>3. CASE user[u].amount # 0 /\ ~settings.boostedRewarder
    BY <1>4, <2>3 DEF UpdateFactor
  <2>4. QED
    BY <2>1, <2>2, <2>3
<1>5. ASSUME NEW w \in {0} \cup Payments, StakerStep(w)
      PROVE  Paid \/ Told \/ UNCHANGED rewarderVars
  <2> HIDE DEF Paid, Told
  <2>1. PICK u \in Users :
          \/ \E n \in Stakes : Deposit(u, n, w) \/ Withdraw(u, n, w)
          \/ Harvest(u, w)
          \/ MultiClaim(u, w)
          \/ Migrate(u, w)
          \/ \E b \in VeBalances : UpdateFactor(u, b, w)
    BY <1>5 DEF StakerStep
  <2>2. CASE \E n \in Stakes : Deposit(u, n, w) \/ Withdraw(u, n, w)
    BY <1>3, <2>2 DEF Deposit, Withdraw
  <2>3. CASE Harvest(u, w)
    BY <1>3, <2>3 DEF Harvest
  <2>4. CASE MultiClaim(u, w) \/ Migrate(u, w)
    BY <1>2, <2>4 DEF MultiClaim, Migrate
  <2>5. QED
    BY <1>4, <2>1, <2>2, <2>3, <2>4
<1>6. ASSUME NEW u \in Users, EmergencyWithdraw(u)
      PROVE  Paid \/ UNCHANGED rewarderVars
  BY <1>1, <1>6 DEF EmergencyWithdraw
<1>7. ASSUME NEW w \in {0} \cup Payments,
             UpdatePool(w) \/ \E b \in BasePartitions : UpdateEmissionPartition(b, w)
      PROVE  UNCHANGED rewarderVars
  BY <1>7 DEF UpdatePool, UpdateEmissionPartition
<1>8. CASE \/ \E name \in {"paused", "voter", "newMasterWombat"} : Switch(name)
           \/ SetBoostedRewarder \/ EmergencyWomWithdraw \/ Elapse \/ UNCHANGED vars
  BY <1>8 DEF Switch, SetBoostedRewarder, EmergencyWomWithdraw, Elapse, vars
<1>9. CASE RewarderStep
  BY <1>9 DEF RewarderStep, EmergencyClaimReward
<1>10. QED
  BY <1>5, <1>6, <1>7, <1>8, <1>9 DEF Next

LEMMA StepCovered ==
  ASSUME WInv, CoveredInv, [Next]_vars
  PROVE  CoveredInv'
<1>1. RInv /\ info \in InfoType
  BY DEF WInv, RInv
<1>2. PICK sum \in Int, supply \in Int, base \in 0..TOTAL_PARTITION :
        sum = pool.sumOfFactors /\ supply = lpHeld /\ base = settings.basePartition
  BY DEF WInv, MInv, InOrder, PoolType, SettingsType
<1>3. CASE UNCHANGED rewarderVars
  BY <1>3 DEF CoveredInv, rewarderVars
<1>4. CASE \E u \in Users : \E amount, factor : OnReward(u, amount, factor, supply, sum, base)
  BY <1>1, <1>4, OnRewardCovered
<1>5. ASSUME NEW u, NEW factor, OnUpdateFactor(u, factor, supply, sum, base)
      PROVE  CoveredInv'
  <2>1. CASE base = TOTAL_PARTITION
    BY <1>5, <2>1 DEF OnUpdateFactor, CoveredInv, rewarderVars
  <2>2. CASE base # TOTAL_PARTITION
    <3>1. info' = UpdatedInfo(supply, sum, base) /\ UNCHANGED <<tokens, emptied>>
      BY <1>5, <2>2 DEF OnUpdateFactor
    <3>2. QED
      BY <1>1, <3>1, UpdateCovered
  <2>3. QED
    BY <2>1, <2>2
<1>6. CASE UpdateReward(supply, sum, base)
  <2>1. info' = UpdatedInfo(supply, sum, base) /\ UNCHANGED <<tokens, emptied>>
    BY <1>6 DEF UpdateReward
  <2>2. QED
    BY <1>1, <2>1, UpdateCovered
<1>7. ASSUME NEW n \in Refills, Refill(n)
      PROVE  CoveredInv'
  BY <1>1, <1>7, RewarderAssumption DEF Refill, CoveredInv, InfoType, RInv
<1>8. ASSUME NEW r, NEW t, SetRewardRate(r, t, supply, sum, base)
      PROVE  CoveredInv'
  <2>1. PICK i : i = UpdatedInfo(supply, sum, base)
    OBVIOUS
  <2>2. i \in InfoType
    BY <1>1, <2>1, UpdatedInfoGrows DEF Grows
  <2>3. PICK x : info' = [i EXCEPT !.tokenPerSec = r, !.last = x] /\ UNCHANGED <<tokens, emptied>>
    BY <1>8, <2>1 DEF SetRewardRate
  <2>4. info'.distributed = i.distributed /\ info'.claimed = i.claimed
    BY <2>2, <2>3 DEF InfoType
  <2>5. QED
    BY <1>1, <2>1, <2>3, <2>4, UpdateCovered
<1>9. ASSUME NEW r, NEW t, AddRewardToken(r, t)
      PROVE  CoveredInv'
  <2>1. info'.distributed = 0 /\ info'.claimed = 0 /\ tokens' = tokens
    BY <1>9 DEF AddRewardToken, NewInfo
  <2>2. QED
    BY <2>1 DEF CoveredInv, WInv, RInv
<1>10. CASE SetIsDeprecated
  BY <1>10 DEF SetIsDeprecated, CoveredInv
<1>11. CASE RewarderEmergencyWithdraw \/ EmergencyTokenWithdraw
  BY <1>11 DEF RewarderEmergencyWithdraw, EmergencyTokenWithdraw, CoveredInv
<1>12. QED
  BY <1>2, <1>3, <1>4, <1>5, <1>6, <1>7, <1>8, <1>9, <1>10, <1>11, CallsOfRewarder

\* The rewarder distributes no token that its balance does not cover, until
\* the owner takes tokens away (BoostedMultiRewarder.sol:533).
THEOREM DistributionStaysCovered == Spec => []DistributionCovered
<1>1. Init => CoveredInv
  BY DEF Init, RewarderInit, NewInfo, CoveredInv
<1>2. WInv /\ CoveredInv /\ [Next]_vars => CoveredInv'
  BY StepCovered
<1>3. CoveredInv => DistributionCovered
  BY DEF CoveredInv, DistributionCovered
<1>4. QED
  BY <1>1, <1>2, <1>3, WombatInvariant, PTL DEF Spec

-----------------------------------------------------------------------------
(* What the stakes have earned, and the WOM that covers it.                *)

\* What a stake has earned since its accumulators were zero, before rounding,
\* in units of 1 / ACC_TOKEN_PRECISION.
Raw(p, s) == s.amount * p.accWomPerShare + s.factor * p.accWomPerFactorShare

\* What a stake is owed, before rounding, in the same units.
Exact(p, s) ==
  Raw(p, s) + ACC_TOKEN_PRECISION * s.pendingWom - ACC_TOKEN_PRECISION * s.rewardDebt

LEMMA RawFacts ==
  ASSUME NEW p \in PoolType, NEW s \in StakeType
  PROVE  /\ Raw(p, s) \in Nat /\ WomDebt(p, s) \in Nat
         /\ ACC_TOKEN_PRECISION * WomDebt(p, s) <= Raw(p, s)
         /\ Raw(p, s) < ACC_TOKEN_PRECISION * WomDebt(p, s) + ACC_TOKEN_PRECISION
<1>1. ACC_TOKEN_PRECISION \in Nat \ {0}
  BY RewarderAssumption
<1>2. /\ s.amount \in Nat /\ s.factor \in Nat
      /\ p.accWomPerShare \in Nat /\ p.accWomPerFactorShare \in Nat
  BY DEF StakeType, PoolType
<1>3. PICK x \in Nat : x = Raw(p, s)
  <2>1. s.amount * p.accWomPerShare \in Nat /\ s.factor * p.accWomPerFactorShare \in Nat
    BY <1>2, ProductMonotone
  <2> QED BY <2>1 DEF Raw
<1>4. WomDebt(p, s) = x \div ACC_TOKEN_PRECISION
  BY <1>3 DEF WomDebt, Debt, Raw
<1>5. /\ x \div ACC_TOKEN_PRECISION \in Nat
      /\ ACC_TOKEN_PRECISION * (x \div ACC_TOKEN_PRECISION) <= x
      /\ x < ACC_TOKEN_PRECISION * (x \div ACC_TOKEN_PRECISION) + ACC_TOKEN_PRECISION
  BY <1>1
<1> QED BY <1>3, <1>4, <1>5

\* The rounded amount is within the exact one.
LEMMA ExactFacts ==
  ASSUME NEW p \in PoolType, NEW s \in StakeType
  PROVE  /\ Exact(p, s) \in Int /\ Owed(p, s) \in Int
         /\ ACC_TOKEN_PRECISION * Owed(p, s) <= Exact(p, s)
<1>1. ACC_TOKEN_PRECISION \in Nat
  BY RewarderAssumption
<1>2. PICK x \in Nat : x = Raw(p, s)
  BY RawFacts
<1>3. PICK d \in Nat : d = WomDebt(p, s) /\ ACC_TOKEN_PRECISION * d <= x
  BY <1>2, RawFacts
<1>4. PICK pending \in Nat : pending = s.pendingWom
  BY DEF StakeType
<1>5. PICK debt \in Nat : debt = s.rewardDebt
  BY DEF StakeType
<1>6. Owed(p, s) = d + pending - debt
  BY <1>3, <1>4, <1>5 DEF Owed
<1>7. Exact(p, s) = x + ACC_TOKEN_PRECISION * pending - ACC_TOKEN_PRECISION * debt
  BY <1>2, <1>4, <1>5 DEF Exact
<1>8. ACC_TOKEN_PRECISION * (d + pending - debt)
        = ACC_TOKEN_PRECISION * d + ACC_TOKEN_PRECISION * pending - ACC_TOKEN_PRECISION * debt
  BY <1>1
<1>9. /\ ACC_TOKEN_PRECISION * d \in Nat /\ ACC_TOKEN_PRECISION * pending \in Nat
      /\ ACC_TOKEN_PRECISION * debt \in Nat
  BY <1>1, ProductMonotone
<1> QED BY <1>3, <1>6, <1>7, <1>8, <1>9

\* A new debt that equals what was earned loses or wins less than one unit,
\* and nothing at all when the stake and its factor stay as they were.
LEMMA SettleExact ==
  ASSUME NEW p \in PoolType, NEW old \in StakeType, NEW s \in StakeType, NEW r \in Int,
         s.rewardDebt = WomDebt(p, s),
         r + s.pendingWom = Owed(p, old)
  PROVE  /\ Exact(p, s) + ACC_TOKEN_PRECISION * r <= Exact(p, old) + ACC_TOKEN_PRECISION
         /\ s.amount = old.amount /\ s.factor = old.factor
              => Exact(p, s) + ACC_TOKEN_PRECISION * r = Exact(p, old)
<1>1. ACC_TOKEN_PRECISION \in Nat
  BY RewarderAssumption
<1>2. PICK x \in Nat, d \in Nat : x = Raw(p, s) /\ d = WomDebt(p, s)
        /\ x < ACC_TOKEN_PRECISION * d + ACC_TOKEN_PRECISION
  BY RawFacts
<1>3. PICK pending \in Nat : pending = s.pendingWom
  BY DEF StakeType
<1>4. Exact(p, s) = x + ACC_TOKEN_PRECISION * pending - ACC_TOKEN_PRECISION * d
  BY <1>2, <1>3 DEF Exact
<1>5. PICK owed \in Int : owed = Owed(p, old) /\ ACC_TOKEN_PRECISION * owed <= Exact(p, old)
  BY ExactFacts
<1>6. ACC_TOKEN_PRECISION * pending + ACC_TOKEN_PRECISION * r = ACC_TOKEN_PRECISION * owed
  <2>1. ACC_TOKEN_PRECISION * (r + pending) = ACC_TOKEN_PRECISION * pending + ACC_TOKEN_PRECISION * r
    BY <1>1
  <2> QED BY <1>3, <1>5, <2>1
<1>7. /\ ACC_TOKEN_PRECISION * d \in Nat /\ ACC_TOKEN_PRECISION * pending \in Nat
      /\ ACC_TOKEN_PRECISION * r \in Int /\ ACC_TOKEN_PRECISION * owed \in Int
  BY <1>1, ProductMonotone
<1>8. Exact(p, old) \in Int
  BY ExactFacts
<1>9. Exact(p, s) + ACC_TOKEN_PRECISION * r = x - ACC_TOKEN_PRECISION * d + ACC_TOKEN_PRECISION * owed
  BY <1>4, <1>6, <1>7
<1>10. Exact(p, s) + ACC_TOKEN_PRECISION * r <= Exact(p, old) + ACC_TOKEN_PRECISION
  BY <1>1, <1>2, <1>5, <1>7, <1>8, <1>9
<1>11. ASSUME s.amount = old.amount, s.factor = old.factor
       PROVE  Exact(p, s) + ACC_TOKEN_PRECISION * r = Exact(p, old)
  <2>1. Raw(p, old) = x /\ WomDebt(p, old) = d
    BY <1>2, <1>11 DEF Raw, WomDebt
  <2>2. PICK pending2 \in Nat : pending2 = old.pendingWom
    BY DEF StakeType
  <2>3. PICK debt2 \in Nat : debt2 = old.rewardDebt
    BY DEF StakeType
  <2>4. owed = d + pending2 - debt2
    BY <1>5, <2>1, <2>2, <2>3 DEF Owed
  <2>5. Exact(p, old) = x + ACC_TOKEN_PRECISION * pending2 - ACC_TOKEN_PRECISION * debt2
    BY <2>1, <2>2, <2>3 DEF Exact
  <2>6. ACC_TOKEN_PRECISION * owed = ACC_TOKEN_PRECISION * d + ACC_TOKEN_PRECISION * pending2
                                       - ACC_TOKEN_PRECISION * debt2
    BY <1>1, <2>4
  <2>7. ACC_TOKEN_PRECISION * pending2 \in Nat /\ ACC_TOKEN_PRECISION * debt2 \in Nat
    BY <1>1, ProductMonotone
  <2> QED BY <1>7, <1>9, <2>5, <2>6, <2>7
<1> QED BY <1>10, <1>11

\* The WOM of the period that is not yet accrued.
LeftoverOf(p) == (p.periodFinish - p.lastRewardTimestamp) * p.rewardRate

\* What all users together are owed in the pool p, before rounding.
ExactOf(p) == [u \in Users |-> Exact(p, user[u])]
Liability(p) == SumOver(ExactOf(p), Users) + ACC_TOKEN_PRECISION * LeftoverOf(p)

\* The totals that MasterWombat keeps are those of the users.
TotalsAgree ==
  /\ pool.sumOfFactors = SumOver([u \in Users |-> user[u].factor], Users)
  /\ lpHeld = SumOver([u \in Users |-> user[u].amount], Users)

\* The shares of an accumulator's growth are at most this part of the WOM e.
LEMMA UnitWithinEmission ==
  ASSUME NEW dt \in Nat, NEW rate \in Nat, NEW part \in Nat, NEW total \in Nat \ {0}, NEW q,
         q = (dt * rate * ACC_TOKEN_PRECISION * part) \div (total * TOTAL_PARTITION)
  PROVE  q \in Nat /\ (total * q) * TOTAL_PARTITION <= ((dt * rate) * part) * ACC_TOKEN_PRECISION
<1>1. ACC_TOKEN_PRECISION \in Nat \ {0} /\ TOTAL_PARTITION \in Nat \ {0}
  BY RewarderAssumption
<1>2. PICK x \in Nat : x = ((dt * rate) * part) * ACC_TOKEN_PRECISION
  <2>1. dt * rate \in Nat
    BY ProductMonotone
  <2>2. (dt * rate) * part \in Nat
    BY <2>1, ProductMonotone
  <2>3. ((dt * rate) * part) * ACC_TOKEN_PRECISION \in Nat
    BY <1>1, <2>2, ProductMonotone
  <2> QED BY <2>3
<1>3. dt * rate * ACC_TOKEN_PRECISION * part = x
  BY <1>1, <1>2
<1>4. PICK m \in Nat \ {0} : m = total * TOTAL_PARTITION
  BY <1>1
<1>5. q = x \div m
  BY <1>3, <1>4
<1>6. q \in Nat /\ m * q <= x
  BY <1>5
<1>7. (total * q) * TOTAL_PARTITION = m * q
  BY <1>1, <1>4, <1>6
<1> QED BY <1>2, <1>6, <1>7

LEMMA CancelFactor ==
  ASSUME NEW k \in Nat \ {0}, NEW a \in Nat, NEW b \in Nat, k * a <= k * b
  PROVE  a <= b
<1>1. ASSUME b + 1 <= a PROVE FALSE
  <2>1. k * (b + 1) <= k * a
    BY <1>1, ProductMonotone
  <2>2. k * (b + 1) = k * b + k /\ k * b \in Nat /\ k * a \in Nat
    BY ProductMonotone
  <2> QED BY <2>1, <2>2
<1> QED BY <1>1

\* Accruing pays the users out of what is left of the period.
LEMMA AccrualCovered ==
  ASSUME WInv, TotalsAgree
  PROVE  Liability(AccruedPool) <= Liability(pool)
<1>1. /\ pool \in PoolType /\ InOrder(pool) /\ lpHeld \in Nat /\ now \in Nat
      /\ user \in [Users -> StakeType]
      /\ ACC_TOKEN_PRECISION \in Nat \ {0} /\ TOTAL_PARTITION \in Nat \ {0}
      /\ IsFiniteSet(Users)
  BY RewarderAssumption DEF WInv, RInv, MInv, InOrder
<1>2. PICK b \in Nat, c \in Nat : b = settings.basePartition /\ c = TOTAL_PARTITION - b
  BY RewarderAssumption DEF WInv, MInv, SettingsType
<1>3. PICK q \in PoolType : q = AccruedPool
  BY AccruedPoolAhead DEF Ahead, InOrder
<1>4. PICK dt \in Nat : dt = LastTimeRewardApplicable(pool.periodFinish) - pool.lastRewardTimestamp
  <2>1. AccruedPool.lastRewardTimestamp = LastTimeRewardApplicable(pool.periodFinish)
    BY DEF AccruedPool
  <2>2. PICK t \in Int, f \in Int : t = now /\ f = pool.periodFinish /\ t >= 0 /\ f >= 0
    BY <1>1 DEF PoolType
  <2>3. Min({t, f}) \in {t, f}
    BY MinOfTwo
  <2> QED BY <1>1, <2>2, <2>3 DEF LastTimeRewardApplicable, InOrder, PoolType
<1>5. PICK rate \in Nat : rate = pool.rewardRate
  BY <1>1 DEF PoolType
<1>6. PICK e \in Nat : e = dt * rate
  BY ProductMonotone
<1>7. PICK sum \in Nat : sum = pool.sumOfFactors
  BY <1>1 DEF PoolType
<1>8. PICK da \in Nat :
        /\ da = IF lpHeld = 0 THEN 0 ELSE WomPerUnit(pool, b, lpHeld)
        /\ (lpHeld * da) * TOTAL_PARTITION <= (e * b) * ACC_TOKEN_PRECISION
  <2>1. (e * b) * ACC_TOKEN_PRECISION \in Nat
    <3>1. e * b \in Nat
      BY ProductMonotone
    <3> QED BY <1>1, <3>1, ProductMonotone
  <2>2. CASE lpHeld = 0
    <3>1. (lpHeld * 0) * TOTAL_PARTITION = 0
      BY <1>1
    <3> QED BY <2>1, <2>2, <3>1
  <2>3. CASE lpHeld # 0
    <3>1. PICK n : n = WomPerUnit(pool, b, lpHeld)
      OBVIOUS
    <3>2. n = (dt * rate * ACC_TOKEN_PRECISION * b) \div (lpHeld * TOTAL_PARTITION)
      BY <1>4, <1>5, <3>1 DEF WomPerUnit
    <3>3. n \in Nat /\ (lpHeld * n) * TOTAL_PARTITION <= (e * b) * ACC_TOKEN_PRECISION
      BY <1>1, <1>6, <2>3, <3>2, UnitWithinEmission
    <3> QED BY <2>3, <3>1, <3>3
  <2> QED BY <2>2, <2>3
<1>9. PICK df \in Nat :
        /\ df = IF lpHeld = 0 \/ sum = 0 THEN 0 ELSE WomPerUnit(pool, c, sum)
        /\ (sum * df) * TOTAL_PARTITION <= (e * c) * ACC_TOKEN_PRECISION
  <2>1. (e * c) * ACC_TOKEN_PRECISION \in Nat
    <3>1. e * c \in Nat
      BY ProductMonotone
    <3> QED BY <1>1, <3>1, ProductMonotone
  <2>2. CASE lpHeld = 0 \/ sum = 0
    <3>1. (sum * 0) * TOTAL_PARTITION = 0
      BY <1>1
    <3> QED BY <2>1, <2>2, <3>1
  <2>3. CASE ~ (lpHeld = 0 \/ sum = 0)
    <3>1. PICK n : n = WomPerUnit(pool, c, sum)
      OBVIOUS
    <3>2. n = (dt * rate * ACC_TOKEN_PRECISION * c) \div (sum * TOTAL_PARTITION)
      BY <1>4, <1>5, <3>1 DEF WomPerUnit
    <3>3. n \in Nat /\ (sum * n) * TOTAL_PARTITION <= (e * c) * ACC_TOKEN_PRECISION
      BY <1>6, <2>3, <3>2, UnitWithinEmission
    <3> QED BY <2>3, <3>1, <3>3
  <2> QED BY <2>2, <2>3
<1>10. /\ q.accWomPerShare = pool.accWomPerShare + da
       /\ q.accWomPerFactorShare = pool.accWomPerFactorShare + df
       /\ q.lastRewardTimestamp = pool.lastRewardTimestamp + dt
       /\ q.periodFinish = pool.periodFinish /\ q.rewardRate = rate
  <2>1. LastTimeRewardApplicable(pool.periodFinish) = pool.lastRewardTimestamp + dt
    <3>1. PICK last \in Nat : last = AccruedPool.lastRewardTimestamp
      BY <1>3 DEF PoolType
    <3>2. last = LastTimeRewardApplicable(pool.periodFinish) /\ pool.lastRewardTimestamp \in Nat
      BY <1>1, <3>1 DEF AccruedPool, PoolType
    <3> QED BY <1>4, <3>2
  <2> QED BY <1>2, <1>3, <1>5, <1>7, <1>8, <1>9, <2>1 DEF AccruedPool
<1>11. PICK x \in Nat : x = lpHeld * da
  BY <1>1, ProductMonotone
<1>12. PICK y \in Nat : y = sum * df
  BY ProductMonotone
<1>13. x + y <= ACC_TOKEN_PRECISION * e
  <2>1. PICK f \in Nat : f = ACC_TOKEN_PRECISION * e
    BY <1>1, ProductMonotone
  <2>2. (e * b) * ACC_TOKEN_PRECISION + (e * c) * ACC_TOKEN_PRECISION = TOTAL_PARTITION * f
    <3>1. TOTAL_PARTITION = b + c
      BY <1>1, <1>2
    <3>2. (e * b) * ACC_TOKEN_PRECISION + (e * c) * ACC_TOKEN_PRECISION = (b + c) * f
      BY <1>1, <2>1
    <3> QED BY <3>1, <3>2
  <2>3. TOTAL_PARTITION * (x + y) = x * TOTAL_PARTITION + y * TOTAL_PARTITION
    BY <1>1
  <2>4. /\ x * TOTAL_PARTITION \in Nat /\ y * TOTAL_PARTITION \in Nat
        /\ (e * b) * ACC_TOKEN_PRECISION \in Nat /\ (e * c) * ACC_TOKEN_PRECISION \in Nat
    <3>1. e * b \in Nat /\ e * c \in Nat
      BY ProductMonotone
    <3> QED BY <1>1, <3>1, ProductMonotone
  <2>5. TOTAL_PARTITION * (x + y) <= TOTAL_PARTITION * f
    BY <1>8, <1>9, <1>11, <1>12, <2>2, <2>3, <2>4
  <2>6. x + y <= f
    BY <1>1, <2>5, CancelFactor
  <2> QED BY <2>1, <2>6
<1> DEFINE amounts == [u \in Users |-> user[u].amount]
           factors == [u \in Users |-> user[u].factor]
           base == [u \in Users |-> da * amounts[u]]
           boosted == [u \in Users |-> df * factors[u]]
           grown == [u \in Users |-> base[u] + boosted[u]]
           before == ExactOf(pool)
           after == ExactOf(q)
<1>14. ASSUME NEW u \in Users
       PROVE  /\ amounts[u] \in Nat /\ factors[u] \in Nat
              /\ base[u] \in Nat /\ boosted[u] \in Nat
              /\ base[u] = da * amounts[u] /\ boosted[u] = df * factors[u]
              /\ grown[u] = base[u] + boosted[u]
              /\ before[u] \in Int
              /\ after[u] = before[u] + grown[u]
  <2>1. PICK s \in StakeType : s = user[u]
    BY <1>1
  <2>2. PICK m \in Nat, f \in Nat : m = s.amount /\ f = s.factor
    BY DEF StakeType
  <2>3. PICK acc \in Nat, accF \in Nat : acc = pool.accWomPerShare /\ accF = pool.accWomPerFactorShare
    BY <1>1 DEF PoolType
  <2>4. Raw(q, s) = m * (acc + da) + f * (accF + df)
    BY <1>10, <2>2, <2>3 DEF Raw
  <2>5. Raw(pool, s) = m * acc + f * accF
    BY <2>2, <2>3 DEF Raw
  <2>6. m * (acc + da) + f * (accF + df) = (m * acc + f * accF) + (da * m + df * f)
    OBVIOUS
  <2>7. /\ m * acc \in Nat /\ f * accF \in Nat /\ da * m \in Nat /\ df * f \in Nat
    BY ProductMonotone
  <2>8. /\ ACC_TOKEN_PRECISION * s.pendingWom \in Nat /\ ACC_TOKEN_PRECISION * s.rewardDebt \in Nat
    BY <1>1, ProductMonotone DEF StakeType
  <2>9. Exact(q, s) = Exact(pool, s) + (da * m + df * f) /\ Exact(pool, s) \in Int
    BY <2>4, <2>5, <2>6, <2>7, <2>8 DEF Exact
  <2> QED BY <2>1, <2>2, <2>7, <2>9 DEF ExactOf
<1> HIDE DEF amounts, factors, base, boosted, grown, before, after
<1>15. SumOver(after, Users) = SumOver(before, Users) + (x + y) /\ SumOver(before, Users) \in Int
  <2>1. SumOver(base, Users) = da * SumOver(amounts, Users)
    <3>1. \A u \in Users : amounts[u] \in Int /\ base[u] = da * amounts[u]
      BY <1>14
    <3> QED BY <1>1, <3>1, SumScale
  <2>2. SumOver(boosted, Users) = df * SumOver(factors, Users)
    <3>1. \A u \in Users : factors[u] \in Int /\ boosted[u] = df * factors[u]
      BY <1>14
    <3> QED BY <1>1, <3>1, SumScale
  <2>3. SumOver(amounts, Users) = lpHeld /\ SumOver(factors, Users) = sum
    BY <1>7 DEF TotalsAgree, amounts, factors
  <2>4. SumOver(base, Users) = x /\ SumOver(boosted, Users) = y
    BY <1>1, <1>11, <1>12, <2>1, <2>2, <2>3
  <2>5. SumOver(grown, Users) = SumOver(base, Users) + SumOver(boosted, Users)
        /\ SumOver(grown, Users) \in Int
    <3>1. AddsUp(grown, base, boosted, Users)
      BY <1>1, <1>14 DEF AddsUp
    <3> QED BY <2>4, <3>1, SumAddsUp
  <2>6. SumOver(after, Users) = SumOver(before, Users) + SumOver(grown, Users)
        /\ SumOver(before, Users) \in Int
    <3>1. AddsUp(after, before, grown, Users)
      BY <1>1, <1>14 DEF AddsUp
    <3> QED BY <3>1, SumAddsUp
  <2> QED BY <2>4, <2>5, <2>6
<1>16. PICK left \in Nat : left = LeftoverOf(q) /\ LeftoverOf(pool) = left + e
  <2>1. PICK d \in Nat : d = q.periodFinish - q.lastRewardTimestamp
    BY <1>3, AccruedPoolAhead DEF Ahead, InOrder, PoolType
  <2>2. pool.periodFinish - pool.lastRewardTimestamp = d + dt
    BY <1>1, <1>10, <2>1 DEF PoolType
  <2>3. LeftoverOf(q) = d * rate /\ LeftoverOf(pool) = (d + dt) * rate
    BY <1>5, <1>10, <2>1, <2>2 DEF LeftoverOf
  <2>4. (d + dt) * rate = d * rate + e /\ d * rate \in Nat
    BY <1>6, ProductMonotone
  <2> QED BY <2>3, <2>4
<1>17. ACC_TOKEN_PRECISION * (left + e) = ACC_TOKEN_PRECISION * left + ACC_TOKEN_PRECISION * e
       /\ ACC_TOKEN_PRECISION * left \in Nat /\ ACC_TOKEN_PRECISION * e \in Nat
  BY <1>1, ProductMonotone
<1>18. Liability(q) = SumOver(after, Users) + ACC_TOKEN_PRECISION * left
  BY <1>16 DEF Liability, after
<1>19. Liability(pool) = SumOver(before, Users) + ACC_TOKEN_PRECISION * (left + e)
  BY <1>16 DEF Liability, before
<1> QED BY <1>3, <1>13, <1>15, <1>17, <1>18, <1>19

LEMMA LiabilityType ==
  ASSUME WInv, NEW p, InOrder(p)
  PROVE  /\ SumOver(ExactOf(p), Users) \in Int
         /\ LeftoverOf(p) \in Nat
         /\ Liability(p) \in Int
<1>1. p \in PoolType /\ user \in [Users -> StakeType] /\ IsFiniteSet(Users)
      /\ ACC_TOKEN_PRECISION \in Nat
  BY RewarderAssumption DEF WInv, MInv, InOrder
<1>2. \A u \in Users : ExactOf(p)[u] \in Int
  BY <1>1, ExactFacts DEF ExactOf
<1>3. SumOver(ExactOf(p), Users) \in Int
  BY <1>1, <1>2, SumInt
<1>4. PICK d \in Nat, r \in Nat : d = p.periodFinish - p.lastRewardTimestamp /\ r = p.rewardRate
  BY <1>1 DEF InOrder, PoolType
<1>5. LeftoverOf(p) \in Nat
  BY <1>4, ProductMonotone DEF LeftoverOf
<1>6. ACC_TOKEN_PRECISION * LeftoverOf(p) \in Nat
  BY <1>1, <1>5, ProductMonotone
<1> QED BY <1>3, <1>5, <1>6 DEF Liability

\* The WOM of a payment covers the new period.
LEMMA NotifyCovered ==
  ASSUME WInv, NEW p, Ahead(p), NEW w \in Nat
  PROVE  Liability(NotifyRewardAmount(p, w)) <= Liability(p) + ACC_TOKEN_PRECISION * w
<1>1. /\ InOrder(p) /\ p \in PoolType /\ now \in Nat /\ REWARD_DURATION \in Nat \ {0}
      /\ ACC_TOKEN_PRECISION \in Nat
  BY MasterWombatAssumption, RewarderAssumption DEF WInv, RInv, Ahead, InOrder
<1>2. PICK n \in Nat : n = LeftoverOf(p)
  BY <1>1, LiabilityType
<1>3. PICK rate \in Nat : rate = (w + n) \div REWARD_DURATION
  BY <1>1, DivNat
<1>4. REWARD_DURATION * rate <= w + n
  BY <1>1, <1>3
<1>5. (IF p.lastRewardTimestamp >= p.periodFinish THEN 0
       ELSE (p.periodFinish - p.lastRewardTimestamp) * p.rewardRate) = n
  <2>1. CASE p.lastRewardTimestamp >= p.periodFinish
    <3>1. p.periodFinish - p.lastRewardTimestamp = 0 /\ p.rewardRate \in Nat
      BY <1>1, <2>1 DEF InOrder, PoolType
    <3>2. n = 0
      BY <1>2, <3>1 DEF LeftoverOf
    <3> QED BY <2>1, <3>2
  <2>2. CASE ~(p.lastRewardTimestamp >= p.periodFinish)
    BY <1>2, <2>2 DEF LeftoverOf
  <2> QED BY <2>1, <2>2
<1>6. PICK q : q = NotifyRewardAmount(p, w)
  OBVIOUS
<1>7. /\ q.accWomPerShare = p.accWomPerShare
      /\ q.accWomPerFactorShare = p.accWomPerFactorShare
      /\ q.rewardRate = rate /\ q.lastRewardTimestamp = now
      /\ q.periodFinish = now + REWARD_DURATION
  BY <1>1, <1>3, <1>5, <1>6 DEF NotifyRewardAmount, PoolType
<1>8. ExactOf(q) = ExactOf(p)
  BY <1>7 DEF ExactOf, Exact, Raw
<1>9. LeftoverOf(q) = REWARD_DURATION * rate
  <2>1. (now + REWARD_DURATION) - now = REWARD_DURATION
    BY <1>1
  <2> QED BY <1>7, <2>1 DEF LeftoverOf
<1>10. PICK sum \in Int : sum = SumOver(ExactOf(p), Users)
  BY <1>1, LiabilityType
<1>11. PICK left \in Nat : left = LeftoverOf(q) /\ left <= w + n
  BY <1>1, <1>4, <1>9, ProductMonotone
<1>12. ACC_TOKEN_PRECISION * left <= ACC_TOKEN_PRECISION * (w + n)
  BY <1>1, <1>11, ProductMonotone
<1>13. ACC_TOKEN_PRECISION * (w + n) = ACC_TOKEN_PRECISION * w + ACC_TOKEN_PRECISION * n
  BY <1>1
<1>14. /\ ACC_TOKEN_PRECISION * w \in Nat /\ ACC_TOKEN_PRECISION * n \in Nat
       /\ ACC_TOKEN_PRECISION * left \in Nat
  BY <1>1, ProductMonotone
<1>15. Liability(q) = sum + ACC_TOKEN_PRECISION * left
  BY <1>8, <1>10, <1>11 DEF Liability
<1>16. Liability(p) = sum + ACC_TOKEN_PRECISION * n
  BY <1>2, <1>10 DEF Liability
<1> QED BY <1>6, <1>12, <1>13, <1>14, <1>15, <1>16

\* An update of the pool raises what is owed by no more than the Voter pays.
LEMMA UpdatedPoolCovered ==
  ASSUME WInv, TotalsAgree, NEW w \in Nat, VoterPays(w)
  PROVE  Liability(UpdatedPool(w)) <= Liability(pool) + ACC_TOKEN_PRECISION * w
<1>1. InOrder(pool) /\ ACC_TOKEN_PRECISION \in Nat /\ Ahead(AccruedPool)
      /\ now \in Nat /\ pool.lastRewardTimestamp \in Nat
  BY RewarderAssumption, AccruedPoolAhead DEF WInv, MInv, RInv, InOrder, PoolType
<1>2. PICK k \in Nat : k = ACC_TOKEN_PRECISION * w
  BY <1>1, ProductMonotone
<1>3. PICK before \in Int : before = Liability(pool)
  BY <1>1, LiabilityType
<1>4. PICK accrued \in Int : accrued = Liability(AccruedPool) /\ accrued <= before
  BY <1>1, <1>3, AccrualCovered, LiabilityType DEF Ahead
<1>5. CASE now <= pool.lastRewardTimestamp
  BY <1>2, <1>3, <1>5 DEF UpdatedPool
<1>6. CASE ~(now <= pool.lastRewardTimestamp) /\ w = 0
  BY <1>2, <1>3, <1>4, <1>6 DEF UpdatedPool
<1>7. CASE ~(now <= pool.lastRewardTimestamp) /\ w # 0
  <2>1. PICK paying \in Int : paying = Liability(NotifyRewardAmount(AccruedPool, w))
                              /\ paying <= accrued + k
    <3>1. Ahead(NotifyRewardAmount(AccruedPool, w))
      BY <1>1, NotifyAhead
    <3>2. Liability(NotifyRewardAmount(AccruedPool, w)) \in Int
      BY <3>1, LiabilityType DEF Ahead
    <3>3. Liability(NotifyRewardAmount(AccruedPool, w)) <= accrued + k
      BY <1>1, <1>2, <1>4, NotifyCovered
    <3> QED BY <3>2, <3>3
  <2> QED BY <1>2, <1>3, <1>4, <1>7, <2>1 DEF UpdatedPool
<1> QED BY <1>5, <1>6, <1>7

\* The WOM covers what all users are owed, up to one unit per counted move;
\* inductive because nothing is rounded in it.
FundsInv ==
  /\ moves \in Nat
  /\ BoostsFresh
  /\ drained \/ Liability(pool) <= ACC_TOKEN_PRECISION * (womHeld + moves)

\* The stake of u becomes s in the pool p, the Voter pays w and u gets r.
StakeMoves(u, p, s, w, r) ==
  /\ user' = [user EXCEPT ![u] = s]
  /\ pool' = [p EXCEPT !.sumOfFactors = @ + s.factor - user[u].factor]
  /\ lpHeld' = lpHeld + s.amount - user[u].amount
  /\ womHeld' = womHeld + w - r
  /\ drained' = drained
  /\ \A v \in Users \ {u} : veBalance'[v] = veBalance[v]
  /\ s.factor = Boost(s.amount, veBalance'[u])

\* The pool p owes no more than the pool did before the Voter paid w.
CoveredBy(p, w) == Liability(p) <= Liability(pool) + ACC_TOKEN_PRECISION * w

LEMMA StakeMoveFunds ==
  ASSUME WInv, FundsInv, NEW u \in Users, NEW p, Ahead(p), NEW s \in StakeType,
         NEW w \in Nat, NEW r \in Nat, NEW m \in Nat,
         CoveredBy(p, w), StakeMoves(u, p, s, w, r), moves' = moves + m,
         Exact(p, s) + ACC_TOKEN_PRECISION * r
            <= Exact(p, user[u]) + ACC_TOKEN_PRECISION * m
  PROVE  FundsInv'
<1>1. /\ InOrder(p) /\ p \in PoolType /\ user \in [Users -> StakeType] /\ IsFiniteSet(Users)
      /\ ACC_TOKEN_PRECISION \in Nat /\ moves \in Nat /\ womHeld \in Nat
      /\ p.sumOfFactors = pool.sumOfFactors
  BY RewarderAssumption DEF WInv, MInv, Ahead, InOrder, FundsInv
<1>2. \A v \in Users : user'[v] = IF v = u THEN s ELSE user[v]
  BY <1>1 DEF StakeMoves
<1>3. PICK k \in Int : k = p.sumOfFactors + s.factor - user[u].factor
  BY <1>1 DEF PoolType, StakeType
<1>4. pool' = [p EXCEPT !.sumOfFactors = k]
  BY <1>3 DEF StakeMoves
<1>5. BoostsFresh'
  <2>1. ASSUME NEW v \in Users
        PROVE  user'[v].factor = Boost(user'[v].amount, veBalance'[v])
    BY <1>2 DEF StakeMoves, FundsInv, BoostsFresh
  <2> DEFINE factors == [v \in Users |-> user[v].factor]
             factors2 == [v \in Users |-> user'[v].factor]
             amounts == [v \in Users |-> user[v].amount]
             amounts2 == [v \in Users |-> user'[v].amount]
  <2>2. MovesAt(factors, factors2, Users, u, s.factor - user[u].factor)
    <3>1. \A v \in Users : user[v].factor \in Int /\ s.factor \in Int
      BY <1>1 DEF StakeType
    <3> QED BY <1>1, <1>2, <3>1 DEF MovesAt
  <2>3. MovesAt(amounts, amounts2, Users, u, s.amount - user[u].amount)
    <3>1. \A v \in Users : user[v].amount \in Int /\ s.amount \in Int
      BY <1>1 DEF StakeType
    <3> QED BY <1>1, <1>2, <3>1 DEF MovesAt
  <2>4. pool.sumOfFactors = SumOver(factors, Users) /\ lpHeld = SumOver(amounts, Users)
    BY DEF FundsInv, BoostsFresh
  <2> HIDE DEF factors, factors2, amounts, amounts2
  <2>5. PICK dF \in Int, dA \in Int : dF = s.factor - user[u].factor /\ dA = s.amount - user[u].amount
    BY <1>1 DEF StakeType
  <2>6. SumOver(factors2, Users) = SumOver(factors, Users) + dF /\ SumOver(factors, Users) \in Int
    BY <2>2, <2>5, SumUpdate
  <2>7. SumOver(amounts2, Users) = SumOver(amounts, Users) + dA /\ SumOver(amounts, Users) \in Int
    BY <2>3, <2>5, SumUpdate
  <2>8. s.factor \in Int /\ user[u].factor \in Int /\ s.amount \in Int /\ user[u].amount \in Int
    BY <1>1 DEF StakeType
  <2>9. pool'.sumOfFactors = SumOver(factors2, Users)
    <3>1. pool'.sumOfFactors = k
      BY <1>1, <1>4 DEF PoolType
    <3> QED BY <1>1, <1>3, <2>4, <2>5, <2>6, <2>8, <3>1
  <2>10. lpHeld' = SumOver(amounts2, Users)
    BY <2>4, <2>5, <2>7, <2>8 DEF StakeMoves
  <2> QED BY <2>1, <2>9, <2>10 DEF BoostsFresh, factors2, amounts2
<1>6. ASSUME ~drained
      PROVE  (Liability(pool) <= ACC_TOKEN_PRECISION * (womHeld + moves))'
  <2> DEFINE before == ExactOf(p)
             after == [v \in Users |-> Exact(pool', user'[v])]
  <2>1. PICK x \in Int : x = Exact(p, user[u])
    BY <1>1, ExactFacts
  <2>2. PICK y \in Int : y = Exact(p, s)
    BY <1>1, ExactFacts
  <2>3. \A t : Exact(pool', t) = Exact(p, t)
    BY <1>1, <1>4 DEF PoolType, Exact, Raw
  <2>4. MovesAt(before, after, Users, u, y - x)
    <3>1. \A v \in Users : before[v] = Exact(p, user[v]) /\ before[v] \in Int
      BY <1>1, ExactFacts DEF ExactOf
    <3>2. \A v \in Users : after[v] = IF v = u THEN before[v] + (y - x) ELSE before[v]
      BY <1>2, <2>1, <2>2, <2>3, <3>1
    <3> HIDE DEF before, after
    <3> QED BY <1>1, <3>1, <3>2 DEF MovesAt
  <2> HIDE DEF before, after
  <2>5. SumOver(after, Users) = SumOver(before, Users) + (y - x) /\ SumOver(before, Users) \in Int
    BY <2>4, SumUpdate
  <2>6. LeftoverOf(pool') = LeftoverOf(p)
    BY <1>1, <1>4 DEF PoolType, LeftoverOf
  <2>7. Liability(pool)' = SumOver(after, Users) + ACC_TOKEN_PRECISION * LeftoverOf(pool')
    BY DEF Liability, ExactOf, LeftoverOf, after
  <2>8. PICK left \in Nat : left = LeftoverOf(p)
    BY <1>1, LiabilityType
  <2>9. ACC_TOKEN_PRECISION * left \in Nat
    BY <1>1, ProductMonotone
  <2>10. PICK owes \in Int : owes = Liability(p)
    BY <1>1, LiabilityType
  <2>11. owes = SumOver(before, Users) + ACC_TOKEN_PRECISION * left
    BY <2>8, <2>10 DEF Liability, before
  <2>12. Liability(pool)' = owes + y - x
    BY <2>5, <2>6, <2>7, <2>8, <2>9, <2>11
  <2>13. PICK owed \in Int : owed = Liability(pool)
    BY LiabilityType DEF WInv, MInv
  <2>14. PICK a \in Nat, b \in Nat, c \in Nat, d \in Nat :
           /\ a = ACC_TOKEN_PRECISION * w /\ b = ACC_TOKEN_PRECISION * r
           /\ c = ACC_TOKEN_PRECISION * m /\ d = ACC_TOKEN_PRECISION * (womHeld + moves)
    <3>1. womHeld + moves \in Nat
      BY <1>1
    <3>2. ACC_TOKEN_PRECISION * w \in Nat /\ ACC_TOKEN_PRECISION * r \in Nat
          /\ ACC_TOKEN_PRECISION * m \in Nat
      BY <1>1, ProductMonotone
    <3>3. ACC_TOKEN_PRECISION * (womHeld + moves) \in Nat
      BY <1>1, <3>1, ProductMonotone
    <3> QED BY <3>2, <3>3
  <2>15. owes <= owed + a /\ owed <= d /\ y + b <= x + c
    BY <1>6, <2>1, <2>2, <2>10, <2>13, <2>14 DEF CoveredBy, FundsInv
  <2>16. ACC_TOKEN_PRECISION * (womHeld' + moves') = d + a - b + c
    <3>1. womHeld' + moves' = (womHeld + moves) + w - r + m
      BY <1>1 DEF StakeMoves
    <3>2. PICK n \in Nat : n = womHeld + moves
      BY <1>1
    <3>3. ACC_TOKEN_PRECISION * (n + w - r + m)
            = ACC_TOKEN_PRECISION * n + ACC_TOKEN_PRECISION * w - ACC_TOKEN_PRECISION * r
                + ACC_TOKEN_PRECISION * m
      BY <1>1
    <3> QED BY <2>14, <3>1, <3>2, <3>3
  <2> QED BY <2>12, <2>15, <2>16
<1>7. moves' \in Nat
  BY <1>1
<1> QED BY <1>5, <1>6, <1>7 DEF FundsInv, StakeMoves

\* The pool becomes p, the Voter pays w, and no stake changes.
LEMMA PoolMoveFunds ==
  ASSUME WInv, FundsInv, NEW p, Ahead(p), NEW w \in Nat, CoveredBy(p, w),
         pool' = p, womHeld' = womHeld + w,
         UNCHANGED <<user, lpHeld, veBalance, moves, drained>>
  PROVE  FundsInv'
<1>1. InOrder(p) /\ ACC_TOKEN_PRECISION \in Nat /\ moves \in Nat /\ womHeld \in Nat
  BY RewarderAssumption DEF WInv, MInv, Ahead, FundsInv
<1>2. BoostsFresh'
  BY DEF FundsInv, BoostsFresh, Ahead
<1>3. ASSUME ~drained
      PROVE  (Liability(pool) <= ACC_TOKEN_PRECISION * (womHeld + moves))'
  <2>1. Liability(pool)' = Liability(p)
    BY DEF Liability, ExactOf, LeftoverOf
  <2>2. PICK a \in Int, b \in Int : a = Liability(p) /\ b = Liability(pool)
    BY <1>1, LiabilityType DEF WInv, MInv
  <2>3. PICK n \in Nat : n = womHeld + moves
    BY <1>1
  <2>4. womHeld' + moves' = n + w
    BY <1>1, <2>3
  <2>5. ACC_TOKEN_PRECISION * (n + w) = ACC_TOKEN_PRECISION * n + ACC_TOKEN_PRECISION * w
    BY <1>1
  <2>6. PICK c \in Nat, d \in Nat : c = ACC_TOKEN_PRECISION * n /\ d = ACC_TOKEN_PRECISION * w
    BY <1>1, ProductMonotone
  <2>7. a <= b + d /\ b <= c
    BY <1>3, <2>2, <2>3, <2>6 DEF CoveredBy, FundsInv
  <2> QED BY <2>1, <2>2, <2>4, <2>5, <2>6, <2>7
<1> QED BY <1>1, <1>2, <1>3 DEF FundsInv

LEMMA PoolCoversItself ==
  ASSUME WInv
  PROVE  CoveredBy(pool, 0)
<1>1. PICK x \in Int : x = Liability(pool)
  BY LiabilityType DEF WInv, MInv
<1>2. ACC_TOKEN_PRECISION * 0 = 0
  BY RewarderAssumption
<1> QED BY <1>1, <1>2 DEF CoveredBy

LEMMA UpdatedPoolFunds ==
  ASSUME WInv, FundsInv, NEW w \in Nat, VoterPays(w)
  PROVE  Ahead(UpdatedPool(w)) /\ CoveredBy(UpdatedPool(w), w)
<1>1. TotalsAgree
  BY DEF FundsInv, BoostsFresh, TotalsAgree
<1> QED BY <1>1, UpdatedPoolAhead, UpdatedPoolCovered DEF CoveredBy

\* Settling a stake counts as a move unless stake and factor stay as they were.
LEMMA SettleFunds ==
  ASSUME WInv, FundsInv, NEW u \in Users, NEW p, Ahead(p), NEW s \in StakeType,
         NEW w \in Nat, NEW r \in Nat, NEW m \in {0, 1},
         CoveredBy(p, w), StakeMoves(u, p, s, w, r), moves' = moves + m,
         s.rewardDebt = WomDebt(p, s), r + s.pendingWom = Owed(p, user[u]),
         m = 0 => s.amount = user[u].amount /\ s.factor = user[u].factor
  PROVE  FundsInv'
<1>1. p \in PoolType /\ user[u] \in StakeType /\ ACC_TOKEN_PRECISION \in Nat
  BY RewarderAssumption DEF Ahead, InOrder, WInv, MInv
<1>2. /\ Exact(p, s) + ACC_TOKEN_PRECISION * r <= Exact(p, user[u]) + ACC_TOKEN_PRECISION
      /\ s.amount = user[u].amount /\ s.factor = user[u].factor
           => Exact(p, s) + ACC_TOKEN_PRECISION * r = Exact(p, user[u])
  BY <1>1, SettleExact
<1>3. PICK x \in Int, y \in Int : x = Exact(p, user[u]) /\ y = Exact(p, s)
  BY <1>1, ExactFacts
<1>4. PICK k \in Nat : k = ACC_TOKEN_PRECISION * r
  BY <1>1, ProductMonotone
<1>5. y + k <= x + ACC_TOKEN_PRECISION * m
  <2>1. CASE m = 0
    <3>1. ACC_TOKEN_PRECISION * m = 0
      BY <1>1, <2>1
    <3> QED BY <1>2, <1>3, <1>4, <2>1, <3>1
  <2>2. CASE m = 1
    <3>1. ACC_TOKEN_PRECISION * m = ACC_TOKEN_PRECISION
      BY <1>1, <2>2
    <3> QED BY <1>2, <1>3, <1>4, <3>1
  <2> QED BY <2>1, <2>2
<1>6. m \in Nat /\ Exact(p, s) + ACC_TOKEN_PRECISION * r
                     <= Exact(p, user[u]) + ACC_TOKEN_PRECISION * m
  BY <1>3, <1>4, <1>5
<1> QED BY <1>6, StakeMoveFunds

LEMMA UpdateUserAmountFunds ==
  ASSUME WInv, FundsInv, NEW u \in Users, NEW amount \in Nat, NEW w \in Nat, NEW m \in {0, 1},
         UpdateUserAmount(u, amount, w), UNCHANGED <<veBalance, drained>>,
         moves' = moves + m, m = 0 => amount = user[u].amount
  PROVE  FundsInv'
<1>1. PICK p : p = UpdatedPool(w) /\ Ahead(p) /\ CoveredBy(p, w)
  BY UpdatedPoolFunds DEF UpdateUserAmount
<1>2. PICK factor \in Nat : factor = Boost(amount, veBalance[u])
  BY BoostNat DEF WInv, MInv
<1>3. PICK r \in Nat : r = Owed(p, user[u])
  BY <1>1, OwedGrows
<1>4. PICK d \in Nat : d = Debt(amount, p.accWomPerShare, factor, p.accWomPerFactorShare)
  BY <1>1, DebtNat DEF Ahead, InOrder, PoolType
<1>5. PICK s \in StakeType : s = [amount |-> amount, factor |-> factor,
                                  rewardDebt |-> d, pendingWom |-> 0]
  BY DEF StakeType
<1>6. /\ user' = [user EXCEPT ![u] = s]
      /\ PayWom(u, r, w) /\ TotalsFollow(p, u, amount, factor)
  BY <1>1, <1>2, <1>3, <1>4, <1>5 DEF UpdateUserAmount
<1>7. StakeMoves(u, p, s, w, r)
  BY <1>2, <1>5, <1>6 DEF StakeMoves, PayWom, TotalsFollow
<1>8. s.rewardDebt = WomDebt(p, s) /\ r + s.pendingWom = Owed(p, user[u])
  BY <1>3, <1>4, <1>5 DEF WomDebt
<1>9. m = 0 => s.amount = user[u].amount /\ s.factor = user[u].factor
  BY <1>2, <1>5 DEF FundsInv, BoostsFresh
<1> QED BY <1>1, <1>7, <1>8, <1>9, SettleFunds

LEMMA MultiClaimFunds ==
  ASSUME WInv, FundsInv, NEW u \in Users, NEW w \in Nat, MultiClaim(u, w)
  PROVE  FundsInv'
<1>1. PICK p : p = UpdatedPool(w) /\ Ahead(p) /\ CoveredBy(p, w)
  BY UpdatedPoolFunds DEF MultiClaim
<1>2. /\ p \in PoolType /\ user \in [Users -> StakeType]
      /\ pool' = p /\ UNCHANGED <<lpHeld, veBalance, drained, moves>>
      /\ moves \in Nat /\ womHeld \in Nat /\ lpHeld \in Nat
  BY <1>1 DEF MultiClaim, WInv, MInv, Ahead, InOrder, FundsInv
<1>3. CASE user[u].amount > 0
  <2>1. PICK r \in Nat : r = Owed(p, user[u])
    BY <1>1, OwedGrows
  <2>2. PICK d \in Nat : d = WomDebt(p, user[u])
    BY <1>1, OwedGrows
  <2>3. PICK a \in Nat, f \in Nat : a = user[u].amount /\ f = user[u].factor
    BY <1>2 DEF StakeType
  <2>4. PICK s \in StakeType : s = [amount |-> a, factor |-> f, rewardDebt |-> d, pendingWom |-> 0]
    BY DEF StakeType
  <2>5. user' = [user EXCEPT ![u] = s] /\ PayWom(u, r, w)
    BY <1>1, <1>3, <2>1, <2>2, <2>3, <2>4 DEF MultiClaim, ClaimWom
  <2>6. pool' = [p EXCEPT !.sumOfFactors = @ + f - f]
    <3>1. PICK sum \in Nat : sum = p.sumOfFactors
      BY <1>2 DEF PoolType
    <3>2. sum + f - f = sum
      OBVIOUS
    <3>3. p = [p EXCEPT !.sumOfFactors = sum]
      BY <1>2, <3>1 DEF PoolType
    <3> QED BY <1>2, <3>1, <3>2, <3>3
  <2>7. lpHeld' = lpHeld + a - a
    BY <1>2
  <2>8. StakeMoves(u, p, s, w, r)
    BY <1>2, <2>3, <2>4, <2>5, <2>6, <2>7 DEF StakeMoves, PayWom, FundsInv, BoostsFresh
  <2>9. s.rewardDebt = WomDebt(p, s) /\ r + s.pendingWom = Owed(p, user[u])
    BY <2>1, <2>2, <2>3, <2>4 DEF WomDebt
  <2>10. PICK m \in {0, 1} : m = 0
    OBVIOUS
  <2>11. moves' = moves + m
    BY <1>2, <2>10
  <2>12. s.amount = user[u].amount /\ s.factor = user[u].factor
    BY <2>3, <2>4
  <2> QED BY <1>1, <2>8, <2>9, <2>11, <2>12, SettleFunds
<1>4. CASE ~(user[u].amount > 0)
  <2>1. user' = user /\ womHeld' = womHeld + w
    BY <1>2, <1>4 DEF MultiClaim, ClaimWom, PayWom
  <2> QED BY <1>1, <1>2, <2>1, PoolMoveFunds
<1> QED BY <1>3, <1>4

\* No stake: nothing earned and nothing owed.
LEMMA NoFactor ==
  ASSUME NEW ve \in Nat
  PROVE  Boost(0, ve) = 0
<1>1. {n \in 1..0 : n * n <= 0} = {}
  OBVIOUS
<1>2. 0 * ve = 0
  OBVIOUS
<1>3. Cardinality({}) = 0
  BY FS_EmptySet
<1>4. FloorRoot(0) = 0
  BY <1>1, <1>3 DEF FloorRoot
<1> QED BY <1>2, <1>4 DEF Boost

LEMMA MigrateFunds ==
  ASSUME WInv, FundsInv, NEW u \in Users, NEW w \in Nat, Migrate(u, w)
  PROVE  FundsInv'
<1>1. PICK p : p = UpdatedPool(w) /\ Ahead(p) /\ CoveredBy(p, w)
  BY UpdatedPoolFunds DEF Migrate
<1>2. PICK r \in Nat : r = Owed(p, user[u])
  BY <1>1, OwedGrows
<1>3. PICK s \in StakeType : s = NoStake
  BY DEF NoStake, StakeType
<1>4. /\ user' = [user EXCEPT ![u] = s] /\ PayWom(u, r, w) /\ TotalsFollow(p, u, 0, 0)
      /\ moves' = moves + 1 /\ UNCHANGED <<veBalance, drained>>
  BY <1>1, <1>2, <1>3 DEF Migrate, ClaimWom, CountMove
<1>5. StakeMoves(u, p, s, w, r)
  <2>1. Boost(0, veBalance'[u]) = 0
    BY <1>4, NoFactor DEF WInv, MInv
  <2> QED BY <1>3, <1>4, <2>1 DEF StakeMoves, PayWom, TotalsFollow, NoStake
<1>6. WomDebt(p, s) = 0
  <2>1. p.accWomPerShare \in Nat /\ p.accWomPerFactorShare \in Nat
    BY <1>1 DEF Ahead, InOrder, PoolType
  <2>2. 0 * p.accWomPerShare + 0 * p.accWomPerFactorShare = 0
    BY <2>1
  <2>3. 0 \div ACC_TOKEN_PRECISION = 0
    BY RewarderAssumption
  <2> QED BY <1>3, <2>2, <2>3 DEF WomDebt, Debt, NoStake
<1>7. s.rewardDebt = WomDebt(p, s) /\ r + s.pendingWom = Owed(p, user[u])
  BY <1>2, <1>3, <1>6 DEF NoStake
<1>8. PICK m \in {0, 1} : m = 1
  OBVIOUS
<1> QED BY <1>1, <1>4, <1>5, <1>7, <1>8, SettleFunds

LEMMA StakerEmergencyWithdrawFunds ==
  ASSUME WInv, FundsInv, NEW u \in Users, EmergencyWithdraw(u)
  PROVE  FundsInv'
<1>1. PICK p : p = pool /\ Ahead(p) /\ CoveredBy(p, 0)
  BY PoolAhead, PoolCoversItself
<1>2. p \in PoolType /\ user[u] \in StakeType /\ ACC_TOKEN_PRECISION \in Nat
      /\ womHeld \in Nat /\ user[u].rewardDebt <= WomDebt(p, user[u])
  BY <1>1, RewarderAssumption DEF Ahead, InOrder, WInv, MInv
<1>3. PICK pending \in Nat, debt \in Nat : pending = user[u].pendingWom /\ debt = user[u].rewardDebt
  BY <1>2 DEF StakeType
<1>4. PICK s \in StakeType : s = [amount |-> 0, factor |-> 0, rewardDebt |-> 0,
                                  pendingWom |-> pending]
  BY DEF StakeType
<1>5. /\ user' = [user EXCEPT ![u] = s] /\ TotalsFollow(p, u, 0, 0)
      /\ moves' = moves + 1 /\ UNCHANGED <<veBalance, drained, womHeld>>
  BY <1>1, <1>3, <1>4 DEF EmergencyWithdraw, CountMove
<1>6. PICK zero \in Nat, one \in Nat : zero = 0 /\ one = 1
  OBVIOUS
<1>7. StakeMoves(u, p, s, zero, zero)
  <2>1. Boost(0, veBalance'[u]) = 0
    BY <1>5, NoFactor DEF WInv, MInv
  <2> QED BY <1>2, <1>4, <1>5, <1>6, <2>1 DEF StakeMoves, TotalsFollow
<1>8. Exact(p, s) + ACC_TOKEN_PRECISION * zero <= Exact(p, user[u]) + ACC_TOKEN_PRECISION * one
  <2>1. PICK x \in Nat, d \in Nat : x = Raw(p, user[u]) /\ d = WomDebt(p, user[u])
                                    /\ ACC_TOKEN_PRECISION * d <= x
    BY <1>2, RawFacts
  <2>2. PICK a \in Nat, b \in Nat : a = ACC_TOKEN_PRECISION * pending /\ b = ACC_TOKEN_PRECISION * debt
    BY <1>2, ProductMonotone
  <2>3. b <= x
    <3>1. ACC_TOKEN_PRECISION * debt <= ACC_TOKEN_PRECISION * d /\ ACC_TOKEN_PRECISION * d \in Nat
      BY <1>2, <1>3, <2>1, ProductMonotone
    <3> QED BY <2>1, <2>2, <3>1
  <2>4. Exact(p, user[u]) = x + a - b
    BY <1>3, <2>1, <2>2 DEF Exact
  <2>5. Raw(p, s) = 0 /\ ACC_TOKEN_PRECISION * 0 = 0
    <3>1. p.accWomPerShare \in Nat /\ p.accWomPerFactorShare \in Nat
      BY <1>2 DEF PoolType
    <3>2. 0 * p.accWomPerShare + 0 * p.accWomPerFactorShare = 0
      BY <3>1
    <3> QED BY <1>2, <1>4, <3>2 DEF Raw
  <2>6. Exact(p, s) = a
    BY <1>4, <2>2, <2>5 DEF Exact
  <2>7. ACC_TOKEN_PRECISION * zero = 0 /\ ACC_TOKEN_PRECISION * one = ACC_TOKEN_PRECISION
    BY <1>2, <1>6
  <2> QED BY <1>2, <2>3, <2>4, <2>6, <2>7
<1>9. CoveredBy(p, zero) /\ moves' = moves + one
  BY <1>1, <1>5, <1>6
<1> QED BY <1>1, <1>7, <1>8, <1>9, StakeMoveFunds

LEMMA UpdateFactorFunds ==
  ASSUME WInv, FundsInv, NEW u \in Users, NEW b \in Nat, NEW w \in Nat, UpdateFactor(u, b, w)
  PROVE  FundsInv'
<1>1. PICK a \in Nat, f \in Nat : a = user[u].amount /\ f = user[u].factor
  BY DEF WInv, MInv, StakeType
<1>2. /\ user \in [Users -> StakeType] /\ veBalance \in [Users -> Nat]
      /\ womHeld \in Nat /\ lpHeld \in Nat /\ moves \in Nat
      /\ ACC_TOKEN_PRECISION \in Nat
  BY RewarderAssumption DEF WInv, MInv, FundsInv
<1>3. /\ veBalance' = [veBalance EXCEPT ![u] = b] /\ moves' = moves + 1 /\ drained' = drained
  BY DEF UpdateFactor, CountMove
<1>4. /\ veBalance'[u] = b
      /\ \A v \in Users \ {u} : veBalance'[v] = veBalance[v]
  BY <1>2, <1>3
<1>5. PICK one \in {0, 1} : one = 1
  OBVIOUS
<1>6. CASE a = 0
  <2>1. UNCHANGED <<pool, user, lpHeld, womHeld>>
    BY <1>1, <1>6 DEF UpdateFactor, poolVars
  <2>2. f = 0
    <3>1. f = Boost(0, veBalance[u])
      BY <1>1, <1>6 DEF FundsInv, BoostsFresh
    <3> QED BY <1>2, <3>1, NoFactor
  <2>3. PICK p : p = pool /\ Ahead(p) /\ CoveredBy(p, 0)
    BY PoolAhead, PoolCoversItself
  <2>4. PICK zero \in Nat : zero = 0
    OBVIOUS
  <2>5. PICK s \in StakeType : s = user[u]
    BY <1>2
  <2>6. pool' = [p EXCEPT !.sumOfFactors = @ + f - f]
    <3>1. p \in PoolType
      BY <2>3 DEF Ahead, InOrder
    <3>2. PICK sum \in Nat : sum = p.sumOfFactors
      BY <3>1 DEF PoolType
    <3>3. sum + f - f = sum
      OBVIOUS
    <3>4. p = [p EXCEPT !.sumOfFactors = sum]
      BY <3>1, <3>2 DEF PoolType
    <3> QED BY <2>1, <2>3, <3>2, <3>3, <3>4
  <2>7. user' = [user EXCEPT ![u] = s] /\ lpHeld' = lpHeld + a - a /\ womHeld' = womHeld + zero - zero
    BY <1>2, <2>1, <2>4, <2>5
  <2>8. f = Boost(a, veBalance'[u])
    BY <1>4, <1>6, <2>2, NoFactor
  <2>9. StakeMoves(u, p, s, zero, zero)
    BY <1>1, <1>3, <1>4, <2>5, <2>6, <2>7, <2>8 DEF StakeMoves
  <2>10. Exact(p, s) + ACC_TOKEN_PRECISION * zero <= Exact(p, user[u]) + ACC_TOKEN_PRECISION * one
    <3>1. PICK x \in Int : x = Exact(p, s)
      BY <2>3, ExactFacts DEF Ahead, InOrder
    <3>2. ACC_TOKEN_PRECISION * zero = 0 /\ ACC_TOKEN_PRECISION * one = ACC_TOKEN_PRECISION
      BY <1>2, <1>5, <2>4
    <3> QED BY <1>2, <2>5, <3>1, <3>2
  <2>11. CoveredBy(p, zero) /\ one \in Nat /\ moves' = moves + one
    BY <1>3, <1>5, <2>3, <2>4
  <2> QED BY <2>3, <2>9, <2>10, <2>11, StakeMoveFunds
<1>7. CASE a # 0
  <2>1. PICK p : p = UpdatedPool(w) /\ Ahead(p) /\ CoveredBy(p, w)
    BY <1>1, <1>7, UpdatedPoolFunds DEF UpdateFactor
  <2>2. PICK factor \in Nat : factor = Boost(a, b)
    BY BoostNat
  <2>3. PICK d \in Nat : d = Debt(a, p.accWomPerShare, factor, p.accWomPerFactorShare)
    BY <2>1, DebtNat DEF Ahead, InOrder, PoolType
  <2>4. PICK owed \in Nat : owed = Owed(p, user[u])
    BY <2>1, OwedGrows
  <2>5. PICK s \in StakeType : s = [amount |-> a, factor |-> factor,
                                    rewardDebt |-> d, pendingWom |-> owed]
    BY DEF StakeType
  <2>6. PICK zero \in Nat : zero = 0
    OBVIOUS
  <2>7. /\ user' = [user EXCEPT ![u] = s] /\ TotalsFollow(p, u, a, factor)
        /\ womHeld' = womHeld + w
    BY <1>1, <1>7, <2>1, <2>2, <2>3, <2>4, <2>5 DEF UpdateFactor
  <2>8. StakeMoves(u, p, s, w, zero)
    BY <1>2, <1>3, <1>4, <2>2, <2>5, <2>6, <2>7 DEF StakeMoves, TotalsFollow
  <2>9. s.rewardDebt = WomDebt(p, s) /\ zero + s.pendingWom = Owed(p, user[u])
    BY <2>3, <2>4, <2>5, <2>6 DEF WomDebt
  <2>10. moves' = moves + one
    BY <1>3, <1>5
  <2> QED BY <1>5, <2>1, <2>8, <2>9, <2>10, SettleFunds
<1> QED BY <1>6, <1>7

LEMMA StakerStepFunds ==
  ASSUME WInv, FundsInv, NEW w \in Nat, StakerStep(w)
  PROVE  FundsInv'
<1>1. PICK u \in Users :
        \/ \E n \in Stakes : Deposit(u, n, w) \/ Withdraw(u, n, w)
        \/ Harvest(u, w)
        \/ MultiClaim(u, w)
        \/ Migrate(u, w)
        \/ \E b \in VeBalances : UpdateFactor(u, b, w)
  BY DEF StakerStep
<1>2. PICK a \in Nat : a = user[u].amount
  BY DEF WInv, MInv, StakeType
<1>3. PICK zero \in {0, 1}, one \in {0, 1} : zero = 0 /\ one = 1
  OBVIOUS
<1>4. ASSUME NEW n \in Stakes, Deposit(u, n, w) PROVE FundsInv'
  <2>1. PICK amount \in Nat : amount = a + n
    BY MasterWombatAssumption
  <2>2. /\ UpdateUserAmount(u, amount, w) /\ UNCHANGED <<veBalance, drained>>
        /\ moves' = moves + one
    BY <1>2, <1>3, <1>4, <2>1 DEF Deposit, CountMove
  <2> QED BY <1>3, <2>2, UpdateUserAmountFunds
<1>5. ASSUME NEW n \in Stakes, Withdraw(u, n, w) PROVE FundsInv'
  <2>1. PICK amount \in Nat : amount = a - n
    BY <1>2, <1>5, MasterWombatAssumption DEF Withdraw
  <2>2. /\ UpdateUserAmount(u, amount, w) /\ UNCHANGED <<veBalance, drained>>
        /\ moves' = moves + one
    BY <1>2, <1>3, <1>5, <2>1 DEF Withdraw, CountMove
  <2> QED BY <1>3, <2>2, UpdateUserAmountFunds
<1>6. CASE Harvest(u, w)
  <2>1. /\ UpdateUserAmount(u, a, w) /\ UNCHANGED <<veBalance, drained>>
        /\ moves' = moves + zero
    <3>1. moves' = moves /\ moves \in Nat
      BY <1>6 DEF Harvest, FundsInv
    <3> QED BY <1>2, <1>3, <1>6, <3>1 DEF Harvest
  <2> QED BY <1>2, <2>1, UpdateUserAmountFunds
<1>7. ASSUME NEW b \in VeBalances, UpdateFactor(u, b, w) PROVE FundsInv'
  <2>1. b \in Nat
    BY MasterWombatAssumption
  <2> QED BY <1>7, <2>1, UpdateFactorFunds
<1> QED BY <1>1, <1>4, <1>5, <1>6, <1>7, MultiClaimFunds, MigrateFunds

\* Steps that leave the stakes, the pool and the WOM alone.
LEMMA SameFunds ==
  ASSUME WInv, FundsInv, UNCHANGED <<pool, user, lpHeld, womHeld, veBalance, moves, drained>>
  PROVE  FundsInv'
BY DEF FundsInv, BoostsFresh, Liability, ExactOf, LeftoverOf, Exact, Raw

LEMMA StepFunds ==
  ASSUME WInv, FundsInv, [Next]_vars
  PROVE  FundsInv'
<1>1. ASSUME NEW w \in {0} \cup Payments,
             \/ StakerStep(w)
             \/ UpdatePool(w)
             \/ \E b \in BasePartitions : UpdateEmissionPartition(b, w)
      PROVE  FundsInv'
  <2>1. w \in Nat
    BY MasterWombatAssumption
  <2>2. CASE StakerStep(w)
    BY <2>1, <2>2, StakerStepFunds
  <2>3. CASE UpdatePool(w) \/ \E b \in BasePartitions : UpdateEmissionPartition(b, w)
    <3>1. /\ VoterPays(w) /\ pool' = UpdatedPool(w) /\ womHeld' = womHeld + w
          /\ UNCHANGED <<user, lpHeld, veBalance, moves, drained>>
      BY <2>3 DEF UpdatePool, UpdateEmissionPartition
    <3>2. PICK p : p = UpdatedPool(w) /\ Ahead(p) /\ CoveredBy(p, w)
      BY <2>1, <3>1, UpdatedPoolFunds
    <3> QED BY <2>1, <3>1, <3>2, PoolMoveFunds
  <2> QED BY <1>1, <2>2, <2>3
<1>2. ASSUME NEW u \in Users, EmergencyWithdraw(u)
      PROVE  FundsInv'
  BY <1>2, StakerEmergencyWithdrawFunds
<1>3. CASE \/ \E name \in {"paused", "voter", "newMasterWombat"} : Switch(name)
           \/ SetBoostedRewarder
           \/ RewarderStep
           \/ Elapse
           \/ UNCHANGED vars
  <2>1. UNCHANGED <<pool, user, lpHeld, womHeld, veBalance, moves, drained>>
    BY <1>3 DEF Switch, SetBoostedRewarder, RewarderStep, Elapse, poolVars, vars
  <2> QED BY <2>1, SameFunds
<1>4. CASE EmergencyWomWithdraw
  <2>1. drained' /\ UNCHANGED <<pool, user, lpHeld, veBalance, moves>>
    BY <1>4 DEF EmergencyWomWithdraw
  <2> QED BY <2>1 DEF FundsInv, BoostsFresh
<1> QED BY <1>1, <1>2, <1>3, <1>4 DEF Next

LEMMA InitFunds == Init => FundsInv
<1> SUFFICES ASSUME Init PROVE FundsInv
  OBVIOUS
<1>1. /\ user = [u \in Users |-> NoStake] /\ veBalance = [u \in Users |-> 0]
      /\ lpHeld = 0 /\ womHeld = 0 /\ moves = 0 /\ pool.sumOfFactors = 0
      /\ pool.accWomPerShare = 0 /\ pool.accWomPerFactorShare = 0 /\ pool.rewardRate = 0
      /\ pool.periodFinish = 0 /\ pool.lastRewardTimestamp = 0
      /\ IsFiniteSet(Users) /\ ACC_TOKEN_PRECISION \in Nat
  BY RewarderAssumption DEF Init
<1>2. \A u \in Users : user[u].factor = Boost(user[u].amount, veBalance[u])
  BY <1>1, NoFactor DEF NoStake
<1>3. SumOver([u \in Users |-> user[u].factor], Users) = 0
  <2>1. \A u \in Users : [v \in Users |-> user[v].factor][u] = 0
    BY <1>1 DEF NoStake
  <2> QED BY <1>1, <2>1, SumZero
<1>4. SumOver([u \in Users |-> user[u].amount], Users) = 0
  <2>1. \A u \in Users : [v \in Users |-> user[v].amount][u] = 0
    BY <1>1 DEF NoStake
  <2> QED BY <1>1, <2>1, SumZero
<1>5. Liability(pool) = 0
  <2>1. \A u \in Users : ExactOf(pool)[u] = 0
    <3>1. 0 * 0 + 0 * 0 = 0 /\ ACC_TOKEN_PRECISION * 0 = 0
      BY <1>1
    <3> QED BY <1>1, <3>1 DEF ExactOf, Exact, Raw, NoStake
  <2>2. SumOver(ExactOf(pool), Users) = 0
    BY <1>1, <2>1, SumZero
  <2>3. LeftoverOf(pool) = 0
    BY <1>1 DEF LeftoverOf
  <2> QED BY <1>1, <2>2, <2>3 DEF Liability
<1>6. Liability(pool) <= ACC_TOKEN_PRECISION * (womHeld + moves)
  BY <1>1, <1>5
<1> QED BY <1>1, <1>2, <1>3, <1>4, <1>6 DEF FundsInv, BoostsFresh

\* Divided by the precision, what is owed only gets smaller.
LEMMA FundsCoverOwed ==
  ASSUME WInv, FundsInv
  PROVE  RewardsFunded
<1>1. /\ InOrder(pool) /\ pool \in PoolType /\ user \in [Users -> StakeType]
      /\ IsFiniteSet(Users) /\ ACC_TOKEN_PRECISION \in Nat \ {0}
      /\ womHeld + moves \in Nat
  BY RewarderAssumption DEF WInv, MInv, InOrder, FundsInv
<1> DEFINE owed == [u \in Users |-> Owed(pool, user[u])]
           scaled == [u \in Users |-> ACC_TOKEN_PRECISION * owed[u]]
           exact == ExactOf(pool)
<1>2. \A u \in Users : /\ owed[u] \in Nat
                       /\ scaled[u] = ACC_TOKEN_PRECISION * owed[u] /\ scaled[u] \in Int
                       /\ exact[u] \in Int /\ scaled[u] <= exact[u]
  <2> TAKE u \in Users
  <2>1. Owed(pool, user[u]) \in Nat
    BY PoolAhead, OwedGrows
  <2>2. /\ Exact(pool, user[u]) \in Int
        /\ ACC_TOKEN_PRECISION * Owed(pool, user[u]) <= Exact(pool, user[u])
    BY <1>1, ExactFacts
  <2>3. ACC_TOKEN_PRECISION * Owed(pool, user[u]) \in Nat
    BY <1>1, <2>1, ProductMonotone
  <2> QED BY <2>1, <2>2, <2>3 DEF ExactOf
<1> HIDE DEF owed, scaled, exact
<1>3. PICK total \in Nat : total = SumOver(owed, Users)
  BY <1>1, <1>2, SumNat
<1>4. SumOver(scaled, Users) = ACC_TOKEN_PRECISION * total
  <2>1. \A u \in Users : owed[u] \in Int /\ scaled[u] = ACC_TOKEN_PRECISION * owed[u]
    BY <1>2
  <2>2. SumOver(scaled, Users) = ACC_TOKEN_PRECISION * SumOver(owed, Users)
    BY <1>1, <2>1, SumScale
  <2> QED BY <1>3, <2>2
<1>5. SumOver(scaled, Users) <= SumOver(exact, Users)
  <2>1. \A u \in Users : scaled[u] \in Int /\ exact[u] \in Int /\ scaled[u] <= exact[u]
    BY <1>2
  <2> QED BY <1>1, <2>1, SumLe
<1>6. PICK left \in Nat : left = Leftover /\ left = LeftoverOf(pool)
  BY <1>1, LiabilityType DEF Leftover, LeftoverOf
<1>7. ASSUME ~drained
      PROVE  total + left <= womHeld + moves
  <2>1. PICK n \in Nat : n = womHeld + moves
    BY <1>1
  <2>2. PICK sum \in Int : sum = SumOver(exact, Users)
    BY <1>1, LiabilityType DEF exact
  <2>3. sum + ACC_TOKEN_PRECISION * left <= ACC_TOKEN_PRECISION * n
    BY <1>6, <1>7, <2>1, <2>2 DEF FundsInv, Liability, exact
  <2>4. ACC_TOKEN_PRECISION * (total + left) = ACC_TOKEN_PRECISION * total + ACC_TOKEN_PRECISION * left
    BY <1>1
  <2>5. PICK a \in Nat, b \in Nat, c \in Nat :
          /\ a = ACC_TOKEN_PRECISION * total /\ b = ACC_TOKEN_PRECISION * left
          /\ c = ACC_TOKEN_PRECISION * n
    BY <1>1, ProductMonotone
  <2>6. ACC_TOKEN_PRECISION * (total + left) <= ACC_TOKEN_PRECISION * n
    BY <1>4, <1>5, <2>2, <2>3, <2>4, <2>5
  <2>7. total + left \in Nat
    OBVIOUS
  <2> QED BY <1>1, <2>1, <2>6, <2>7, CancelFactor
<1> QED BY <1>3, <1>6, <1>7 DEF RewardsFunded, owed

THEOREM FundsInvariance == Spec => [](WInv /\ FundsInv)
<1>1. Init => WInv /\ FundsInv
  BY MInit, InitFunds
<1>2. WInv /\ FundsInv /\ [Next]_vars => (WInv /\ FundsInv)'
  BY StepKeeps, StepFunds
<1> QED BY <1>1, <1>2, PTL DEF Spec

\* The totals are those of the users, and every factor is the one of the
\* present stake and veWOM, although veWOM changes in another contract
\* (updateFactor, BoostedMasterWombat.sol:585).
THEOREM BoostsStayFresh == Spec => []BoostsFresh
<1>1. FundsInv => BoostsFresh
  BY DEF FundsInv
<1> QED BY <1>1, FundsInvariance, PTL

\* The contract holds the WOM that it owes its users and the rest of the
\* period, up to one unit for each change of a stake or a factor, whatever the
\* order of payments, claims and changes (BoostedMasterWombat.sol:515).
THEOREM RewardsStayFunded == Spec => []RewardsFunded
<1>1. WInv /\ FundsInv => RewardsFunded
  BY FundsCoverOwed
<1> QED BY <1>1, FundsInvariance, PTL
-----------------------------------------------------------------------------
(* What the shares of the rewarder have earned, and what it distributed.   *)

\* The stake t before rounding, at the accumulators of i.
Whole(i, t) == t.amount * i.acc + t.factor * i.accFactor

\* The share s knows the stake t, or its factor alone, or nothing.
Copy(s, t) ==
  \/ s.amount = t.amount /\ s.factor = t.factor
  \/ s.amount = 0 /\ s.factor \in {0, t.factor}

\* What rounding down takes away.
Fraction(x) == x % ACC_TOKEN_PRECISION

\* After an emergency claim and updateFactor.
FactorAlone(s) == s.amount = 0 /\ s.factor > 0

\* What the share s of the stake t has earned and not received, before
\* rounding, in units of 1 / ACC_TOKEN_PRECISION.  The part of the stake that
\* the rewarder does not know counts with its fraction of a unit, which
\* registering it again may round away.
Part(i, s, t) ==
  ACC_TOKEN_PRECISION * s.unpaid +
    IF FactorAlone(s)
    THEN s.factor * i.accFactor - ACC_TOKEN_PRECISION * s.debt
           + Fraction(t.amount * i.acc)
    ELSE IF s.debt > 0 THEN Whole(i, s) - ACC_TOKEN_PRECISION * s.debt
    ELSE Fraction(Whole(i, t))

\* A well-formed share of the stake t at the accumulators of i.
ShareOK(i, s, t) ==
  /\ i \in InfoType /\ i.acc >= ACC_TOKEN_PRECISION
  /\ s \in ShareType /\ t \in StakeType
  /\ Copy(s, t)
  /\ s.debt <= Earned(i, s)
  /\ s.amount > 0 /\ s.debt = 0 => s.unpaid = 0

LEMMA DivMod ==
  ASSUME NEW x \in Nat
  PROVE  /\ x \div ACC_TOKEN_PRECISION \in Nat /\ Fraction(x) \in Nat
         /\ x = ACC_TOKEN_PRECISION * (x \div ACC_TOKEN_PRECISION) + Fraction(x)
         /\ ACC_TOKEN_PRECISION * (x \div ACC_TOKEN_PRECISION) \in Nat
         /\ Fraction(x) < ACC_TOKEN_PRECISION
<1>1. PICK k \in Nat \ {0} : k = ACC_TOKEN_PRECISION
  BY RewarderAssumption
<1>2. PICK q : q = x \div k
  OBVIOUS
<1>3. q \in Nat /\ x % k \in Nat /\ x % k < k /\ x = k * q + (x % k)
  BY <1>2
<1>4. k * q \in Nat
  BY <1>3, ProductMonotone
<1> QED BY <1>1, <1>2, <1>3, <1>4 DEF Fraction

\* The fraction of a sum is at most the sum of one fraction and the rest.
LEMMA ModAdd ==
  ASSUME NEW x \in Nat, NEW d \in Nat
  PROVE  Fraction(x + d) <= Fraction(x) + d
<1>1. ACC_TOKEN_PRECISION \in Nat \ {0}
  BY RewarderAssumption
<1>2. PICK k \in Nat \ {0} : k = ACC_TOKEN_PRECISION
  BY <1>1
<1>3. PICK q \in Nat, r \in Nat : x = k * q + r /\ r = Fraction(x) /\ r < k /\ k * q \in Nat
  BY <1>2, DivMod
<1>4. PICK q2 \in Nat, r2 \in Nat : x + d = k * q2 + r2 /\ r2 = Fraction(x + d) /\ r2 < k /\ k * q2 \in Nat
  <2>1. PICK y \in Nat : y = x + d
    OBVIOUS
  <2>2. PICK q2 \in Nat, r2 \in Nat : y = k * q2 + r2 /\ r2 = Fraction(y) /\ r2 < k /\ k * q2 \in Nat
    BY <1>2, DivMod
  <2> QED BY <2>1, <2>2
<1>5. q <= q2
  <2>1. ASSUME q2 + 1 <= q PROVE FALSE
    <3>1. k * (q2 + 1) <= k * q
      BY <2>1, ProductMonotone
    <3>2. k * (q2 + 1) = k * q2 + k
      OBVIOUS
    <3> QED BY <1>3, <1>4, <3>1, <3>2
  <2> QED BY <2>1
<1>6. PICK a \in Nat, b \in Nat : a = k * q /\ b = k * q2 /\ a <= b
  BY <1>5, ProductMonotone
<1>7. PICK f \in Nat : f = Fraction(x + d)
  BY <1>4
<1>8. x = a + r /\ x + d = b + f /\ r = Fraction(x)
  BY <1>3, <1>4, <1>6, <1>7
<1> QED BY <1>6, <1>7, <1>8

LEMMA WholeFacts ==
  ASSUME NEW i \in InfoType, NEW a \in Nat, NEW f \in Nat, NEW t, t.amount = a, t.factor = f
  PROVE  /\ a * i.acc \in Nat /\ f * i.accFactor \in Nat
         /\ Whole(i, t) = a * i.acc + f * i.accFactor
         /\ Whole(i, t) \in Nat
         /\ Debt(a, i.acc, f, i.accFactor) = Whole(i, t) \div ACC_TOKEN_PRECISION
<1>1. i.acc \in Nat /\ i.accFactor \in Nat
  BY DEF InfoType
<1>2. a * i.acc \in Nat /\ f * i.accFactor \in Nat
  BY <1>1, ProductMonotone
<1>3. Whole(i, t) = a * i.acc + f * i.accFactor
  BY DEF Whole
<1> QED BY <1>2, <1>3 DEF Debt

\* The part of a share covers what a claim pays, and what it leaves behind
\* when the share is settled for the same stake.
LEMMA PartCovers ==
  ASSUME NEW i, NEW s, NEW t, ShareOK(i, s, t)
  PROVE  /\ PendingReward(i, s) \in Nat
         /\ Part(i, s, t) \in Int
         /\ ACC_TOKEN_PRECISION * s.unpaid <= Part(i, s, t)
         /\ ACC_TOKEN_PRECISION * PendingReward(i, s) <= Part(i, s, t)
         /\ ACC_TOKEN_PRECISION * PendingReward(i, s) + Fraction(Whole(i, t))
              <= Part(i, s, t)
<1> USE DEF ShareOK
<1>1. PICK k \in Nat \ {0} : k = ACC_TOKEN_PRECISION
  BY RewarderAssumption
<1>2. PICK a \in Nat, f \in Nat, debt \in Nat, unpaid \in Nat :
        a = s.amount /\ f = s.factor /\ debt = s.debt /\ unpaid = s.unpaid
  BY DEF ShareType
<1>3. PICK ta \in Nat, tf \in Nat : ta = t.amount /\ tf = t.factor
  BY DEF StakeType
<1>4. PICK x \in Nat, y \in Nat, w \in Nat :
        /\ x = ta * i.acc /\ y = tf * i.accFactor /\ w = Whole(i, t) /\ w = x + y
  BY <1>3, WholeFacts
<1>5. PICK z \in Nat, v \in Nat, g \in Nat :
        /\ v = a * i.acc /\ g = f * i.accFactor /\ z = Whole(i, s) /\ z = v + g
        /\ Earned(i, s) = z \div k
  BY <1>1, <1>2, WholeFacts DEF Earned
<1>6. PICK q \in Nat, r \in Nat, kq \in Nat :
        q = z \div k /\ r = Fraction(z) /\ kq = k * q /\ z = kq + r /\ r < k
  BY <1>1, DivMod
<1>7. w = x + y /\ z = v + g /\ z = kq + r
  BY <1>4, <1>5, <1>6
<1>8. PICK rest \in Nat : rest = Fraction(w) /\ rest < k
  BY <1>1, DivMod
<1>9. debt <= q
  BY <1>2, <1>5, <1>6
<1>10. PICK kd \in Nat, ku \in Nat : kd = k * debt /\ ku = k * unpaid
  BY ProductMonotone
<1>11. (debt = 0 => kd = 0) /\ (unpaid = 0 => ku = 0)
  <2>1. k * 0 = 0
    OBVIOUS
  <2> QED BY <1>10, <2>1
<1>12. kd <= kq
  BY <1>6, <1>9, <1>10, ProductMonotone
<1>13. PICK pending \in Nat : pending = PendingReward(i, s)
           /\ pending = IF debt > 0 \/ unpaid > 0 THEN q + unpaid - debt ELSE 0
  <2>1. PendingReward(i, s) = IF debt > 0 \/ unpaid > 0 THEN q + unpaid - debt ELSE 0
    BY <1>2, <1>5, <1>6 DEF PendingReward, Earned
  <2> QED BY <1>9, <2>1
<1>14. PICK kp \in Nat : kp = k * pending
           /\ kp = IF debt > 0 \/ unpaid > 0 THEN kq + ku - kd ELSE 0
  <2>1. k * (q + unpaid - debt) = k * q + k * unpaid - k * debt
    OBVIOUS
  <2>2. k * 0 = 0
    OBVIOUS
  <2>3. k * pending \in Nat
    BY ProductMonotone
  <2> QED BY <1>6, <1>10, <1>13, <2>1, <2>2, <2>3
<1>15. kp = IF debt > 0 \/ unpaid > 0 THEN kq + ku - kd ELSE 0
  BY <1>14
<1>16. PICK part : part = Part(i, s, t)
  OBVIOUS
<1>17. PICK rx \in Nat : rx = Fraction(x)
  BY <1>1, DivMod
<1>18. part = ku + IF a = 0 /\ f > 0 THEN g - kd + rx
                   ELSE IF debt > 0 THEN z - kd ELSE rest
  BY <1>1, <1>2, <1>3, <1>4, <1>5, <1>8, <1>10, <1>16, <1>17 DEF Part, FactorAlone
<1>19. a = 0 => v = 0
  <2>1. i.acc \in Nat
    BY DEF InfoType
  <2> QED BY <1>5, <2>1
<1>20. a = 0 /\ f = 0 => z = 0 /\ q = 0 /\ kq = 0
  <2>1. ASSUME a = 0, f = 0 PROVE z = 0 /\ q = 0 /\ kq = 0
    <3>1. i.accFactor \in Nat
      BY DEF InfoType
    <3>2. z = 0
      BY <1>5, <1>19, <2>1, <3>1
    <3>3. 0 \div k = 0 /\ k * 0 = 0
      OBVIOUS
    <3> QED BY <1>6, <3>2, <3>3
  <2> QED BY <2>1
<1>21. CASE a = 0 /\ f > 0
  <2>1. part = ku + (g - kd + rx) /\ z = g
    BY <1>5, <1>18, <1>19, <1>21
  <2>2. rest <= r + rx
    <3>1. f = tf /\ g = y
      BY <1>2, <1>3, <1>4, <1>5, <1>21 DEF Copy
    <3>2. w = (r + kq) + x
      BY <1>7, <2>1, <3>1
    <3>3. Fraction(w) <= r + rx
      <4>1. PICK b \in Nat, kb \in Nat : x = kb + rx /\ kb = k * b
        BY <1>1, <1>17, DivMod
      <4>2. PICK n \in Nat : n = q + b
        OBVIOUS
      <4>3. PICK kn \in Nat : kn = k * n /\ kn = kq + kb
        <5>1. k * n = k * q + k * b
          BY <4>2
        <5> QED BY <1>6, <4>1, <5>1
      <4>4. w = kn + (r + rx)
        BY <3>2, <4>1, <4>3
      <4>5. PICK n2 \in Nat, kn2 \in Nat : w = kn2 + rest /\ kn2 = k * n2
        BY <1>1, <1>8, DivMod
      <4>6. n <= n2
        <5>1. ASSUME n2 + 1 <= n PROVE FALSE
          <6>1. k * (n2 + 1) <= k * n
            BY <5>1, ProductMonotone
          <6>2. k * (n2 + 1) = k * n2 + k
            OBVIOUS
          <6>3. kn2 + k <= kn
            BY <4>3, <4>5, <6>1, <6>2
          <6> QED BY <1>8, <4>4, <4>5, <6>3
        <5> QED BY <5>1
      <4>7. kn <= kn2
        BY <4>3, <4>5, <4>6, ProductMonotone
      <4> QED BY <1>8, <4>4, <4>5, <4>7
    <3> QED BY <1>8, <3>3
  <2>3. kp + rest <= part /\ ku <= part /\ part \in Int
    <3>1. CASE debt > 0 \/ unpaid > 0
      BY <1>12, <1>7, <1>15, <2>1, <2>2, <3>1
    <3>2. CASE ~(debt > 0 \/ unpaid > 0)
      <4>1. kp = 0 /\ kd = 0 /\ ku = 0
        BY <1>11, <1>15, <3>2
      <4> QED BY <1>12, <1>7, <2>1, <2>2, <4>1
    <3> QED BY <3>1, <3>2
  <2> QED BY <1>1, <1>2, <1>4, <1>8, <1>10, <1>13, <1>14, <1>16, <2>3
<1>22. CASE ~(a = 0 /\ f > 0) /\ debt > 0
  <2>1. part = ku + (z - kd)
    BY <1>18, <1>22
  <2>2. rest = r
    <3>1. a = ta /\ f = tf
      BY <1>2, <1>3, <1>9, <1>20, <1>22 DEF Copy
    <3> QED BY <1>4, <1>5, <1>6, <1>8, <3>1
  <2>3. kp + rest <= part /\ ku <= part /\ part \in Int
    BY <1>12, <1>7, <1>15, <1>22, <2>1, <2>2
  <2> QED BY <1>1, <1>2, <1>4, <1>8, <1>10, <1>13, <1>14, <1>16, <2>3
<1>23. CASE ~(a = 0 /\ f > 0) /\ debt = 0
  <2>1. part = ku + rest
    BY <1>18, <1>23
  <2>2. kp <= ku
    <3>1. CASE unpaid = 0
      BY <1>11, <1>15, <1>23, <3>1
    <3>2. CASE unpaid > 0
      <4>1. a = 0 /\ f = 0
        BY <1>2, <1>23, <3>2
      <4> QED BY <1>20, <1>23, <1>11, <1>15, <3>2, <4>1
    <3> QED BY <3>1, <3>2
  <2>3. kp + rest <= part /\ ku <= part /\ part \in Int
    BY <2>1, <2>2
  <2> QED BY <1>1, <1>2, <1>4, <1>8, <1>10, <1>13, <1>14, <1>16, <2>3
<1> QED BY <1>21, <1>22, <1>23

\* The part of a share grows by no more than its stake's share of the growth.
LEMMA PartGrows ==
  ASSUME NEW i, NEW s, NEW t, ShareOK(i, s, t), NEW i2 \in InfoType,
         NEW da \in Nat, NEW df \in Nat,
         i2.acc = i.acc + da, i2.accFactor = i.accFactor + df
  PROVE  /\ ShareOK(i2, s, t)
         /\ Part(i2, s, t) <= Part(i, s, t) + (da * t.amount + df * t.factor)
<1> USE DEF ShareOK
<1>1. PICK k \in Nat \ {0} : k = ACC_TOKEN_PRECISION
  BY RewarderAssumption
<1>2. PICK a \in Nat, f \in Nat, debt \in Nat, unpaid \in Nat :
        a = s.amount /\ f = s.factor /\ debt = s.debt /\ unpaid = s.unpaid
  BY DEF ShareType
<1>3. PICK ta \in Nat, tf \in Nat : ta = t.amount /\ tf = t.factor
  BY DEF StakeType
<1>4. PICK acc \in Nat, accF \in Nat : acc = i.acc /\ accF = i.accFactor
  BY DEF InfoType
<1>5. ShareOK(i2, s, t)
  <2>1. Debt(a, acc, f, accF) <= Debt(a, acc + da, f, accF + df)
        /\ Debt(a, acc, f, accF) \in Nat /\ Debt(a, acc + da, f, accF + df) \in Nat
    <3>1. acc <= acc + da /\ accF <= accF + df /\ acc + da \in Nat /\ accF + df \in Nat
      OBVIOUS
    <3> QED BY <3>1, DebtMonotone, DebtNat
  <2>2. s.debt <= Earned(i2, s)
    BY <1>2, <1>4, <2>1 DEF Earned
  <2>3. i2.acc >= ACC_TOKEN_PRECISION
    BY <1>1, <1>4
  <2> QED BY <2>2, <2>3
<1>6. PICK ku \in Nat, kd \in Nat : ku = k * unpaid /\ kd = k * debt
  BY ProductMonotone
<1>7. PICK ga \in Nat, gf \in Nat, gta \in Nat, gtf \in Nat :
        ga = da * a /\ gf = df * f /\ gta = da * ta /\ gtf = df * tf
  BY ProductMonotone
<1>8. PICK v \in Nat, g \in Nat, x \in Nat, y \in Nat :
        v = a * acc /\ g = f * accF /\ x = ta * acc /\ y = tf * accF
  BY ProductMonotone
<1>9. /\ a * i2.acc = v + ga /\ f * i2.accFactor = g + gf
      /\ ta * i2.acc = x + gta /\ tf * i2.accFactor = y + gtf
  <2>1. /\ a * (acc + da) = a * acc + da * a /\ f * (accF + df) = f * accF + df * f
        /\ ta * (acc + da) = ta * acc + da * ta /\ tf * (accF + df) = tf * accF + df * tf
    OBVIOUS
  <2> QED BY <1>4, <1>7, <1>8, <2>1
<1>10. PICK rx \in Nat, rx2 \in Nat : rx = Fraction(x) /\ rx2 = Fraction(x + gta) /\ rx2 <= rx + gta
  <2>1. PICK x2 \in Nat : x2 = x + gta
    OBVIOUS
  <2> QED BY <2>1, DivMod, ModAdd
<1>11. PICK rw \in Nat, rw2 \in Nat : /\ rw = Fraction(x + y)
                                      /\ rw2 = Fraction((x + y) + (gta + gtf))
                                      /\ rw2 <= rw + (gta + gtf)
  <2>1. PICK w \in Nat, gw \in Nat, w2 \in Nat : w = x + y /\ gw = gta + gtf /\ w2 = w + gw
    OBVIOUS
  <2> QED BY <2>1, DivMod, ModAdd
<1>12. /\ Whole(i, s) = v + g /\ Whole(i2, s) = (v + ga) + (g + gf)
       /\ Whole(i, t) = x + y /\ Whole(i2, t) = (x + gta) + (y + gtf)
  BY <1>2, <1>3, <1>4, <1>8, <1>9 DEF Whole
<1>13. (x + gta) + (y + gtf) = (x + y) + (gta + gtf)
  OBVIOUS
<1>14. Part(i, s, t) = ku + IF a = 0 /\ f > 0 THEN g - kd + rx
                            ELSE IF debt > 0 THEN (v + g) - kd ELSE rw
  BY <1>1, <1>2, <1>3, <1>4, <1>6, <1>8, <1>10, <1>11, <1>12 DEF Part, FactorAlone
<1>15. Part(i2, s, t) = ku + IF a = 0 /\ f > 0 THEN (g + gf) - kd + rx2
                             ELSE IF debt > 0 THEN (v + ga) + (g + gf) - kd ELSE rw2
  BY <1>1, <1>2, <1>3, <1>6, <1>9, <1>10, <1>11, <1>12, <1>13 DEF Part, FactorAlone
<1>16. da * t.amount + df * t.factor = gta + gtf
  BY <1>3, <1>7
<1>17. (a = 0 /\ f > 0 => gf = gtf) /\ (a # 0 => ga = gta /\ gf = gtf)
  BY <1>2, <1>3, <1>7 DEF Copy
<1>18. CASE a = 0 /\ f > 0
  BY <1>5, <1>10, <1>14, <1>15, <1>16, <1>17, <1>18
<1>19. CASE ~(a = 0 /\ f > 0) /\ debt > 0
  <2>1. a # 0
    <3>1. ASSUME a = 0 PROVE FALSE
      <4>1. f = 0
        BY <1>19, <3>1
      <4>2. v = 0 /\ g = 0
        BY <1>8, <3>1, <4>1
      <4>3. 0 \div k = 0
        OBVIOUS
      <4>4. Earned(i, s) = 0
        BY <1>1, <1>2, <1>4, <1>8, <4>2, <4>3 DEF Earned, Debt
      <4> QED BY <1>2, <1>19, <4>4
    <3> QED BY <3>1
  <2> QED BY <1>5, <1>14, <1>15, <1>16, <1>17, <1>19, <2>1
<1>20. CASE ~(a = 0 /\ f > 0) /\ debt = 0
  BY <1>5, <1>11, <1>14, <1>15, <1>16, <1>20
<1> QED BY <1>18, <1>19, <1>20

\* The share of the new stake t, settled, keeps less than a unit.
LEMMA PartSettled ==
  ASSUME NEW i \in InfoType, i.acc >= ACC_TOKEN_PRECISION, NEW t \in StakeType, NEW n \in Nat,
         NEW s, s = [amount |-> t.amount, factor |-> t.factor,
                     debt |-> Debt(t.amount, i.acc, t.factor, i.accFactor), unpaid |-> n]
  PROVE  /\ ShareOK(i, s, t)
         /\ Part(i, s, t) = ACC_TOKEN_PRECISION * n + Fraction(Whole(i, t))
<1>1. PICK k \in Nat \ {0} : k = ACC_TOKEN_PRECISION
  BY RewarderAssumption
<1>2. PICK a \in Nat, f \in Nat : a = t.amount /\ f = t.factor
  BY DEF StakeType
<1>3. PICK v \in Nat, g \in Nat, w \in Nat :
        /\ v = a * i.acc /\ g = f * i.accFactor /\ w = Whole(i, t) /\ w = v + g
        /\ Debt(a, i.acc, f, i.accFactor) = w \div k
  <2>1. /\ a * i.acc \in Nat /\ f * i.accFactor \in Nat
        /\ Whole(i, t) = a * i.acc + f * i.accFactor /\ Whole(i, t) \in Nat
        /\ Debt(a, i.acc, f, i.accFactor) = Whole(i, t) \div ACC_TOKEN_PRECISION
    BY <1>2, WholeFacts
  <2> QED BY <1>1, <2>1
<1>4. PICK q \in Nat, r \in Nat, kq \in Nat : q = w \div k /\ r = Fraction(w) /\ kq = k * q /\ w = kq + r
  BY <1>1, DivMod
<1>5. s.amount = a /\ s.factor = f /\ s.debt = q /\ s.unpaid = n
  BY <1>2, <1>3, <1>4
<1>6. s \in ShareType /\ s.debt = Earned(i, s) /\ (s.amount > 0 => s.debt > 0)
  BY <1>2, FreshShare
<1>7. ShareOK(i, s, t)
  BY <1>2, <1>5, <1>6 DEF ShareOK, Copy
<1>8. Whole(i, s) = w
  BY <1>2, <1>3, <1>5 DEF Whole
<1>9. PICK ku \in Nat : ku = k * n
  BY ProductMonotone
<1>10. PICK x \in Nat : x = Fraction(v)
  BY DivMod
<1>11. Part(i, s, t) = ku + IF a = 0 /\ f > 0 THEN g - kq + x
                            ELSE IF q > 0 THEN w - kq ELSE r
  BY <1>1, <1>2, <1>3, <1>4, <1>5, <1>8, <1>9, <1>10 DEF Part, FactorAlone
<1>12. a = 0 => v = 0 /\ x = 0
  <2>1. ASSUME a = 0 PROVE v = 0 /\ x = 0
    <3>1. i.acc \in Nat
      BY DEF InfoType
    <3>2. 0 % k = 0
      OBVIOUS
    <3>3. v = 0
      BY <1>3, <2>1, <3>1
    <3> QED BY <1>1, <1>10, <3>2, <3>3 DEF Fraction
  <2> QED BY <2>1
<1>13. w = v + g /\ w = kq + r
  BY <1>3, <1>4
<1>14. Part(i, s, t) = ku + r
  BY <1>11, <1>12, <1>13
<1>15. ku = ACC_TOKEN_PRECISION * n /\ r = Fraction(Whole(i, t))
  BY <1>1, <1>3, <1>4, <1>9
<1> QED BY <1>7, <1>14, <1>15

\* The share of which only n is left unpaid, while the stake stays.
LEMMA PartForgotten ==
  ASSUME NEW i \in InfoType, i.acc >= ACC_TOKEN_PRECISION, NEW t \in StakeType, NEW n \in Nat,
         NEW s, s = [amount |-> 0, factor |-> 0, debt |-> Debt(0, i.acc, 0, i.accFactor),
                     unpaid |-> n]
  PROVE  /\ ShareOK(i, s, t)
         /\ Part(i, s, t) = ACC_TOKEN_PRECISION * n + Fraction(Whole(i, t))
<1>1. PICK k \in Nat \ {0} : k = ACC_TOKEN_PRECISION
  BY RewarderAssumption
<1>2. Debt(0, i.acc, 0, i.accFactor) = 0
  <2>1. i.acc \in Nat /\ i.accFactor \in Nat
    BY DEF InfoType
  <2>2. 0 * i.acc + 0 * i.accFactor = 0
    BY <2>1
  <2>3. 0 \div k = 0
    OBVIOUS
  <2> QED BY <1>1, <2>2, <2>3 DEF Debt
<1>3. s \in ShareType /\ s.amount = 0 /\ s.factor = 0 /\ s.debt = 0 /\ s.unpaid = n
  BY <1>2 DEF ShareType
<1>4. Earned(i, s) = 0
  BY <1>2, <1>3 DEF Earned
<1>5. ShareOK(i, s, t)
  BY <1>3, <1>4 DEF ShareOK, Copy
<1>6. Part(i, s, t) = ACC_TOKEN_PRECISION * n + Fraction(Whole(i, t))
  BY <1>3 DEF Part, FactorAlone
<1> QED BY <1>5, <1>6

\* A share whose factor follows that of the stake, while the stake stays.
LEMMA PartRefactored ==
  ASSUME NEW i, NEW s, NEW t, ShareOK(i, s, t),
         NEW factor \in Nat, NEW t2 \in StakeType, t2.amount = t.amount, t2.factor = factor,
         NEW e, e = (IF s.debt > 0 THEN Earned(i, s) - s.debt ELSE 0),
         NEW s2, s2 = [amount |-> s.amount, factor |-> factor,
                       debt |-> Debt(s.amount, i.acc, factor, i.accFactor),
                       unpaid |-> s.unpaid + e]
  PROVE  /\ ShareOK(i, s2, t2)
         /\ Part(i, s2, t2) <= Part(i, s, t) + 2 * ACC_TOKEN_PRECISION
<1>1. PICK k \in Nat \ {0} : k = ACC_TOKEN_PRECISION
  BY RewarderAssumption
<1>2. i \in InfoType /\ i.acc >= ACC_TOKEN_PRECISION /\ s \in ShareType /\ t \in StakeType /\ Copy(s, t)
  BY DEF ShareOK
<1>3. PICK a \in Nat, debt \in Nat, unpaid \in Nat :
        a = s.amount /\ debt = s.debt /\ unpaid = s.unpaid
  BY <1>2 DEF ShareType
<1>4. PICK ta \in Nat : ta = t.amount
  BY <1>2 DEF StakeType
<1>5. PICK n \in Nat : n = s.unpaid + e /\ k * n <= Part(i, s, t)
  <2>1. CASE debt > 0
    <3>1. Earned(i, s) \in Nat
      BY <1>2, DebtNat DEF Earned, ShareType, InfoType
    <3>2. PICK p \in Nat : p = PendingReward(i, s) /\ k * p <= Part(i, s, t)
      BY <1>1, PartCovers
    <3>3. p = Earned(i, s) + unpaid - debt
      BY <1>3, <2>1, <3>2 DEF PendingReward, Earned
    <3>4. s.unpaid + e = p
      BY <1>3, <2>1, <3>1, <3>3
    <3> QED BY <3>2, <3>4
  <2>2. CASE ~(debt > 0)
    <3>1. s.unpaid + e = unpaid
      BY <1>3, <2>2
    <3>2. k * unpaid <= Part(i, s, t)
      BY <1>1, <1>3, PartCovers
    <3> QED BY <3>1, <3>2
  <2> QED BY <2>1, <2>2
<1>6. s2 = [amount |-> a, factor |-> factor, debt |-> Debt(a, i.acc, factor, i.accFactor), unpaid |-> n]
  BY <1>3, <1>5
<1>7. s2 \in ShareType /\ s2.debt = Earned(i, s2) /\ (s2.amount > 0 => s2.debt > 0)
  BY <1>2, <1>6, FreshShare
<1>8. s2.amount = a /\ s2.factor = factor /\ s2.unpaid = n
  BY <1>6
<1>9. a \in {0, ta}
  BY <1>2, <1>3, <1>4 DEF Copy
<1>10. ShareOK(i, s2, t2)
  <2>1. s2.debt <= Earned(i, s2)
    BY <1>7 DEF ShareType
  <2>2. Copy(s2, t2)
    BY <1>4, <1>8, <1>9 DEF Copy
  <2>3. s2.amount > 0 /\ s2.debt = 0 => s2.unpaid = 0
    BY <1>7
  <2> QED BY <1>2, <1>7, <2>1, <2>2, <2>3 DEF ShareOK
<1>11. PICK v \in Nat, g \in Nat, w \in Nat :
        /\ v = a * i.acc /\ g = factor * i.accFactor /\ w = Whole(i, s2) /\ w = v + g
        /\ Debt(a, i.acc, factor, i.accFactor) = w \div k
  <2>1. /\ a * i.acc \in Nat /\ factor * i.accFactor \in Nat
        /\ Whole(i, s2) = a * i.acc + factor * i.accFactor /\ Whole(i, s2) \in Nat
        /\ Debt(a, i.acc, factor, i.accFactor) = Whole(i, s2) \div ACC_TOKEN_PRECISION
    BY <1>2, <1>8, WholeFacts
  <2>2. PICK v \in Nat : v = a * i.acc
    BY <2>1, Zenon
  <2>3. PICK g \in Nat : g = factor * i.accFactor
    BY <2>1, Zenon
  <2>4. PICK w \in Nat : w = Whole(i, s2)
    BY <2>1, Zenon
  <2>5. w = v + g /\ Debt(a, i.acc, factor, i.accFactor) = w \div k
    BY ONLY <1>1, <2>1, <2>2, <2>3, <2>4, Zenon
  <2> QED BY ONLY <2>2, <2>3, <2>4, <2>5, Zenon
<1>12. PICK q \in Nat, r \in Nat, kq \in Nat :
         q = w \div k /\ r = Fraction(w) /\ kq = k * q /\ w = kq + r /\ r < k
  BY <1>1, DivMod
<1>13. s2.debt = q
  BY <1>6, <1>11, <1>12
<1>14. PICK x \in Nat : x = Fraction(t2.amount * i.acc) /\ x < k
  <2>1. PICK y \in Nat : y = t2.amount * i.acc
    <3>1. t2.amount \in Nat /\ i.acc \in Nat
      BY <1>2 DEF StakeType, InfoType
    <3> QED BY <3>1, ProductMonotone
  <2> QED BY <1>1, <2>1, DivMod
<1>15. PICK z \in Nat : z = Fraction(Whole(i, t2)) /\ z < k
  <2>1. PICK y \in Nat : y = Whole(i, t2)
    <3>1. PICK m \in Nat, f \in Nat : m = t2.amount /\ f = t2.factor
      BY DEF StakeType
    <3> QED BY <1>2, <3>1, WholeFacts
  <2> QED BY <1>1, <2>1, DivMod
<1>16. PICK ku \in Nat : ku = k * n
  BY ProductMonotone
<1>17. Part(i, s2, t2) = ku + IF a = 0 /\ factor > 0 THEN g - kq + x
                              ELSE IF q > 0 THEN w - kq ELSE z
  BY <1>1, <1>8, <1>11, <1>12, <1>13, <1>14, <1>15, <1>16 DEF Part, FactorAlone
<1>18. a = 0 => v = 0
  <2>1. i.acc \in Nat
    BY <1>2 DEF InfoType
  <2> QED BY <1>11, <2>1
<1>19. w = v + g /\ w = kq + r /\ r < k
  BY <1>11, <1>12
<1>20. PICK part \in Int : part = Part(i, s, t) /\ ku <= part
  BY <1>5, <1>16, PartCovers
<1>21. Part(i, s2, t2) <= ku + k + k
  BY <1>14, <1>15, <1>17, <1>18, <1>19
<1> QED BY <1>1, <1>10, <1>17, <1>18, <1>19, <1>20, <1>21

PartOf(i) == [u \in Users |-> Part(i, share[u], user[u])]

\* What all claims together could pay and have paid, beyond what was
\* distributed, before rounding.
Excess(i) ==
  SumOver(PartOf(i), Users) + ACC_TOKEN_PRECISION * i.claimed
    - ACC_TOKEN_PRECISION * i.distributed

\* The claims that the accumulators of i promise are covered.
Backed(i) ==
  /\ \A u \in Users : ShareOK(i, share[u], user[u])
  /\ Excess(i) <= ACC_TOKEN_PRECISION * (2 * moves)

AllCopies == \A u \in Users : Copy(share[u], user[u])

\* Without rounding, the claims and what was claimed stay within what was
\* distributed, but for two units at each change of a stake or a factor.
Covers == AllCopies /\ Excess(info) <= ACC_TOKEN_PRECISION * (2 * moves)

ClaimsInv == ~astray => Covers

LEMMA InfoBacked ==
  ASSUME WInv, ClaimsInv, ~astray
  PROVE  Backed(info)
BY DEF WInv, RInv, MInv, ClaimsInv, Covers, AllCopies, Backed, ShareOK

LEMMA ExcessType ==
  ASSUME NEW i \in InfoType, \A u \in Users : ShareOK(i, share[u], user[u])
  PROVE  /\ SumOver(PartOf(i), Users) \in Int
         /\ ACC_TOKEN_PRECISION * i.claimed \in Nat
         /\ ACC_TOKEN_PRECISION * i.distributed \in Nat
         /\ Excess(i) \in Int
<1>1. IsFiniteSet(Users) /\ ACC_TOKEN_PRECISION \in Nat
      /\ i.claimed \in Nat /\ i.distributed \in Nat
  BY RewarderAssumption DEF InfoType
<1>2. \A u \in Users : PartOf(i)[u] \in Int
  BY PartCovers DEF PartOf
<1>3. SumOver(PartOf(i), Users) \in Int
  BY <1>1, <1>2, SumInt
<1>4. ACC_TOKEN_PRECISION * i.claimed \in Nat /\ ACC_TOKEN_PRECISION * i.distributed \in Nat
  BY <1>1, ProductMonotone
<1> QED BY <1>3, <1>4 DEF Excess

\* The shares of an accumulator's growth are at most this part of the rewards r.
LEMMA PerShareWithin ==
  ASSUME NEW r \in Nat, NEW part \in Nat, NEW total \in Nat \ {0}, NEW held \in Nat, held <= total
  PROVE  /\ PerShare(r, part, total) \in Nat
         /\ (held * PerShare(r, part, total)) * TOTAL_PARTITION
              <= (r * part) * ACC_TOKEN_PRECISION
<1>1. ACC_TOKEN_PRECISION \in Nat \ {0} /\ TOTAL_PARTITION \in Nat \ {0}
  BY RewarderAssumption
<1>2. PICK x \in Nat : x = (r * part) * ACC_TOKEN_PRECISION
  <2>1. r * part \in Nat
    BY ProductMonotone
  <2> QED BY <1>1, <2>1, ProductMonotone
<1>3. r * ACC_TOKEN_PRECISION * part = x
  BY <1>1, <1>2
<1>4. PICK y \in Nat : y = x \div total /\ total * y <= x
  OBVIOUS
<1>5. PICK q \in Nat : q = y \div TOTAL_PARTITION /\ TOTAL_PARTITION * q <= y
  BY <1>1
<1>6. PerShare(r, part, total) = q
  BY <1>3, <1>4, <1>5 DEF PerShare
<1>7. PICK z \in Nat : z = TOTAL_PARTITION * q /\ z <= y
  BY <1>1, <1>5, ProductMonotone
<1>8. held * z <= total * z
  <2>1. z * held <= z * total
    BY ProductMonotone
  <2> QED BY <2>1
<1>9. total * z <= total * y
  BY <1>7, ProductMonotone
<1>10. PICK a \in Nat, b \in Nat, c \in Nat : a = held * z /\ b = total * z /\ c = total * y
  BY ProductMonotone
<1>11. a <= x
  BY <1>4, <1>8, <1>9, <1>10
<1>12. (held * q) * TOTAL_PARTITION = a
  BY <1>1, <1>7, <1>10
<1> QED BY <1>2, <1>6, <1>11, <1>12

\* An update distributes at least what it adds to the shares.
LEMMA UpdatedBacked ==
  ASSUME WInv, TotalsAgree, Backed(info), moves \in Nat,
         NEW i, i = UpdatedInfo(lpHeld, pool.sumOfFactors, settings.basePartition)
  PROVE  i \in InfoType /\ i.acc >= ACC_TOKEN_PRECISION /\ Backed(i)
<1>1. PICK k \in Nat \ {0}, tp \in Nat \ {0} : k = ACC_TOKEN_PRECISION /\ tp = TOTAL_PARTITION
  BY RewarderAssumption
<1>2. PICK supply \in Nat, sum \in Nat : supply = lpHeld /\ sum = pool.sumOfFactors
  BY DEF WInv, MInv, InOrder, PoolType
<1>3. PICK b \in Nat, c \in Nat : /\ b = settings.basePartition /\ b \in 0..TOTAL_PARTITION
                                  /\ c = TOTAL_PARTITION - b /\ tp = b + c
  BY <1>1 DEF WInv, MInv, SettingsType
<1>4. PICK r \in Nat : r = RewardsToDistribute
  BY RewardsToDistributeNat DEF WInv
<1>5. PICK total \in Nat \ {0} : total = Max({supply, MinSupply}) /\ supply <= total
  <2>1. MinSupply \in Nat \ {0}
    BY RewarderAssumption
  <2>2. Max({supply, MinSupply}) \in {supply, MinSupply} /\ Max({supply, MinSupply}) >= supply
        /\ Max({supply, MinSupply}) >= MinSupply
    BY <2>1, MaxOfTwo
  <2> QED BY <2>1, <2>2
<1>6. PICK da \in Nat : /\ da = PerShare(r, b, total)
                        /\ (supply * da) * TOTAL_PARTITION <= (r * b) * ACC_TOKEN_PRECISION
  BY <1>5, PerShareWithin
<1>7. PICK df \in Nat : /\ df = (IF sum > 0 THEN PerShare(r, c, sum) ELSE 0)
                        /\ (sum * df) * TOTAL_PARTITION <= (r * c) * ACC_TOKEN_PRECISION
  <2>1. CASE sum > 0
    <3>1. sum \in Nat \ {0} /\ sum <= sum
      BY <2>1
    <3> QED BY <2>1, <3>1, PerShareWithin
  <2>2. CASE ~(sum > 0)
    <3>1. r * c \in Nat
      BY ProductMonotone
    <3>2. (r * c) * k \in Nat
      BY <3>1, ProductMonotone
    <3>3. sum = 0
      BY <2>2
    <3>4. (sum * 0) * tp = 0
      BY <3>3
    <3> QED BY <1>1, <2>2, <3>2, <3>4
  <2> QED BY <2>1, <2>2
<1>8. i \in InfoType /\ i.acc >= info.acc /\ i.claimed = info.claimed
  BY <1>2, <1>3, UpdatedInfoGrows DEF WInv, Grows
<1>9. /\ i.acc = info.acc + da /\ i.accFactor = info.accFactor + df
      /\ i.distributed = info.distributed + r
  BY <1>2, <1>3, <1>4, <1>5, <1>6, <1>7 DEF UpdatedInfo
<1>10. info \in InfoType /\ info.acc >= ACC_TOKEN_PRECISION /\ IsFiniteSet(Users)
       /\ user \in [Users -> StakeType]
  BY RewarderAssumption DEF WInv, RInv, MInv
<1>11. i.acc >= ACC_TOKEN_PRECISION
  <2>1. i.acc \in Nat /\ info.acc \in Nat
    BY <1>8, <1>10 DEF InfoType
  <2> QED BY <1>1, <1>8, <1>10, <2>1
<1>12. PICK x \in Nat, y \in Nat : x = supply * da /\ y = sum * df
  BY ProductMonotone
<1>13. PICK kr \in Nat : kr = k * r /\ x + y <= kr
  <2>1. PICK kr \in Nat : kr = k * r
    BY ProductMonotone
  <2>2. (r * b) * k + (r * c) * k = tp * kr
    <3>1. (r * b) * k + (r * c) * k = (b + c) * kr
      BY <2>1
    <3> QED BY <1>3, <3>1
  <2>3. PICK xt \in Nat, yt \in Nat, rb \in Nat, rc \in Nat :
          /\ xt = x * tp /\ yt = y * tp /\ rb = (r * b) * k /\ rc = (r * c) * k
    <3>1. x * tp \in Nat /\ y * tp \in Nat /\ r * b \in Nat /\ r * c \in Nat
      BY ProductMonotone
    <3>2. (r * b) * k \in Nat /\ (r * c) * k \in Nat
      BY <3>1, ProductMonotone
    <3> QED BY <3>1, <3>2
  <2>4. xt <= rb /\ yt <= rc
    BY <1>1, <1>6, <1>7, <1>12, <2>3
  <2>5. tp * (x + y) = xt + yt
    BY <2>3
  <2>6. tp * (x + y) <= tp * kr
    BY <2>2, <2>3, <2>4, <2>5
  <2>7. x + y <= kr
    BY <2>6, CancelFactor
  <2> QED BY <2>1, <2>7
<1> DEFINE amounts == [u \in Users |-> user[u].amount]
           factors == [u \in Users |-> user[u].factor]
           base == [u \in Users |-> da * amounts[u]]
           boosted == [u \in Users |-> df * factors[u]]
           grown == [u \in Users |-> base[u] + boosted[u]]
           before == PartOf(info)
           most == [u \in Users |-> before[u] + grown[u]]
           after == PartOf(i)
<1>14. ASSUME NEW u \in Users
       PROVE  /\ ShareOK(i, share[u], user[u])
              /\ amounts[u] \in Nat /\ factors[u] \in Nat
              /\ base[u] \in Nat /\ boosted[u] \in Nat
              /\ base[u] = da * amounts[u] /\ boosted[u] = df * factors[u]
              /\ grown[u] = base[u] + boosted[u]
              /\ most[u] = before[u] + grown[u]
              /\ before[u] \in Int /\ after[u] \in Int
              /\ after[u] <= most[u]
  <2>1. ShareOK(info, share[u], user[u])
    BY DEF Backed
  <2>2. /\ ShareOK(i, share[u], user[u])
        /\ Part(i, share[u], user[u])
             <= Part(info, share[u], user[u]) + (da * user[u].amount + df * user[u].factor)
    BY <1>8, <1>9, <2>1, PartGrows
  <2>3. Part(i, share[u], user[u]) \in Int /\ Part(info, share[u], user[u]) \in Int
    BY <2>1, <2>2, PartCovers
  <2>4. user[u].amount \in Nat /\ user[u].factor \in Nat
    BY <1>10 DEF StakeType
  <2>5. da * user[u].amount \in Nat /\ df * user[u].factor \in Nat
    BY <2>4, ProductMonotone
  <2> QED BY <2>2, <2>3, <2>4, <2>5 DEF PartOf
<1> HIDE DEF amounts, factors, base, boosted, grown, before, most, after
<1>15. PICK s \in Int, s2 \in Int : /\ s = SumOver(before, Users) /\ s2 = SumOver(after, Users)
                                    /\ s2 <= s + (x + y)
  <2>1. SumOver(base, Users) = da * SumOver(amounts, Users)
    <3>1. \A u \in Users : amounts[u] \in Int /\ base[u] = da * amounts[u]
      BY <1>14
    <3> QED BY <1>10, <3>1, SumScale
  <2>2. SumOver(boosted, Users) = df * SumOver(factors, Users)
    <3>1. \A u \in Users : factors[u] \in Int /\ boosted[u] = df * factors[u]
      BY <1>14
    <3> QED BY <1>10, <3>1, SumScale
  <2>3. SumOver(amounts, Users) = supply /\ SumOver(factors, Users) = sum
    BY <1>2 DEF TotalsAgree, amounts, factors
  <2>4. SumOver(base, Users) = x /\ SumOver(boosted, Users) = y
    BY <1>12, <2>1, <2>2, <2>3
  <2>5. SumOver(grown, Users) = SumOver(base, Users) + SumOver(boosted, Users)
        /\ SumOver(grown, Users) \in Int
    <3>1. AddsUp(grown, base, boosted, Users)
      BY <1>10, <1>14 DEF AddsUp
    <3> QED BY <2>4, <3>1, SumAddsUp
  <2>6. SumOver(most, Users) = SumOver(before, Users) + SumOver(grown, Users)
        /\ SumOver(before, Users) \in Int
    <3>1. AddsUp(most, before, grown, Users)
      BY <1>10, <1>14 DEF AddsUp
    <3> QED BY <3>1, SumAddsUp
  <2>7. SumOver(after, Users) <= SumOver(most, Users) /\ SumOver(after, Users) \in Int
    <3>1. \A u \in Users : after[u] \in Int /\ most[u] \in Int /\ after[u] <= most[u]
      BY <1>14
    <3>2. SumOver(after, Users) <= SumOver(most, Users)
      BY <1>10, <3>1, SumLe
    <3>3. SumOver(after, Users) \in Int
      BY <1>10, <3>1, SumInt
    <3> QED BY <3>2, <3>3
  <2> QED BY <2>4, <2>5, <2>6, <2>7
<1>16. \A u \in Users : ShareOK(i, share[u], user[u])
  BY <1>14
<1>17. PICK claimed \in Nat, dist \in Nat : /\ claimed = ACC_TOKEN_PRECISION * info.claimed
                                            /\ dist = ACC_TOKEN_PRECISION * info.distributed
  <2>1. \A u \in Users : ShareOK(info, share[u], user[u])
    BY DEF Backed
  <2> QED BY <1>10, <2>1, ExcessType
<1>18. ACC_TOKEN_PRECISION * i.distributed = dist + kr
  <2>1. PICK d \in Nat : d = info.distributed
    BY <1>10 DEF InfoType
  <2>2. k * (d + r) = k * d + k * r
    OBVIOUS
  <2> QED BY <1>1, <1>9, <1>13, <1>17, <2>1, <2>2
<1>19. Excess(info) = s + claimed - dist
  BY <1>15, <1>17 DEF Excess, before
<1>20. Excess(i) = s2 + claimed - (dist + kr)
  BY <1>8, <1>15, <1>17, <1>18 DEF Excess, after
<1>21. PICK bound \in Nat : bound = ACC_TOKEN_PRECISION * (2 * moves)
  <2>1. 2 * moves \in Nat
    OBVIOUS
  <2> QED BY <1>1, <2>1, ProductMonotone
<1>22. s + claimed - dist <= bound
  BY <1>19, <1>21 DEF Backed
<1>23. Excess(i) <= bound
  BY <1>13, <1>15, <1>20, <1>22
<1> QED BY <1>8, <1>11, <1>16, <1>21, <1>23 DEF Backed

\* The share of u becomes s and its stake t, after an update to i of which r
\* has been paid.
ClaimMoves(i, u, s, t, r, m) ==
  /\ info' \in InfoType
  /\ info'.acc = i.acc /\ info'.accFactor = i.accFactor
  /\ info'.distributed = i.distributed /\ info'.claimed = i.claimed + r
  /\ share' = [share EXCEPT ![u] = s]
  /\ user' = [user EXCEPT ![u] = t]
  /\ moves' = moves + m

LEMMA SamePart ==
  ASSUME NEW i, NEW i2, i2.acc = i.acc, i2.accFactor = i.accFactor, NEW s, NEW t
  PROVE  Part(i2, s, t) = Part(i, s, t)
BY DEF Part, Whole

LEMMA ClaimStep ==
  ASSUME WInv, NEW i \in InfoType, Backed(i), moves \in Nat,
         NEW u \in Users, NEW s, NEW t, ShareOK(i, s, t),
         NEW r \in Nat, NEW m \in Nat, ClaimMoves(i, u, s, t, r, m),
         Part(i, s, t) + ACC_TOKEN_PRECISION * r
           <= Part(i, share[u], user[u]) + ACC_TOKEN_PRECISION * (2 * m)
  PROVE  Covers'
<1>1. /\ share \in [Users -> ShareType] /\ user \in [Users -> StakeType]
      /\ IsFiniteSet(Users)
      /\ \A v \in Users : ShareOK(i, share[v], user[v])
  BY RewarderAssumption DEF WInv, RInv, MInv, Backed
<1>2. PICK k \in Nat : k = ACC_TOKEN_PRECISION
  BY RewarderAssumption
<1>3. \A v \in Users : /\ share'[v] = IF v = u THEN s ELSE share[v]
                       /\ user'[v] = IF v = u THEN t ELSE user[v]
  BY <1>1 DEF ClaimMoves
<1>4. AllCopies'
  BY <1>1, <1>3 DEF AllCopies, ShareOK
<1>5. PICK x \in Int, y \in Int : x = Part(i, share[u], user[u]) /\ y = Part(i, s, t)
  BY <1>1, PartCovers
<1> DEFINE before == PartOf(i)
           after == [v \in Users |-> Part(info', share'[v], user'[v])]
<1>6. MovesAt(before, after, Users, u, y - x)
  <2>1. ASSUME NEW v \in Users
        PROVE  before[v] = Part(i, share[v], user[v]) /\ before[v] \in Int
    BY <1>1, PartCovers DEF PartOf
  <2>2. ASSUME NEW v \in Users
        PROVE  after[v] = IF v = u THEN before[v] + (y - x) ELSE before[v]
    <3>1. after[v] = Part(i, share'[v], user'[v])
      BY SamePart DEF ClaimMoves
    <3>2. CASE v = u
      BY <1>3, <1>5, <2>1, <3>1, <3>2
    <3>3. CASE v # u
      BY <1>3, <2>1, <3>1, <3>3
    <3> QED BY <3>2, <3>3
  <2> HIDE DEF before, after
  <2> QED BY <1>1, <2>1, <2>2 DEF MovesAt
<1> HIDE DEF before, after
<1>7. PICK sum \in Int : sum = SumOver(before, Users) /\ SumOver(after, Users) = sum + (y - x)
  BY <1>6, SumUpdate
<1>8. PICK claimed \in Nat, dist \in Nat, bound \in Nat, kr \in Nat, km \in Nat :
        /\ claimed = k * i.claimed /\ dist = k * i.distributed
        /\ bound = k * (2 * moves) /\ kr = k * r /\ km = k * (2 * m)
  <2>1. i.claimed \in Nat /\ i.distributed \in Nat /\ 2 * moves \in Nat /\ 2 * m \in Nat
    BY DEF InfoType
  <2> QED BY <2>1, ProductMonotone
<1>9. sum + claimed - dist <= bound
  BY <1>2, <1>7, <1>8 DEF Backed, Excess, before
<1>10. y + kr <= x + km
  BY <1>2, <1>5, <1>8
<1>11. k * info'.claimed = claimed + kr
  <2>1. PICK c \in Nat : c = i.claimed
    BY DEF InfoType
  <2>2. k * (c + r) = k * c + k * r
    OBVIOUS
  <2> QED BY <1>8, <2>1, <2>2 DEF ClaimMoves
<1>12. k * (2 * moves') = bound + km
  <2>1. k * (2 * (moves + m)) = k * (2 * moves) + k * (2 * m)
    OBVIOUS
  <2> QED BY <1>8, <2>1 DEF ClaimMoves
<1>13. Excess(info)' = (sum + (y - x)) + (claimed + kr) - dist
  <2>1. Excess(info)' = SumOver(after, Users) + k * info'.claimed - k * info'.distributed
    BY <1>2 DEF Excess, PartOf, after
  <2>2. k * info'.distributed = dist
    BY <1>8 DEF ClaimMoves
  <2> QED BY <1>7, <1>11, <2>1, <2>2
<1>14. (Excess(info) <= ACC_TOKEN_PRECISION * (2 * moves))'
  BY <1>2, <1>9, <1>10, <1>12, <1>13
<1> QED BY <1>4, <1>14 DEF Covers

\* An update, or a step with no effect on accumulators and totals.
LEMMA InfoStep ==
  ASSUME NEW i \in InfoType, Backed(i),
         info'.acc = i.acc, info'.accFactor = i.accFactor,
         info'.distributed = i.distributed, info'.claimed = i.claimed,
         UNCHANGED <<share, user, moves>>
  PROVE  Covers'
<1>1. AllCopies'
  BY DEF AllCopies, Backed, ShareOK
<1>2. PartOf(info)' = PartOf(i)
  <2>1. \A v \in Users : Part(info', share[v], user[v]) = Part(i, share[v], user[v])
    BY SamePart
  <2> QED BY <2>1 DEF PartOf
<1>3. Excess(info)' = Excess(i)
  BY <1>2 DEF Excess
<1>4. (Excess(info) <= ACC_TOKEN_PRECISION * (2 * moves))'
  BY <1>3 DEF Backed
<1> QED BY <1>1, <1>4 DEF Covers

\* The share s of u is settled for the stake t: of the p that it may claim, r
\* is paid and n stays unpaid.  The fraction of a unit that u's stake had is
\* the same again unless the stake or the factor changes.
Settles(i, u, s, t, p, r, n) ==
  /\ ShareOK(i, s, t)
  /\ p = n + r
  /\ Part(i, s, t) = ACC_TOKEN_PRECISION * n + Fraction(Whole(i, t))
  /\ ACC_TOKEN_PRECISION * p + Fraction(Whole(i, user[u])) <= Part(i, share[u], user[u])

LEMMA SettleClaims ==
  ASSUME WInv, NEW i \in InfoType, Backed(i), moves \in Nat,
         NEW u \in Users, NEW s, NEW t,
         NEW p \in Nat, NEW r \in Nat, NEW n \in Nat, NEW m \in {0, 1},
         Settles(i, u, s, t, p, r, n), ClaimMoves(i, u, s, t, r, m),
         m = 0 => t.amount = user[u].amount /\ t.factor = user[u].factor
  PROVE  Covers'
<1>1. PICK k \in Nat \ {0} : k = ACC_TOKEN_PRECISION
  BY RewarderAssumption
<1>2. ShareOK(i, s, t) /\ ShareOK(i, share[u], user[u])
  BY DEF Settles, Backed
<1>3. PICK x \in Int : x = Part(i, share[u], user[u])
  BY <1>2, PartCovers
<1>4. PICK f \in Nat : f = Fraction(Whole(i, user[u]))
  <2>1. PICK a \in Nat, b \in Nat : a = user[u].amount /\ b = user[u].factor
    BY <1>2 DEF ShareOK, StakeType
  <2> QED BY <2>1, WholeFacts, DivMod
<1>5. PICK g \in Nat : g = Fraction(Whole(i, t)) /\ g < k
  <2>1. PICK a \in Nat, b \in Nat : a = t.amount /\ b = t.factor
    BY <1>2 DEF ShareOK, StakeType
  <2> QED BY <1>1, <2>1, WholeFacts, DivMod
<1>6. m = 0 => g = f
  BY <1>4, <1>5 DEF Whole
<1>7. PICK kn \in Nat, kr \in Nat, kp \in Nat : /\ kn = k * n /\ kr = k * r /\ kp = k * p
                                                /\ kp = kn + kr
  <2>1. k * (n + r) = k * n + k * r
    OBVIOUS
  <2>2. k * n \in Nat /\ k * r \in Nat /\ k * p \in Nat
    BY ProductMonotone
  <2> QED BY <2>1, <2>2 DEF Settles
<1>8. PICK km \in Nat : km = k * (2 * m) /\ (m = 1 => km = k + k)
  <2>1. k * (2 * 0) = 0 /\ k * (2 * 1) = k + k
    OBVIOUS
  <2> QED BY <2>1
<1>9. kp + f <= x
  BY <1>1, <1>3, <1>4, <1>7 DEF Settles
<1>10. Part(i, s, t) = kn + g
  BY <1>1, <1>5, <1>7 DEF Settles
<1>11. (kn + g) + kr <= x + km
  BY <1>5, <1>6, <1>7, <1>8, <1>9
<1>12. Part(i, s, t) + ACC_TOKEN_PRECISION * r
           <= Part(i, share[u], user[u]) + ACC_TOKEN_PRECISION * (2 * m)
  BY <1>1, <1>3, <1>7, <1>8, <1>10, <1>11
<1> QED BY <1>2, <1>12, ClaimStep

\* A share that knows nothing of its stake.
LEMMA PartUnknown ==
  ASSUME NEW i, NEW s, NEW t, ShareOK(i, s, t), s.amount = 0, s.factor = 0
  PROVE  Part(i, s, t) = ACC_TOKEN_PRECISION * s.unpaid + Fraction(Whole(i, t))
<1>1. i.acc \in Nat /\ i.accFactor \in Nat /\ s.debt \in Nat
  BY DEF ShareOK, InfoType, ShareType
<1>2. Earned(i, s) = 0
  <2>1. 0 * i.acc + 0 * i.accFactor = 0
    BY <1>1
  <2>2. 0 \div ACC_TOKEN_PRECISION = 0
    BY RewarderAssumption
  <2> QED BY <2>1, <2>2 DEF Earned, Debt
<1>3. s.debt = 0
  BY <1>1, <1>2 DEF ShareOK
<1> QED BY <1>3 DEF Part, FactorAlone

\* The rewarder does not know the stake of u, and is not told of the change.
LEMMA UntoldClaims ==
  ASSUME WInv, Covers, Backed(info), moves \in Nat,
         NEW u \in Users, share[u].amount = 0, share[u].factor = 0,
         NEW t \in StakeType, NEW m \in {0, 1}, UNCHANGED <<info, share>>,
         user' = [user EXCEPT ![u] = t], moves' = moves + m,
         m = 0 => t.amount = user[u].amount /\ t.factor = user[u].factor
  PROVE  Covers'
<1>1. /\ info \in InfoType /\ share \in [Users -> ShareType]
      /\ ShareOK(info, share[u], user[u])
  BY DEF WInv, RInv, Backed
<1>2. PICK n \in Nat : n = share[u].unpaid
  BY <1>1 DEF ShareType
<1>3. PICK zero \in Nat : zero = 0
  OBVIOUS
<1>4. ShareOK(info, share[u], t)
  BY <1>1 DEF ShareOK, Copy
<1>5. Settles(info, u, share[u], t, n, zero, n)
  <2>1. /\ Part(info, share[u], t) = ACC_TOKEN_PRECISION * n + Fraction(Whole(info, t))
        /\ Part(info, share[u], user[u])
             = ACC_TOKEN_PRECISION * n + Fraction(Whole(info, user[u]))
    BY <1>1, <1>2, <1>4, PartUnknown
  <2>2. Part(info, share[u], user[u]) \in Int
    BY <1>1, PartCovers
  <2>3. ACC_TOKEN_PRECISION * n + Fraction(Whole(info, user[u])) <= Part(info, share[u], user[u])
    BY <2>1, <2>2
  <2>4. n = n + zero
    BY <1>3
  <2> QED BY <1>4, <2>1, <2>3, <2>4 DEF Settles
<1>6. ClaimMoves(info, u, share[u], t, zero, m)
  <2>1. info.claimed = info.claimed + zero
    BY <1>1, <1>3 DEF InfoType
  <2>2. share' = [share EXCEPT ![u] = share[u]]
    BY <1>1
  <2> QED BY <1>1, <2>1, <2>2 DEF ClaimMoves
<1> QED BY <1>1, <1>5, <1>6, SettleClaims

\* A payment to u leaves what it cannot pay.
LEMMA PaymentSplits ==
  ASSUME NEW p \in Nat, tokens \in Nat
  PROVE  \E r \in Nat, n \in Nat : /\ r = Min({p, tokens}) /\ n = Unpaid(p) /\ p = n + r
<1>1. PICK held \in Nat : held = tokens
  OBVIOUS
<1>2. PICK r : r = Min({p, held})
  OBVIOUS
<1>3. r \in {p, held} /\ r <= p
  BY <1>2, MinOfTwo
<1>4. r \in Nat /\ p - r \in Nat /\ p = (p - r) + r
  BY <1>3
<1>5. Unpaid(p) = p - r
  BY <1>1, <1>2 DEF Unpaid
<1> QED BY <1>1, <1>2, <1>4, <1>5

\* OnReward and the change of u's stake that it is told of, if any.
LEMMA RewardClaims ==
  ASSUME WInv, TotalsAgree, Backed(info), moves \in Nat,
         NEW u \in Users, NEW t \in StakeType, NEW amount \in Nat, NEW factor \in Nat,
         \/ amount = t.amount /\ factor = t.factor
         \/ amount = 0 /\ factor = 0,
         NEW m \in {0, 1}, user' = [user EXCEPT ![u] = t], moves' = moves + m,
         m = 0 => t.amount = user[u].amount /\ t.factor = user[u].factor,
         OnReward(u, amount, factor, lpHeld, pool.sumOfFactors, settings.basePartition)
  PROVE  Covers'
<1>1. PICK i : i = UpdatedInfo(lpHeld, pool.sumOfFactors, settings.basePartition)
  OBVIOUS
<1>2. i \in InfoType /\ i.acc >= ACC_TOKEN_PRECISION /\ Backed(i)
  BY <1>1, UpdatedBacked
<1>3. ShareOK(i, share[u], user[u])
  BY <1>2 DEF Backed
<1>4. PICK p \in Nat :
        /\ p = PendingReward(i, share[u])
        /\ ACC_TOKEN_PRECISION * p + Fraction(Whole(i, user[u])) <= Part(i, share[u], user[u])
  BY <1>3, PartCovers
<1>5. PICK r \in Nat, n \in Nat : r = Min({p, tokens}) /\ n = Unpaid(p) /\ p = n + r
  BY PaymentSplits DEF WInv, RInv
<1>6. PICK s : s = [amount |-> amount, factor |-> factor,
                    debt |-> Debt(amount, i.acc, factor, i.accFactor), unpaid |-> n]
  OBVIOUS
<1>7. /\ info' = [i EXCEPT !.claimed = @ + r]
      /\ share' = [share EXCEPT ![u] = s]
  BY <1>1, <1>4, <1>5, <1>6 DEF OnReward
<1>8. ClaimMoves(i, u, s, t, r, m)
  <2>1. i.claimed + r \in Nat
    BY <1>2 DEF InfoType
  <2>2. /\ info' \in InfoType /\ info'.acc = i.acc /\ info'.accFactor = i.accFactor
        /\ info'.distributed = i.distributed /\ info'.claimed = i.claimed + r
    BY <1>2, <1>7, <2>1 DEF InfoType
  <2> QED BY <1>7, <2>2 DEF ClaimMoves
<1>9. /\ ShareOK(i, s, t)
      /\ Part(i, s, t) = ACC_TOKEN_PRECISION * n + Fraction(Whole(i, t))
  <2>1. CASE amount = t.amount /\ factor = t.factor
    BY <1>2, <1>6, <2>1, PartSettled
  <2>2. CASE amount = 0 /\ factor = 0
    BY <1>2, <1>6, <2>2, PartForgotten
  <2> QED BY <2>1, <2>2
<1>10. Settles(i, u, s, t, p, r, n)
  BY <1>4, <1>5, <1>9 DEF Settles
<1> QED BY <1>2, <1>8, <1>10, SettleClaims

\* u gets the stake t, of which the rewarder is told if one is attached.
LEMMA TellClaims ==
  ASSUME WInv, TotalsAgree, Covers, Backed(info), Detached, moves \in Nat,
         NEW u \in Users, NEW t \in StakeType, TellRewarder(u, t.amount, t.factor),
         NEW m \in {0, 1}, user' = [user EXCEPT ![u] = t], moves' = moves + m,
         m = 0 => t.amount = user[u].amount /\ t.factor = user[u].factor
  PROVE  Covers'
<1>1. PICK amount \in Nat, factor \in Nat : amount = t.amount /\ factor = t.factor
  BY DEF StakeType
<1>2. CASE settings.boostedRewarder
  <2>1. OnReward(u, amount, factor, lpHeld, pool.sumOfFactors, settings.basePartition)
    BY <1>1, <1>2 DEF TellRewarder
  <2> QED BY <1>1, <2>1, RewardClaims
<1>3. CASE ~settings.boostedRewarder
  <2>1. UNCHANGED <<info, share>>
    BY <1>3 DEF TellRewarder, rewarderVars
  <2>2. share[u].amount = 0 /\ share[u].factor = 0
    BY <1>3 DEF Detached
  <2> QED BY <2>1, <2>2, UntoldClaims
<1> QED BY <1>2, <1>3

\* What the claims of a step are derived from.
ClaimsReady == WInv /\ FundsInv /\ SyncInv /\ ClaimsInv

LEMMA ReadyFacts ==
  ASSUME ClaimsReady, ~astray
  PROVE  /\ TotalsAgree /\ Covers /\ Backed(info) /\ moves \in Nat
         /\ SharesInSync /\ Detached
<1>1. Backed(info)
  BY InfoBacked DEF ClaimsReady
<1> QED BY <1>1 DEF ClaimsReady, FundsInv, BoostsFresh, TotalsAgree, SyncInv, ClaimsInv

LEMMA UpdateUserAmountClaims ==
  ASSUME ClaimsReady, NEW u \in Users, NEW amount \in Nat, NEW w \in Nat, NEW m \in {0, 1},
         UpdateUserAmount(u, amount, w), UNCHANGED astray, moves' = moves + m,
         m = 0 => amount = user[u].amount
  PROVE  ClaimsInv'
<1> SUFFICES ASSUME ~astray PROVE Covers'
  BY DEF ClaimsInv
<1>1. WInv /\ FundsInv
  BY DEF ClaimsReady
<1>2. PICK p : p = UpdatedPool(w)
  OBVIOUS
<1>3. PICK factor \in Nat : factor = Boost(amount, veBalance[u])
  BY <1>1, BoostNat DEF WInv, MInv
<1>4. PICK d \in Nat : d = Debt(amount, p.accWomPerShare, factor, p.accWomPerFactorShare)
  BY <1>1, <1>2, UpdatedPoolAhead, DebtNat DEF Ahead, InOrder, PoolType
<1>5. PICK t \in StakeType : t = [amount |-> amount, factor |-> factor,
                                 rewardDebt |-> d, pendingWom |-> 0]
  BY DEF StakeType
<1>6. user' = [user EXCEPT ![u] = t] /\ TellRewarder(u, t.amount, t.factor)
  BY <1>2, <1>3, <1>4, <1>5 DEF UpdateUserAmount
<1>7. m = 0 => t.amount = user[u].amount /\ t.factor = user[u].factor
  BY <1>1, <1>3, <1>5 DEF FundsInv, BoostsFresh
<1> QED BY <1>1, <1>6, <1>7, ReadyFacts, TellClaims

\* Nothing happens to the stakes, the shares and the rewarder's accumulators.
LEMMA SameClaims ==
  ASSUME ClaimsReady, ~astray => UNCHANGED <<info, share, user, moves>>, ~astray' => ~astray
  PROVE  ClaimsInv'
<1> SUFFICES ASSUME ~astray PROVE Covers'
  BY DEF ClaimsInv
<1>1. info \in InfoType
  BY DEF ClaimsReady, WInv, RInv
<1> QED BY <1>1, ReadyFacts, InfoStep

LEMMA MultiClaimClaims ==
  ASSUME ClaimsReady, NEW u \in Users, NEW w \in Nat, MultiClaim(u, w)
  PROVE  ClaimsInv'
<1>1. PICK p : p = UpdatedPool(w)
  OBVIOUS
<1>2. ClaimWom(u, p, w) /\ UNCHANGED <<astray, moves>> /\ user[u] \in StakeType /\ WInv
  BY <1>1 DEF MultiClaim, ClaimsReady, WInv, MInv
<1>3. CASE user[u].amount > 0
  <2> SUFFICES ASSUME ~astray PROVE Covers'
    BY <1>2 DEF ClaimsInv
  <2>1. PICK d \in Nat : d = WomDebt(p, user[u])
    BY <1>1, <1>2, UpdatedPoolAhead, OwedGrows
  <2>2. PICK t \in StakeType : t = [amount |-> user[u].amount, factor |-> user[u].factor,
                                   rewardDebt |-> d, pendingWom |-> 0]
    BY <1>2 DEF StakeType
  <2>3. user' = [user EXCEPT ![u] = t] /\ TellRewarder(u, t.amount, t.factor)
    BY <1>1, <1>2, <1>3, <2>1, <2>2 DEF MultiClaim, ClaimWom
  <2>4. moves \in Nat /\ TotalsAgree /\ Covers /\ Backed(info) /\ Detached
    BY ReadyFacts
  <2>5. PICK m \in {0, 1} : m = 0
    OBVIOUS
  <2>6. moves' = moves + m
    BY <1>2, <2>4, <2>5
  <2>7. t.amount = user[u].amount /\ t.factor = user[u].factor
    BY <2>2
  <2> QED BY <1>2, <2>3, <2>4, <2>6, <2>7, TellClaims
<1>4. CASE ~(user[u].amount > 0)
  <2>1. UNCHANGED <<info, share, user, moves>>
    BY <1>2, <1>4 DEF MultiClaim, ClaimWom, rewarderVars
  <2> QED BY <1>2, <2>1, SameClaims
<1> QED BY <1>3, <1>4

LEMMA MigrateClaims ==
  ASSUME ClaimsReady, NEW u \in Users, NEW w \in Nat, Migrate(u, w)
  PROVE  ClaimsInv'
<1> SUFFICES ASSUME ~astray' PROVE Covers'
  BY DEF ClaimsInv
<1>1. ~astray /\ ~settings.boostedRewarder
  BY DEF Migrate
<1>2. PICK p : p = UpdatedPool(w)
  OBVIOUS
<1>3. ClaimWom(u, p, w)
  BY <1>2 DEF Migrate
<1>4. UNCHANGED <<info, share>>
  BY <1>1, <1>3 DEF ClaimWom, TellRewarder, rewarderVars
<1>5. WInv /\ moves \in Nat /\ Covers /\ Backed(info) /\ Detached
  BY <1>1, ReadyFacts DEF ClaimsReady
<1>6. share[u].amount = 0 /\ share[u].factor = 0
  BY <1>1, <1>5 DEF Detached
<1>7. PICK t \in StakeType : t = NoStake
  BY DEF NoStake, StakeType
<1>8. PICK m \in {0, 1} : m = 1
  OBVIOUS
<1>9. user' = [user EXCEPT ![u] = t] /\ moves' = moves + m
  BY <1>7, <1>8 DEF Migrate, CountMove
<1>10. m = 0 => t.amount = user[u].amount /\ t.factor = user[u].factor
  BY <1>8
<1> QED BY <1>4, <1>5, <1>6, <1>9, <1>10, UntoldClaims

LEMMA EmergencyWithdrawClaims ==
  ASSUME ClaimsReady, NEW u \in Users, EmergencyWithdraw(u)
  PROVE  ClaimsInv'
<1> SUFFICES ASSUME ~astray PROVE Covers'
  BY DEF ClaimsInv, EmergencyWithdraw
<1>1. WInv /\ user[u] \in StakeType
  BY DEF ClaimsReady, WInv, MInv
<1>2. PICK t \in StakeType : t = [amount |-> 0, factor |-> 0, rewardDebt |-> 0,
                                 pendingWom |-> user[u].pendingWom]
  BY <1>1 DEF StakeType
<1>3. user' = [user EXCEPT ![u] = t] /\ TellRewarder(u, t.amount, t.factor)
  BY <1>2 DEF EmergencyWithdraw
<1>4. PICK m \in {0, 1} : m = 1
  OBVIOUS
<1>5. moves' = moves + m
  BY <1>4 DEF EmergencyWithdraw, CountMove
<1>6. m = 0 => t.amount = user[u].amount /\ t.factor = user[u].factor
  BY <1>4
<1>7. TotalsAgree /\ Covers /\ Backed(info) /\ Detached /\ moves \in Nat
  BY ReadyFacts
<1> QED BY <1>1, <1>3, <1>5, <1>6, <1>7, TellClaims

\* The part depends on the amount and the factor of a stake alone.
LEMMA SameStakePart ==
  ASSUME NEW i, NEW s, NEW t, NEW t2 \in StakeType, ShareOK(i, s, t),
         t2.amount = t.amount, t2.factor = t.factor
  PROVE  ShareOK(i, s, t2) /\ Part(i, s, t2) = Part(i, s, t)
BY DEF ShareOK, Copy, Part, Whole

LEMMA RefactoredClaims ==
  ASSUME WInv, TotalsAgree, Backed(info), moves \in Nat,
         NEW u \in Users, NEW t \in StakeType, t.amount = user[u].amount,
         NEW factor \in Nat, t.factor = factor,
         settings.basePartition # TOTAL_PARTITION,
         user' = [user EXCEPT ![u] = t], moves' = moves + 1,
         OnUpdateFactor(u, factor, lpHeld, pool.sumOfFactors, settings.basePartition)
  PROVE  Covers'
<1>1. PICK i : i = UpdatedInfo(lpHeld, pool.sumOfFactors, settings.basePartition)
  OBVIOUS
<1>2. i \in InfoType /\ Backed(i)
  BY <1>1, UpdatedBacked
<1>3. ShareOK(i, share[u], user[u])
  BY <1>2 DEF Backed
<1>4. PICK e : e = IF share[u].debt > 0 THEN Earned(i, share[u]) - share[u].debt ELSE 0
  OBVIOUS
<1>5. PICK s : s = [amount |-> share[u].amount, factor |-> factor,
                    debt |-> Debt(share[u].amount, i.acc, factor, i.accFactor),
                    unpaid |-> share[u].unpaid + e]
  OBVIOUS
<1>6. info' = i /\ share' = [share EXCEPT ![u] = s]
  BY <1>1, <1>4, <1>5 DEF OnUpdateFactor, Earned
<1>7. /\ ShareOK(i, s, t)
      /\ Part(i, s, t) <= Part(i, share[u], user[u]) + 2 * ACC_TOKEN_PRECISION
  BY <1>3, <1>4, <1>5, PartRefactored
<1>8. PICK zero \in Nat, one \in Nat : zero = 0 /\ one = 1
  OBVIOUS
<1>9. ClaimMoves(i, u, s, t, zero, one)
  <2>1. i.claimed = i.claimed + zero
    BY <1>2, <1>8 DEF InfoType
  <2> QED BY <1>2, <1>6, <1>8, <2>1 DEF ClaimMoves
<1>10. Part(i, s, t) + ACC_TOKEN_PRECISION * zero
         <= Part(i, share[u], user[u]) + ACC_TOKEN_PRECISION * (2 * one)
  <2>1. PICK x \in Int, y \in Int : x = Part(i, share[u], user[u]) /\ y = Part(i, s, t)
    BY <1>3, <1>7, PartCovers
  <2>2. PICK k \in Nat : k = ACC_TOKEN_PRECISION
    BY RewarderAssumption
  <2>3. k * zero = 0 /\ k * (2 * one) = 2 * k
    BY <1>8
  <2>4. y <= x + 2 * k
    BY <1>7, <2>1, <2>2
  <2> QED BY <2>1, <2>2, <2>3, <2>4
<1> QED BY <1>2, <1>7, <1>9, <1>10, ClaimStep

LEMMA UpdateFactorClaims ==
  ASSUME ClaimsReady, NEW u \in Users, NEW b \in Nat, NEW w \in Nat, UpdateFactor(u, b, w)
  PROVE  ClaimsInv'
<1> SUFFICES ASSUME ~astray' PROVE Covers'
  BY DEF ClaimsInv
<1>1. ~astray
  <2>1. CASE user[u].amount = 0
    BY <2>1 DEF UpdateFactor
  <2>2. CASE user[u].amount # 0
    BY <2>2 DEF UpdateFactor
  <2> QED BY <2>1, <2>2
<1>2. /\ WInv /\ moves \in Nat /\ TotalsAgree /\ Covers /\ Backed(info)
      /\ SharesInSync /\ Detached
  BY <1>1, ReadyFacts DEF ClaimsReady
<1>3. /\ user \in [Users -> StakeType] /\ share \in [Users -> ShareType] /\ info \in InfoType
      /\ veBalance \in [Users -> Nat] /\ FundsInv
  BY <1>2 DEF WInv, RInv, MInv, ClaimsReady
<1>4. PICK m \in {0, 1} : m = 1
  OBVIOUS
<1>5. moves' = moves + m
  BY <1>4 DEF UpdateFactor, CountMove
<1>6. CASE user[u].amount = 0
  <2>1. UNCHANGED <<info, share, user>>
    BY <1>6 DEF UpdateFactor, poolVars, rewarderVars
  <2>2. user[u].factor = 0
    BY <1>3, <1>6, NoFactor DEF FundsInv, BoostsFresh
  <2>3. share[u].amount = 0 /\ share[u].factor = 0
    BY <1>1, <1>2, <1>6, <2>2 DEF SharesInSync
  <2>4. PICK t \in StakeType : t = user[u]
    BY <1>3
  <2>5. user' = [user EXCEPT ![u] = t]
    BY <1>3, <2>1, <2>4
  <2>6. m = 0 => t.amount = user[u].amount /\ t.factor = user[u].factor
    BY <1>4
  <2> QED BY <1>2, <1>5, <2>1, <2>3, <2>5, <2>6, UntoldClaims
<1>7. CASE user[u].amount # 0
  <2>1. PICK p : p = UpdatedPool(w) /\ Ahead(p)
    BY <1>2, UpdatedPoolAhead
  <2>2. PICK factor \in Nat : factor = Boost(user[u].amount, b)
    BY <1>3, BoostNat DEF StakeType
  <2>3. PICK d \in Nat : d = Debt(user[u].amount, p.accWomPerShare, factor, p.accWomPerFactorShare)
    BY <1>3, <2>1, DebtNat DEF Ahead, InOrder, PoolType, StakeType
  <2>4. PICK owed \in Nat : owed = Owed(p, user[u])
    BY <1>2, <2>1, OwedGrows
  <2>5. PICK t \in StakeType : t = [amount |-> user[u].amount, factor |-> factor,
                                    rewardDebt |-> d, pendingWom |-> owed]
    BY <1>3 DEF StakeType
  <2>6. user' = [user EXCEPT ![u] = t]
    BY <1>7, <2>1, <2>2, <2>3, <2>4, <2>5 DEF UpdateFactor
  <2>7. t.amount = user[u].amount /\ t.factor = factor
    BY <2>5
  <2>8. IF settings.boostedRewarder
        THEN OnUpdateFactor(u, factor, lpHeld, pool.sumOfFactors, settings.basePartition)
        ELSE UNCHANGED rewarderVars
    BY <1>7, <2>2 DEF UpdateFactor
  <2>9. ~(/\ settings.boostedRewarder
          /\ settings.basePartition = TOTAL_PARTITION
          /\ factor # user[u].factor)
    BY <1>7, <2>2 DEF UpdateFactor
  <2>10. CASE ~settings.boostedRewarder
    <3>1. UNCHANGED <<info, share>>
      BY <2>8, <2>10 DEF rewarderVars
    <3>2. share[u].amount = 0 /\ share[u].factor = 0
      BY <1>2, <2>10 DEF Detached
    <3>3. m = 0 => t.amount = user[u].amount /\ t.factor = user[u].factor
      BY <1>4
    <3> QED BY <1>2, <1>5, <2>6, <3>1, <3>2, <3>3, UntoldClaims
  <2>11. CASE settings.boostedRewarder /\ settings.basePartition = TOTAL_PARTITION
    <3>1. UNCHANGED <<info, share>> /\ factor = user[u].factor
      BY <2>8, <2>9, <2>11 DEF OnUpdateFactor, rewarderVars
    <3>2. ShareOK(info, share[u], user[u])
      BY <1>2 DEF Backed
    <3>3. ShareOK(info, share[u], t) /\ Part(info, share[u], t) = Part(info, share[u], user[u])
      BY <2>7, <3>1, <3>2, SameStakePart
    <3>4. PICK zero \in Nat, one \in Nat : zero = 0 /\ one = 1
      OBVIOUS
    <3>5. ClaimMoves(info, u, share[u], t, zero, one)
      <4>1. info.claimed = info.claimed + zero
        BY <1>3, <3>4 DEF InfoType
      <4>2. share' = [share EXCEPT ![u] = share[u]]
        BY <1>3, <3>1
      <4> QED BY <1>3, <1>4, <1>5, <2>6, <3>1, <3>4, <4>1, <4>2 DEF ClaimMoves
    <3>6. Part(info, share[u], t) + ACC_TOKEN_PRECISION * zero
            <= Part(info, share[u], user[u]) + ACC_TOKEN_PRECISION * (2 * one)
      <4>1. PICK x \in Int : x = Part(info, share[u], user[u])
        BY <3>2, PartCovers
      <4>2. PICK k \in Nat : k = ACC_TOKEN_PRECISION
        BY RewarderAssumption
      <4>3. k * zero = 0 /\ k * (2 * one) = 2 * k
        BY <3>4
      <4> QED BY <3>3, <4>1, <4>2, <4>3
    <3> QED BY <1>2, <1>3, <3>3, <3>5, <3>6, ClaimStep
  <2>12. CASE settings.boostedRewarder /\ settings.basePartition # TOTAL_PARTITION
    <3>1. OnUpdateFactor(u, factor, lpHeld, pool.sumOfFactors, settings.basePartition)
      BY <2>8, <2>12
    <3>2. moves' = moves + 1
      BY <1>4, <1>5
    <3> QED BY <1>2, <2>6, <2>7, <2>12, <3>1, <3>2, RefactoredClaims
  <2> QED BY <2>10, <2>11, <2>12
<1> QED BY <1>6, <1>7

LEMMA StakerStepClaims ==
  ASSUME ClaimsReady, NEW w \in Nat, StakerStep(w)
  PROVE  ClaimsInv'
<1>1. PICK u \in Users :
        \/ \E n \in Stakes : Deposit(u, n, w) \/ Withdraw(u, n, w)
        \/ Harvest(u, w)
        \/ MultiClaim(u, w)
        \/ Migrate(u, w)
        \/ \E b \in VeBalances : UpdateFactor(u, b, w)
  BY DEF StakerStep
<1>2. PICK a \in Nat : a = user[u].amount
  BY DEF ClaimsReady, WInv, MInv, StakeType
<1>3. PICK zero \in {0, 1}, one \in {0, 1} : zero = 0 /\ one = 1
  OBVIOUS
<1>4. ASSUME NEW n \in Stakes, Deposit(u, n, w) PROVE ClaimsInv'
  <2>1. PICK amount \in Nat : amount = a + n
    BY MasterWombatAssumption
  <2>2. /\ UpdateUserAmount(u, amount, w) /\ UNCHANGED astray
        /\ moves' = moves + one
    BY <1>2, <1>3, <1>4, <2>1 DEF Deposit, CountMove
  <2>3. one = 0 => amount = user[u].amount
    BY <1>3
  <2> QED BY <2>2, <2>3, UpdateUserAmountClaims
<1>5. ASSUME NEW n \in Stakes, Withdraw(u, n, w) PROVE ClaimsInv'
  <2>1. PICK amount \in Nat : amount = a - n
    BY <1>2, <1>5, MasterWombatAssumption DEF Withdraw
  <2>2. /\ UpdateUserAmount(u, amount, w) /\ UNCHANGED astray
        /\ moves' = moves + one
    BY <1>2, <1>3, <1>5, <2>1 DEF Withdraw, CountMove
  <2>3. one = 0 => amount = user[u].amount
    BY <1>3
  <2> QED BY <2>2, <2>3, UpdateUserAmountClaims
<1>6. CASE Harvest(u, w)
  <2>1. /\ UpdateUserAmount(u, a, w) /\ UNCHANGED astray
        /\ moves' = moves + zero
    <3>1. moves' = moves /\ moves \in Nat
      BY <1>6 DEF Harvest, ClaimsReady, FundsInv
    <3> QED BY <1>2, <1>3, <1>6, <3>1 DEF Harvest
  <2> QED BY <1>2, <2>1, UpdateUserAmountClaims
<1>7. ASSUME NEW b \in VeBalances, UpdateFactor(u, b, w) PROVE ClaimsInv'
  <2>1. b \in Nat
    BY MasterWombatAssumption
  <2> QED BY <1>7, <2>1, UpdateFactorClaims
<1> QED BY <1>1, <1>4, <1>5, <1>6, <1>7, MultiClaimClaims, MigrateClaims

LEMMA AddRewardTokenClaims ==
  ASSUME ClaimsReady, NEW rate \in Nat, NEW start \in Nat, AddRewardToken(rate, start),
         info' \in InfoType, UNCHANGED <<user, moves, astray>>
  PROVE  ClaimsInv'
<1> SUFFICES ASSUME ~astray PROVE Covers'
  BY DEF ClaimsInv
<1>1. /\ share \in [Users -> ShareType] /\ user \in [Users -> StakeType]
      /\ moves \in Nat /\ IsFiniteSet(Users) /\ ACC_TOKEN_PRECISION \in Nat \ {0}
      /\ AllCopies
  BY RewarderAssumption, ReadyFacts DEF ClaimsReady, WInv, RInv, MInv, Covers
<1>2. \A u \in Users : /\ share'[u].amount = share[u].amount
                        /\ share'[u].factor = share[u].factor
                        /\ share'[u].debt = 0 /\ share'[u].unpaid = 0
  <2> TAKE u \in Users
  <2>1. share'[u] = [amount |-> share[u].amount, factor |-> share[u].factor,
                     debt |-> 0, unpaid |-> 0]
    BY DEF AddRewardToken
  <2> QED BY <2>1
<1>3. AllCopies'
  <2>1. \A u \in Users : Copy(share[u], user[u])
    BY <1>1 DEF AllCopies
  <2>2. \A u \in Users : Copy(share'[u], user[u])
    BY <1>2, <2>1 DEF Copy
  <2> QED BY <2>2 DEF AllCopies
<1>4. /\ info'.acc = ACC_TOKEN_PRECISION /\ info'.accFactor = 0
      /\ info'.claimed = 0 /\ info'.distributed = 0
  BY DEF AddRewardToken, NewInfo
<1> DEFINE after == [u \in Users |-> Part(info', share'[u], user'[u])]
<1>5. \A u \in Users : after[u] = 0
  <2> TAKE u \in Users
  <2>1. PICK a \in Nat, f \in Nat, b \in Nat :
          a = user[u].amount /\ f = user[u].factor /\ b = share[u].factor
    BY <1>1 DEF StakeType, ShareType
  <2>2. PICK k \in Nat \ {0} : k = ACC_TOKEN_PRECISION
    BY <1>1
  <2>3. (a * k) % k = 0 /\ (a * k + f * 0) % k = 0 /\ b * 0 = 0 /\ k * 0 = 0
    <3>1. (a * k) % k = 0
      OBVIOUS
    <3>2. a * k + f * 0 = a * k
      OBVIOUS
    <3>3. b * 0 = 0 /\ k * 0 = 0
      OBVIOUS
    <3> QED BY <3>1, <3>2, <3>3
  <2>4. /\ Fraction(user'[u].amount * info'.acc) = 0
        /\ Fraction(Whole(info', user'[u])) = 0
    BY <1>4, <2>1, <2>2, <2>3 DEF Fraction, Whole
  <2>5. share'[u].debt = 0 /\ share'[u].unpaid = 0 /\ share'[u].factor = b
    BY <1>2, <2>1
  <2>6. b * 0 - k * 0 + 0 = 0 /\ k * 0 + 0 = 0
    BY <2>3
  <2> QED BY <1>4, <2>2, <2>4, <2>5, <2>6 DEF Part
<1>6. SumOver(after, Users) = 0
  BY <1>1, <1>5, SumZero
<1>7. Excess(info)' = 0
  <2>1. ACC_TOKEN_PRECISION * 0 = 0
    BY <1>1
  <2> HIDE DEF after
  <2>2. Excess(info)' = SumOver(after, Users) + ACC_TOKEN_PRECISION * info'.claimed
                          - ACC_TOKEN_PRECISION * info'.distributed
    BY DEF Excess, PartOf, after
  <2> QED BY <1>4, <1>6, <2>1, <2>2
<1>8. (Excess(info) <= ACC_TOKEN_PRECISION * (2 * moves))'
  <2>1. PICK n \in Nat : n = 2 * moves
    BY <1>1
  <2>2. ACC_TOKEN_PRECISION * n \in Nat
    BY <1>1, ProductMonotone
  <2> QED BY <1>7, <2>1, <2>2
<1> QED BY <1>3, <1>8 DEF Covers

\* Transactions on the rewarder alone.
LEMMA RewarderStepClaims ==
  ASSUME ClaimsReady, RewarderStep, RInv'
  PROVE  ClaimsInv'
<1>1. /\ UNCHANGED <<user, moves, astray>> /\ info \in InfoType /\ info' \in InfoType
      /\ share \in [Users -> ShareType] /\ user \in [Users -> StakeType] /\ WInv
  BY DEF ClaimsReady, WInv, RInv, MInv, RewarderStep, poolVars
<1>2. PICK i : i = UpdatedInfo(lpHeld, pool.sumOfFactors, settings.basePartition)
  OBVIOUS
<1>3. ~astray => i \in InfoType /\ Backed(i)
  BY <1>1, <1>2, ReadyFacts, UpdatedBacked
<1>4. CASE UpdateReward(lpHeld, pool.sumOfFactors, settings.basePartition)
  <2> SUFFICES ASSUME ~astray PROVE Covers'
    BY <1>1 DEF ClaimsInv
  <2>1. info' = i /\ share' = share
    BY <1>2, <1>4 DEF UpdateReward
  <2> QED BY <1>1, <1>3, <2>1, InfoStep
<1>5. ASSUME NEW r, NEW x,
             SetRewardRate(r, x, lpHeld, pool.sumOfFactors, settings.basePartition)
      PROVE  ClaimsInv'
  <2> SUFFICES ASSUME ~astray PROVE Covers'
    BY <1>1 DEF ClaimsInv
  <2>1. PICK y : info' = [i EXCEPT !.tokenPerSec = r, !.last = y] /\ share' = share
    BY <1>2, <1>5 DEF SetRewardRate
  <2>2. /\ info'.acc = i.acc /\ info'.accFactor = i.accFactor
        /\ info'.distributed = i.distributed /\ info'.claimed = i.claimed
    BY <1>3, <2>1 DEF InfoType
  <2> QED BY <1>1, <1>3, <2>1, <2>2, InfoStep
<1>6. ASSUME NEW u \in Users,
             EmergencyClaimReward(u, lpHeld, pool.sumOfFactors, settings.basePartition)
      PROVE  ClaimsInv'
  <2> SUFFICES ASSUME ~astray PROVE Covers'
    BY <1>1 DEF ClaimsInv
  <2>1. PICK zero \in Nat : zero = 0
    OBVIOUS
  <2>2. OnReward(u, zero, zero, lpHeld, pool.sumOfFactors, settings.basePartition)
    BY <1>6, <2>1 DEF EmergencyClaimReward
  <2>3. moves \in Nat /\ TotalsAgree /\ Backed(info)
    BY ReadyFacts
  <2>4. PICK t \in StakeType : t = user[u]
    BY <1>1
  <2>5. PICK m \in {0, 1} : m = 0
    OBVIOUS
  <2>6. user' = [user EXCEPT ![u] = t] /\ moves' = moves + m
    BY <1>1, <2>3, <2>4, <2>5
  <2>7. t.amount = user[u].amount /\ t.factor = user[u].factor
    BY <2>4
  <2> QED BY <1>1, <2>1, <2>2, <2>3, <2>6, <2>7, RewardClaims
<1>7. ASSUME NEW r \in TokenRates, NEW x \in StartTimes, AddRewardToken(r, x)
      PROVE  ClaimsInv'
  <2>1. r \in Nat /\ x \in Nat
    BY RewarderAssumption
  <2> QED BY <1>1, <1>7, <2>1, AddRewardTokenClaims
<1>8. CASE (\E n \in Refills : Refill(n)) \/ SetIsDeprecated \/ EmergencyTokenWithdraw
  <2>1. UNCHANGED <<info, share>>
    BY <1>8 DEF Refill, SetIsDeprecated, EmergencyTokenWithdraw
  <2> QED BY <1>1, <2>1, SameClaims
<1>9. CASE RewarderEmergencyWithdraw
  <2> SUFFICES ASSUME ~astray PROVE Covers'
    BY <1>1 DEF ClaimsInv
  <2>1. /\ info'.acc = info.acc /\ info'.accFactor = info.accFactor
        /\ info'.distributed = info.distributed /\ info'.claimed = info.claimed
        /\ share' = share
    BY <1>1, <1>9 DEF RewarderEmergencyWithdraw, InfoType
  <2> QED BY <1>1, <2>1, ReadyFacts, InfoStep
<1> QED BY <1>4, <1>5, <1>6, <1>7, <1>8, <1>9 DEF RewarderStep

LEMMA StepClaims ==
  ASSUME ClaimsReady, [Next]_vars
  PROVE  ClaimsInv'
<1>1. ASSUME NEW w \in {0} \cup Payments, StakerStep(w)
      PROVE  ClaimsInv'
  <2>1. w \in Nat
    BY MasterWombatAssumption
  <2> QED BY <1>1, <2>1, StakerStepClaims
<1>2. ASSUME NEW w \in {0} \cup Payments,
             UpdatePool(w) \/ \E b \in BasePartitions : UpdateEmissionPartition(b, w)
      PROVE  ClaimsInv'
  <2>1. UNCHANGED <<info, share, user, moves, astray>>
    BY <1>2 DEF UpdatePool, UpdateEmissionPartition, rewarderVars
  <2> QED BY <2>1, SameClaims
<1>3. ASSUME NEW u \in Users, EmergencyWithdraw(u)
      PROVE  ClaimsInv'
  BY <1>3, EmergencyWithdrawClaims
<1>4. CASE \/ \E name \in {"paused", "voter", "newMasterWombat"} : Switch(name)
           \/ SetBoostedRewarder
           \/ EmergencyWomWithdraw
           \/ Elapse
           \/ UNCHANGED vars
  <2>1. UNCHANGED <<info, share, user, moves>>
    BY <1>4 DEF Switch, SetBoostedRewarder, EmergencyWomWithdraw, Elapse, rewarderVars, poolVars, vars
  <2>2. \/ astray' = astray
        \/ astray' = (astray \/ settings.boostedRewarder)
    BY <1>4 DEF Switch, SetBoostedRewarder, EmergencyWomWithdraw, Elapse, vars
  <2>3. ~astray' => ~astray
    BY <2>2
  <2> QED BY <2>1, <2>3, SameClaims
<1>5. CASE RewarderStep
  <2>1. RInv'
    BY StepKeeps DEF ClaimsReady, WInv
  <2> QED BY <1>5, <2>1, RewarderStepClaims
<1> QED BY <1>1, <1>2, <1>3, <1>4, <1>5 DEF Next

LEMMA InitClaims == Init => ClaimsInv
<1> SUFFICES ASSUME Init PROVE Covers
  BY DEF ClaimsInv
<1>1. /\ user = [u \in Users |-> NoStake] /\ share = [u \in Users |-> NoShare]
      /\ moves = 0 /\ IsFiniteSet(Users) /\ ACC_TOKEN_PRECISION \in Nat \ {0}
      /\ info.acc = ACC_TOKEN_PRECISION /\ info.accFactor = 0
      /\ info.claimed = 0 /\ info.distributed = 0
  BY RewarderAssumption DEF Init, RewarderInit, NewInfo
<1>2. AllCopies
  BY <1>1 DEF AllCopies, Copy, NoStake, NoShare
<1>3. \A u \in Users : PartOf(info)[u] = 0
  <2>1. PICK k \in Nat \ {0} : k = ACC_TOKEN_PRECISION
    BY <1>1
  <2>2. 0 * k + 0 * 0 = 0 /\ k * 0 = 0 /\ 0 % k = 0
    OBVIOUS
  <2> QED BY <1>1, <2>1, <2>2 DEF PartOf, Part, FactorAlone, Fraction, Whole, NoStake, NoShare
<1>4. SumOver(PartOf(info), Users) = 0
  BY <1>1, <1>3, SumZero
<1>5. Excess(info) <= ACC_TOKEN_PRECISION * (2 * moves)
  <2>1. ACC_TOKEN_PRECISION * 0 = 0 /\ 2 * moves = 0
    BY <1>1
  <2> QED BY <1>1, <1>4, <2>1 DEF Excess
<1> QED BY <1>2, <1>5 DEF Covers

\* Divided by the precision, the claims are what the users can be paid.
LEMMA CoversClaims ==
  ASSUME ClaimsReady
  PROVE  ClaimsCovered
<1> SUFFICES ASSUME ~astray
             PROVE  SumOver([u \in Users |-> PendingReward(info, share[u])], Users) + info.claimed
                      <= info.distributed + 2 * moves
  BY DEF ClaimsCovered
<1>1. /\ Covers /\ moves \in Nat /\ IsFiniteSet(Users)
      /\ \A u \in Users : ShareOK(info, share[u], user[u])
  BY ReadyFacts, RewarderAssumption DEF Backed
<1>2. PICK k \in Nat \ {0} : k = ACC_TOKEN_PRECISION
  BY RewarderAssumption
<1> DEFINE pending == [u \in Users |-> PendingReward(info, share[u])]
           scaled == [u \in Users |-> k * pending[u]]
           parts == PartOf(info)
<1>3. ASSUME NEW u \in Users
      PROVE  /\ pending[u] \in Nat
             /\ scaled[u] = k * pending[u] /\ scaled[u] \in Int
             /\ parts[u] \in Int /\ scaled[u] <= parts[u]
  <2>1. /\ PendingReward(info, share[u]) \in Nat
        /\ Part(info, share[u], user[u]) \in Int
        /\ k * PendingReward(info, share[u]) <= Part(info, share[u], user[u])
    BY <1>1, <1>2, PartCovers
  <2>2. k * PendingReward(info, share[u]) \in Nat
    BY <2>1, ProductMonotone
  <2> QED BY <2>1, <2>2 DEF PartOf
<1> HIDE DEF pending, scaled, parts
<1>4. PICK total \in Nat : total = SumOver(pending, Users)
  BY <1>1, <1>3, SumNat
<1>5. SumOver(scaled, Users) = k * total
  <2>1. \A u \in Users : pending[u] \in Int /\ scaled[u] = k * pending[u]
    BY <1>3
  <2>2. SumOver(scaled, Users) = k * SumOver(pending, Users)
    BY <1>1, <2>1, SumScale
  <2> QED BY <1>4, <2>2
<1>6. SumOver(scaled, Users) <= SumOver(parts, Users) /\ SumOver(parts, Users) \in Int
  <2>1. \A u \in Users : scaled[u] \in Int /\ parts[u] \in Int /\ scaled[u] <= parts[u]
    BY <1>3
  <2>2. SumOver(scaled, Users) <= SumOver(parts, Users)
    BY <1>1, <2>1, SumLe
  <2>3. SumOver(parts, Users) \in Int
    BY <1>1, <2>1, SumInt
  <2> QED BY <2>2, <2>3
<1>7. PICK claimed \in Nat, dist \in Nat : claimed = info.claimed /\ dist = info.distributed
  BY DEF ClaimsReady, WInv, RInv, InfoType
<1>8. PICK sum \in Int : sum = SumOver(parts, Users) /\ k * total <= sum
  BY <1>5, <1>6
<1>9. sum + k * claimed - k * dist <= k * (2 * moves)
  BY <1>1, <1>2, <1>7, <1>8 DEF Covers, Excess, parts
<1>10. PICK n \in Nat : n = 2 * moves
  BY <1>1
<1>11. PICK a \in Nat, b \in Nat, c \in Nat, d \in Nat :
         a = k * total /\ b = k * claimed /\ c = k * dist /\ d = k * n
  BY ProductMonotone
<1>12. k * (total + claimed) = a + b /\ k * (dist + n) = c + d
  BY <1>11
<1>13. a + b <= c + d
  BY <1>8, <1>9, <1>10, <1>11
<1>14. k * (total + claimed) <= k * (dist + n)
  BY <1>12, <1>13
<1>15. total + claimed <= dist + n
  <2>1. total + claimed \in Nat /\ dist + n \in Nat
    OBVIOUS
  <2> QED BY <1>14, <2>1, CancelFactor
<1> QED BY <1>4, <1>7, <1>10, <1>15 DEF pending

\* All users together can claim, and have claimed, no more than the rewarder
\* distributed, as long as it missed no change of a stake, up to two units for
\* each such change: whatever is reported, claimed in an emergency, recorded
\* by updateFactor or added anew, and in whatever order
\* (BoostedMultiRewarder.sol:311).
THEOREM ClaimsStayCovered == Spec => []ClaimsCovered
<1>1. Init => ClaimsReady
  BY MInit, InitFunds, InitClaims DEF ClaimsReady, ClaimsInv, SyncInv, SharesInSync, Detached,
     Init, RewarderInit, NoShare
<1>2. ClaimsReady /\ [Next]_vars => ClaimsReady'
  <2> SUFFICES ASSUME ClaimsReady, [Next]_vars PROVE ClaimsReady'
    OBVIOUS
  <2>1. WInv' /\ FundsInv' /\ SyncInv'
    BY StepKeeps, StepFunds, StepSync DEF ClaimsReady
  <2> QED BY <2>1, StepClaims DEF ClaimsReady
<1>3. ClaimsReady => ClaimsCovered
  BY CoversClaims
<1> QED BY <1>1, <1>2, <1>3, PTL DEF Spec

-----------------------------------------------------------------------------
(* DSMath.sqrt, for every input and every guess: what it returns is the    *)
(* integer square root, and it never returns when the input is one below a *)
(* square above 4.                                                         *)

\* Division rounds down.
LEMMA DivisionRoundsDown ==
  ASSUME NEW a \in Nat, NEW b \in Nat \ {0}
  PROVE  /\ a \div b \in Nat
         /\ b * (a \div b) <= a
         /\ a < b * (a \div b) + b
  OBVIOUS

\* Newton's step stays positive.
LEMMA ImprovePositive ==
  ASSUME NEW n \in Nat, n > 3, NEW r \in Nat \ {0}
  PROVE  (n \div r + r) \div 2 \in Nat \ {0}
<1>1. n \div r \in Nat
  BY DivisionRoundsDown
<1>2. n \div r + r >= 2
  <2>1. CASE r = 1
    BY <1>1, <2>1
  <2>2. CASE r > 1
    BY <1>1, <2>2
  <2>3. QED
    BY <2>1, <2>2
<1>3. QED
  BY <1>1, <1>2

\* A fixed point of Newton's step: the input lies between the square of r and two
\* below the next square.
LEMMA NewtonFixedPoint ==
  ASSUME NEW n \in Nat, NEW r \in Nat \ {0}, r = (n \div r + r) \div 2
  PROVE  r * r <= n /\ n < r * r + 2 * r
<1> DEFINE q == n \div r
<1>1. q \in Nat /\ r * q <= n /\ n < r * q + r
  BY DivisionRoundsDown
<1> HIDE DEF q
<1>2. r = (q + r) \div 2
  BY DEF q
<1>3. q = r \/ q = r + 1
  BY <1>1, <1>2
<1>4. CASE q = r
  BY <1>1, <1>4
<1>5. CASE q = r + 1
  <2>1. r * q = r * r + r
    BY <1>5
  <2>2. QED
    BY <1>1, <2>1
<1>6. QED
  BY <1>3, <1>4, <1>5
-----------------------------------------------------------------------------
\* While the loop runs, the estimate is always Newton's step from the root; when it
\* has ended, either the input was too small to enter it or the root is a fixed
\* point.
LoopInv ==
  /\ radicand \in Nat /\ root \in Nat /\ estimate \in Nat
  /\ returned \in BOOLEAN
  /\ radicand > 3 => root > 0 /\ estimate > 0 /\ estimate = (radicand \div root + root) \div 2
  /\ returned /\ radicand > 3 => estimate = root
  /\ radicand <= 3 => returned /\ root = IF radicand = 0 THEN 0 ELSE 1

LEMMA LoopInvInit == SqrtInit => LoopInv
<1> SUFFICES ASSUME SqrtInit PROVE LoopInv
  OBVIOUS
<1>1. radicand \in Nat
  BY SquareRootAssumption DEF SqrtInit
<1>2. CASE radicand > 3
  <2>1. PICK guess \in Guesses : root = Start(radicand, guess)
    BY <1>2 DEF SqrtInit
  <2>2. guess \in Nat
    BY SquareRootAssumption
  <2>3. root \in Nat \ {0}
    BY <1>1, <1>2, <2>1, <2>2 DEF Start
  <2>4. estimate = (radicand \div root + root) \div 2 /\ returned = FALSE
    BY <1>2 DEF SqrtInit, Improve
  <2>5. estimate \in Nat \ {0}
    BY <1>1, <1>2, <2>3, <2>4, ImprovePositive
  <2>6. ~returned /\ returned \in BOOLEAN
    BY <2>4
  <2>7. ~(radicand <= 3) /\ root > 0 /\ estimate > 0
    BY <1>1, <1>2, <2>3, <2>5
  <2>8. QED
    BY <1>1, <2>3, <2>4, <2>5, <2>6, <2>7 DEF LoopInv
<1>3. CASE ~(radicand > 3)
  BY <1>1, <1>3 DEF SqrtInit, LoopInv
<1>4. QED
  BY <1>2, <1>3

LEMMA LoopInvStep == LoopInv /\ [SqrtNext]_sqrtVars => LoopInv'
<1> SUFFICES ASSUME LoopInv, [SqrtNext]_sqrtVars PROVE LoopInv'
  OBVIOUS
<1>1. CASE LoopTurn
  <2>1. radicand > 3
    BY <1>1 DEF LoopInv, LoopTurn
  <2>2. estimate \in Nat \ {0}
    BY <2>1 DEF LoopInv
  <2>3. (radicand \div estimate + estimate) \div 2 \in Nat \ {0}
    BY <2>1, <2>2, ImprovePositive DEF LoopInv
  <2>4. QED
    BY <1>1, <2>1, <2>2, <2>3 DEF LoopInv, LoopTurn
<1>2. CASE Return
  BY <1>2 DEF LoopInv, Return
<1>3. CASE UNCHANGED sqrtVars
  BY <1>3 DEF LoopInv, sqrtVars
<1>4. QED
  BY <1>1, <1>2, <1>3 DEF SqrtNext

\* The loop keeps Newton's step between its two estimates.
THEOREM LoopInvariant == SqrtSpec => []LoopInv
BY LoopInvInit, LoopInvStep, PTL DEF SqrtSpec

\* Every result is the integer square root of its input, from any guess.
THEOREM ResultIsRoot == SqrtSpec => []ReturnsRoot
<1>1. LoopInv => ReturnsRoot
  <2> SUFFICES ASSUME LoopInv, returned PROVE IsFloorRoot(root, radicand)
    BY DEF ReturnsRoot
  <2>1. CASE radicand > 3
    <3>1. root \in Nat \ {0} /\ root = (radicand \div root + root) \div 2
      BY <2>1 DEF LoopInv
    <3>2. root * root <= radicand /\ radicand < root * root + 2 * root
      BY <3>1, NewtonFixedPoint DEF LoopInv
    <3>3. (root + 1) * (root + 1) = root * root + 2 * root + 1
      BY <3>1
    <3>4. QED
      BY <3>1, <3>2, <3>3 DEF IsFloorRoot, LoopInv
  <2>2. CASE radicand <= 3
    BY <2>2 DEF LoopInv, IsFloorRoot
  <2>3. QED
    BY <2>1, <2>2 DEF LoopInv
<1>2. QED
  BY <1>1, LoopInvariant, PTL

\* For an input one below a square above 4, no guess makes the function return.
THEOREM NeverReturns == SqrtSpec => []NeverReturnsOneBelowSquare
<1>1. LoopInv => NeverReturnsOneBelowSquare
  <2> SUFFICES ASSUME LoopInv, radicand > 3, returned,
                      NEW n \in 1..radicand, radicand + 1 = n * n
               PROVE  FALSE
    BY DEF NeverReturnsOneBelowSquare, OneBelowSquare, OneBelowSquareOf
  <2>1. root \in Nat \ {0} /\ root = (radicand \div root + root) \div 2
    BY DEF LoopInv
  <2>2. root * root <= radicand /\ radicand < root * root + 2 * root
    BY <2>1, NewtonFixedPoint DEF LoopInv
  <2>3. CASE n <= root
    <3>1. n * n <= root * root
      BY <2>1, <2>3
    <3>2. QED
      BY <2>1, <2>2, <3>1 DEF LoopInv
  <2>4. CASE n >= root + 1
    <3>1. n * n >= (root + 1) * (root + 1)
      BY <2>1, <2>4
    <3>2. (root + 1) * (root + 1) = root * root + 2 * root + 1
      BY <2>1
    <3>3. QED
      BY <2>1, <2>2, <3>1, <3>2 DEF LoopInv
  <2>5. QED
    BY <2>1, <2>3, <2>4
<1>2. QED
  BY <1>1, LoopInvariant, PTL

\* The root that MasterWombat's model takes of a product is what the loop returns.
LEMMA FloorRootOf ==
  ASSUME NEW n \in Nat, NEW r \in Nat, IsFloorRoot(r, n)
  PROVE  FloorRoot(n) = r
<1> DEFINE roots == {k \in 1..n : k * k <= n}
<1>1. ASSUME NEW k \in 1..n, k * k <= n
      PROVE  k <= r
  <2>1. SUFFICES ASSUME k >= r + 1 PROVE FALSE
    OBVIOUS
  <2>2. k * k >= (r + 1) * (r + 1)
    BY <2>1
  <2> QED BY <1>1, <2>2 DEF IsFloorRoot
<1>2. ASSUME NEW k \in 1..r
      PROVE  k \in 1..n /\ k * k <= n
  <2>1. k * k <= r * r
    OBVIOUS
  <2>2. k <= k * k
    OBVIOUS
  <2> QED BY <2>1, <2>2 DEF IsFloorRoot
<1>3. roots = 1..r
  BY <1>1, <1>2
<1>4. Cardinality(1..r) = r
  BY FS_Interval
<1> QED BY <1>3, <1>4 DEF FloorRoot

\* Where sqrt returns on a stake times a veWOM balance, it returns the boosting
\* factor of the model, and the model's condition that it returns holds: what
\* MasterWombat assumes of sqrt is what its loop does.
THEOREM FactorIsWhatSqrtReturns ==
  SqrtSpec => [](\A amount \in Nat, ve \in Nat :
                   returned /\ radicand = amount * ve
                     => Boost(amount, ve) = root /\ BoostReturns(amount, ve))
<1> DEFINE Agrees == \A amount \in Nat, ve \in Nat :
                       returned /\ radicand = amount * ve
                         => Boost(amount, ve) = root /\ BoostReturns(amount, ve)
<1>1. LoopInv /\ ReturnsRoot /\ NeverReturnsOneBelowSquare => Agrees
  <2> SUFFICES ASSUME LoopInv, ReturnsRoot, NeverReturnsOneBelowSquare,
                      NEW amount \in Nat, NEW ve \in Nat, returned, radicand = amount * ve
               PROVE  Boost(amount, ve) = root /\ BoostReturns(amount, ve)
    OBVIOUS
  <2>1. radicand \in Nat /\ root \in Nat /\ IsFloorRoot(root, radicand)
    BY DEF LoopInv, ReturnsRoot
  <2>2. PICK n \in Nat, r \in Nat : n = radicand /\ r = root
    BY <2>1
  <2>3. FloorRoot(radicand) = root
    BY <2>1, <2>2, FloorRootOf
  <2>4. radicand <= 3 \/ ~OneBelowSquare(radicand)
    BY <2>1 DEF NeverReturnsOneBelowSquare
  <2> QED BY <2>3, <2>4 DEF Boost, BoostReturns, RootReturns
<1> QED BY <1>1, LoopInvariant, ResultIsRoot, NeverReturns, PTL
=============================================================================
