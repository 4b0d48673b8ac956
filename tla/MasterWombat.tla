---------------------------- MODULE MasterWombat ----------------------------
(***************************************************************************)
(* BoostedMasterWombat: users stake LP tokens and share the WOM that the   *)
(* Voter sends, one part by stake and one by boosting factor, the square   *)
(* root of stake times veWOM.  Every operation first brings the pool up to *)
(* date, in the middle of which the Voter may pay and restart the period.  *)
(*                                                                         *)
(* One pool: pools share only the WOM balance.  The Voter and veWOM are    *)
(* seen through their calls: a payment of any size at an update of the     *)
(* pool, and updateFactor with a new balance.  A revert undoes the whole   *)
(* transaction, so a reverting call is a step that is not enabled.         *)
(***************************************************************************)
EXTENDS BoostedRewarder, RootMath, Sums

CONSTANTS
  Stakes,             \* LP amounts staked or withdrawn
  MaxStake,           \* bound on a user's stake
  VeBalances,         \* veWOM balances a user may have
  Payments,           \* amounts the Voter pays
  MaxPayments,        \* bound on the payments
  REWARD_DURATION,
  InitialBase, BasePartitions,   \* basePartition at first; values to set
  InitialRewarders,   \* is a rewarder attached at first: TRUE, FALSE or either
  MaxTime,            \* bound on the clock
  MaxMoves,           \* bound on the changes of a stake or a factor
  MaxChanges          \* bound on the owner's transactions

ASSUME MasterWombatAssumption ==
  /\ Stakes \subseteq Nat \ {0} /\ MaxStake \in Nat
  /\ VeBalances \subseteq Nat /\ 0 \in VeBalances
  /\ Payments \subseteq Nat \ {0} /\ MaxPayments \in Nat
  /\ REWARD_DURATION \in Nat \ {0}
  /\ InitialBase \in 0..TOTAL_PARTITION /\ BasePartitions \subseteq 0..TOTAL_PARTITION
  /\ InitialRewarders \subseteq BOOLEAN
  /\ MaxTime \in Nat /\ MaxMoves \in Nat /\ MaxChanges \in Nat

VARIABLES
  pool,          \* poolInfoV3[pid]
  user,          \* userInfo[pid]
  veBalance,     \* veWom.balanceOf
  lpHeld,        \* LP tokens owned by the contract
  womHeld,       \* WOM owned by the contract
  settings,      \* what the owner set
  paid,          \* history: WOM each user received
  drained,       \* history: the owner took the WOM
  astray,        \* history: the rewarder missed a change of a stake
  moves, payments, changes     \* counters of the bounds

poolVars == <<pool, user, lpHeld, womHeld, paid, payments>>
vars == <<now, rewarderVars, poolVars, veBalance, settings, drained, astray, moves, changes>>

NoStake == [amount |-> 0, factor |-> 0, rewardDebt |-> 0, pendingWom |-> 0]

Init ==
  /\ now = 0
  /\ RewarderInit
  /\ pool = [accWomPerShare |-> 0, accWomPerFactorShare |-> 0, sumOfFactors |-> 0,
             rewardRate |-> 0, periodFinish |-> now, lastRewardTimestamp |-> now]
  /\ user = [u \in Users |-> NoStake]
  /\ veBalance = [u \in Users |-> 0]
  /\ lpHeld = 0 /\ womHeld = 0
  /\ settings \in [paused : {FALSE}, voter : {TRUE}, newMasterWombat : {FALSE},
                   boostedRewarder : InitialRewarders, basePartition : {InitialBase}]
  /\ paid = [u \in Users |-> 0]
  /\ drained = FALSE /\ astray = FALSE
  /\ moves = 0 /\ payments = 0 /\ changes = 0
-----------------------------------------------------------------------------
\* Mutant: rewards are counted past the end of the period.
LastTimeRewardUnbounded(finish) == now

LastTimeRewardApplicable(finish) == Min({now, finish})

WomPerUnit(p, part, total) ==
  ((LastTimeRewardApplicable(p.periodFinish) - p.lastRewardTimestamp) * p.rewardRate
     * ACC_TOKEN_PRECISION * part) \div (total * TOTAL_PARTITION)

\* calRewardPerUnit and the new lastRewardTimestamp; without stakes the
\* rewards of the time since the last update go to nobody.
AccruedPool ==
  LET base == settings.basePartition
      sum == pool.sumOfFactors
  IN  [accWomPerShare |-> pool.accWomPerShare +
         IF lpHeld = 0 THEN 0 ELSE WomPerUnit(pool, base, lpHeld),
       accWomPerFactorShare |-> pool.accWomPerFactorShare +
         IF lpHeld = 0 \/ sum = 0 THEN 0 ELSE WomPerUnit(pool, TOTAL_PARTITION - base, sum),
       sumOfFactors |-> sum,
       rewardRate |-> pool.rewardRate,
       periodFinish |-> pool.periodFinish,
       lastRewardTimestamp |-> LastTimeRewardApplicable(pool.periodFinish)]

\* Mutant: the leftover is counted from the start of the period again.
NotifyRewardAmountTwice(p, amount) ==
  [p EXCEPT !.rewardRate = (amount + REWARD_DURATION * p.rewardRate) \div REWARD_DURATION,
            !.lastRewardTimestamp = now,
            !.periodFinish = now + REWARD_DURATION]

\* What is left of the running period joins the new one.
NotifyRewardAmount(p, amount) ==
  LET leftover == IF p.lastRewardTimestamp >= p.periodFinish THEN 0
                  ELSE (p.periodFinish - p.lastRewardTimestamp) * p.rewardRate
  IN  [p EXCEPT !.rewardRate = (amount + leftover) \div REWARD_DURATION,
                !.lastRewardTimestamp = now,
                !.periodFinish = now + REWARD_DURATION]

\* _updatePool, in which the Voter pays w (0: it pays nothing).
UpdatedPool(w) ==
  IF now <= pool.lastRewardTimestamp THEN pool
  ELSE IF w = 0 THEN AccruedPool ELSE NotifyRewardAmount(AccruedPool, w)

VoterPays(w) ==
  /\ w > 0 => /\ now > pool.lastRewardTimestamp
              /\ settings.voter
              /\ payments < MaxPayments
  /\ payments' = IF w > 0 THEN payments + 1 ELSE payments

WomDebt(p, s) == Debt(s.amount, p.accWomPerShare, s.factor, p.accWomPerFactorShare)

\* What a claim pays a user of the pool p.
Owed(p, s) == WomDebt(p, s) + s.pendingWom - s.rewardDebt

\* The boosting factor, as long as DSMath.sqrt returns (module SquareRoot);
\* a transaction in which it does not runs out of gas.
Boost(amount, ve) == FloorRoot(amount * ve)
BoostReturns(amount, ve) == RootReturns(amount * ve)
-----------------------------------------------------------------------------
\* Mutant: the rewarder is called after the LP tokens have left.
TellRewarderLate(u, amount, factor) ==
  IF settings.boostedRewarder
  THEN OnReward(u, amount, factor, lpHeld - (user[u].amount - amount), pool.sumOfFactors,
                settings.basePartition)
  ELSE UNCHANGED rewarderVars

\* The rewarder is called with the totals of before the change.
TellRewarder(u, amount, factor) ==
  IF settings.boostedRewarder
  THEN OnReward(u, amount, factor, lpHeld, pool.sumOfFactors, settings.basePartition)
  ELSE UNCHANGED rewarderVars

PayWom(u, reward, w) ==
  /\ reward <= womHeld + w
  /\ womHeld' = womHeld + w - reward
  /\ paid' = [paid EXCEPT ![u] = @ + reward]

\* The pool p and the LP tokens follow the new stake and factor of u. The
\* subtractions are checked, and so is the transfer of the LP tokens.
TotalsFollow(p, u, amount, factor) ==
  /\ p.sumOfFactors + factor >= user[u].factor
  /\ pool' = [p EXCEPT !.sumOfFactors = @ + factor - user[u].factor]
  /\ lpHeld + amount >= user[u].amount
  /\ lpHeld' = lpHeld + amount - user[u].amount

\* The stake of u becomes amount: harvest, new factor and debt, rewarder, sum.
UpdateUserAmount(u, amount, w) ==
  LET p == UpdatedPool(w)
      factor == Boost(amount, veBalance[u])
  IN  /\ BoostReturns(amount, veBalance[u])
      /\ VoterPays(w)
      /\ PayWom(u, Owed(p, user[u]), w)
      /\ user' = [user EXCEPT ![u] =
           [amount |-> amount, factor |-> factor,
            rewardDebt |-> Debt(amount, p.accWomPerShare, factor, p.accWomPerFactorShare),
            pendingWom |-> 0]]
      /\ TellRewarder(u, amount, factor)
      /\ TotalsFollow(p, u, amount, factor)

CountMove == moves < MaxMoves /\ moves' = moves + 1

\* deposit, and depositFor by someone else.
Deposit(u, n, w) ==
  /\ ~settings.paused
  /\ user[u].amount + n <= MaxStake
  /\ CountMove
  /\ UpdateUserAmount(u, user[u].amount + n, w)
  /\ UNCHANGED <<now, veBalance, settings, drained, astray, changes>>

Withdraw(u, n, w) ==
  /\ ~settings.paused
  /\ user[u].amount >= n
  /\ CountMove
  /\ UpdateUserAmount(u, user[u].amount - n, w)
  /\ UNCHANGED <<now, veBalance, settings, drained, astray, changes>>

\* A deposit of nothing: claims even without a stake.
Harvest(u, w) ==
  /\ ~settings.paused
  /\ UpdateUserAmount(u, user[u].amount, w)
  /\ UNCHANGED <<now, veBalance, settings, drained, astray, moves, changes>>

\* Mutant: what updateFactor put aside is forgotten.
ClaimWomForgetsPending(u, p, w) ==
  /\ PayWom(u, IF user[u].amount > 0 THEN WomDebt(p, user[u]) - user[u].rewardDebt ELSE 0, w)
  /\ IF user[u].amount > 0 THEN TellRewarder(u, user[u].amount, user[u].factor)
     ELSE UNCHANGED rewarderVars

\* _multiClaim for one pool: its update p, the debt and the WOM.
ClaimWom(u, p, w) ==
  /\ PayWom(u, IF user[u].amount > 0 THEN Owed(p, user[u]) ELSE 0, w)
  /\ IF user[u].amount > 0 THEN TellRewarder(u, user[u].amount, user[u].factor)
     ELSE UNCHANGED rewarderVars

MultiClaim(u, w) ==
  LET p == UpdatedPool(w)
  IN  /\ ~settings.paused
      /\ VoterPays(w)
      /\ ClaimWom(u, p, w)
      /\ pool' = p
      /\ user' = IF user[u].amount > 0
                 THEN [user EXCEPT ![u] = [amount |-> user[u].amount, factor |-> user[u].factor,
                                           rewardDebt |-> WomDebt(p, user[u]), pendingWom |-> 0]]
                 ELSE user
      /\ UNCHANGED <<now, lpHeld, veBalance, settings, drained, astray, moves, changes>>

\* Claims, moves the stake to the new MasterWombat and deletes the user; the
\* rewarder keeps its copy of the stake.
Migrate(u, w) ==
  LET p == UpdatedPool(w)
  IN  /\ settings.newMasterWombat
      /\ user[u].amount > 0
      /\ CountMove
      /\ VoterPays(w)
      /\ ClaimWom(u, p, w)
      /\ TotalsFollow(p, u, 0, 0)
      /\ user' = [user EXCEPT ![u] = NoStake]
      /\ astray' = (astray \/ settings.boostedRewarder)
      /\ UNCHANGED <<now, veBalance, settings, drained, changes>>

\* Mutant: the factor stays with the user.
EmergencyWithdrawKeepsFactor(u) ==
  /\ CountMove
  /\ TellRewarder(u, 0, 0)
  /\ pool' = [pool EXCEPT !.sumOfFactors = @ - user[u].factor]
  /\ user' = [user EXCEPT ![u].amount = 0, ![u].rewardDebt = 0]
  /\ lpHeld' = lpHeld - user[u].amount
  /\ UNCHANGED <<now, womHeld, paid, payments, veBalance, settings, drained, astray, changes>>

\* Gives the stake back without an update of the pool; pendingWom stays.
EmergencyWithdraw(u) ==
  /\ CountMove
  /\ TellRewarder(u, 0, 0)
  /\ TotalsFollow(pool, u, 0, 0)
  /\ user' = [user EXCEPT ![u] = [amount |-> 0, factor |-> 0, rewardDebt |-> 0,
                                  pendingWom |-> user[u].pendingWom]]
  /\ UNCHANGED <<now, womHeld, paid, payments, veBalance, settings, drained, astray, changes>>

\* A mint or burn of veWOM leaves u with b, and veWOM calls updateFactor.
UpdateFactor(u, b, w) ==
  LET p == UpdatedPool(w)
      s == user[u]
      factor == Boost(s.amount, b)
  IN  /\ b # veBalance[u]
      /\ CountMove
      /\ veBalance' = [veBalance EXCEPT ![u] = b]
      /\ IF s.amount = 0
         THEN w = 0 /\ UNCHANGED <<poolVars, rewarderVars, astray>>
         ELSE /\ BoostReturns(s.amount, b)
              /\ VoterPays(w)
              /\ womHeld' = womHeld + w
              /\ user' = [user EXCEPT ![u] =
                   [amount |-> s.amount, factor |-> factor,
                    rewardDebt |-> Debt(s.amount, p.accWomPerShare, factor, p.accWomPerFactorShare),
                    pendingWom |-> Owed(p, s)]]
              /\ IF settings.boostedRewarder
                 THEN OnUpdateFactor(u, factor, lpHeld, pool.sumOfFactors, settings.basePartition)
                 ELSE UNCHANGED rewarderVars
              /\ TotalsFollow(p, u, s.amount, factor)
              /\ astray' = (astray \/ /\ settings.boostedRewarder
                                      /\ settings.basePartition = TOTAL_PARTITION
                                      /\ factor # s.factor)
              /\ UNCHANGED paid
      /\ UNCHANGED <<now, settings, drained, changes>>

\* updatePool and massUpdatePools, by anyone.
UpdatePool(w) ==
  /\ now > pool.lastRewardTimestamp
  /\ VoterPays(w)
  /\ pool' = UpdatedPool(w)
  /\ womHeld' = womHeld + w
  /\ UNCHANGED <<now, rewarderVars, user, lpHeld, paid, veBalance, settings, drained, astray, moves, changes>>
-----------------------------------------------------------------------------
OwnerChange == changes < MaxChanges /\ changes' = changes + 1

UpdateEmissionPartition(b, w) ==
  /\ OwnerChange
  /\ VoterPays(w)
  /\ pool' = UpdatedPool(w)
  /\ womHeld' = womHeld + w
  /\ settings' = [settings EXCEPT !.basePartition = b]
  /\ UNCHANGED <<now, rewarderVars, user, lpHeld, paid, veBalance, drained, astray, moves>>

\* pause, unpause, setVoter (to none or back) and setNewMasterWombat.
Switch(name) ==
  /\ OwnerChange
  /\ settings' = [settings EXCEPT ![name] = ~@]
  /\ UNCHANGED <<now, rewarderVars, poolVars, veBalance, drained, astray, moves>>

\* Taking the rewarder away and back: it misses what happens in between.
SetBoostedRewarder ==
  /\ OwnerChange
  /\ settings' = [settings EXCEPT !.boostedRewarder = ~@]
  /\ astray' = (astray \/ settings.boostedRewarder)
  /\ UNCHANGED <<now, rewarderVars, poolVars, veBalance, drained, moves>>

EmergencyWomWithdraw ==
  /\ OwnerChange
  /\ womHeld' = 0 /\ drained' = TRUE
  /\ UNCHANGED <<now, rewarderVars, pool, user, lpHeld, paid, payments, veBalance, settings, astray, moves>>

Elapse ==
  /\ now < MaxTime
  /\ now' = now + 1
  /\ UNCHANGED <<rewarderVars, poolVars, veBalance, settings, drained, astray, moves, changes>>

\* Transactions on the rewarder alone, which reads MasterWombat's totals.
RewarderStep ==
  LET sum == pool.sumOfFactors
      base == settings.basePartition
  IN  /\ \/ /\ \/ UpdateReward(lpHeld, sum, base)
               \/ \E n \in Refills : Refill(n)
               \/ \E u \in Users : EmergencyClaimReward(u, lpHeld, sum, base)
            /\ UNCHANGED changes
         \/ /\ OwnerChange
            /\ \/ \E r \in TokenRates, t \in StartTimes :
                    SetRewardRate(r, t, lpHeld, sum, base) \/ AddRewardToken(r, t)
               \/ SetIsDeprecated
               \/ RewarderEmergencyWithdraw
               \/ EmergencyTokenWithdraw
      /\ UNCHANGED <<now, poolVars, veBalance, settings, drained, astray, moves>>

StakerStep(w) ==
  \E u \in Users :
    \/ \E n \in Stakes : Deposit(u, n, w) \/ Withdraw(u, n, w)
    \/ Harvest(u, w)
    \/ MultiClaim(u, w)
    \/ Migrate(u, w)
    \/ \E b \in VeBalances : UpdateFactor(u, b, w)

Next ==
  \/ \E w \in {0} \cup Payments :
       \/ StakerStep(w)
       \/ UpdatePool(w)
       \/ \E b \in BasePartitions : UpdateEmissionPartition(b, w)
  \/ \E u \in Users : EmergencyWithdraw(u)
  \/ \E name \in {"paused", "voter", "newMasterWombat"} : Switch(name)
  \/ SetBoostedRewarder
  \/ EmergencyWomWithdraw
  \/ RewarderStep
  \/ Elapse

Spec == Init /\ [][Next]_vars
-----------------------------------------------------------------------------
TypeOK ==
  /\ now \in Nat
  /\ pool \in [accWomPerShare : Nat, accWomPerFactorShare : Nat, sumOfFactors : Nat,
               rewardRate : Nat, periodFinish : Nat, lastRewardTimestamp : Nat]
  /\ user \in [Users -> [amount : Nat, factor : Nat, rewardDebt : Nat, pendingWom : Nat]]
  /\ veBalance \in [Users -> Nat]
  /\ lpHeld \in Nat /\ womHeld \in Nat
  /\ paid \in [Users -> Nat]
  /\ info \in [acc : Nat, accFactor : Nat, distributed : Nat, claimed : Nat, last : Nat,
               tokenPerSec : Nat]
  /\ share \in [Users -> [amount : Nat, factor : Nat, debt : Nat, unpaid : Nat]]
  /\ tokens \in Nat /\ claimedBy \in [Users -> Nat]

\* The sum of factors and the LP tokens are those of the users, and every
\* factor is the one of the stake and the veWOM the user has now, although the
\* two change in different contracts (updateFactor, BoostedMasterWombat.sol:585).
BoostsFresh ==
  /\ \A u \in Users : user[u].factor = Boost(user[u].amount, veBalance[u])
  /\ pool.sumOfFactors = SumOver([u \in Users |-> user[u].factor], Users)
  /\ lpHeld = SumOver([u \in Users |-> user[u].amount], Users)

\* The subtraction of timestamps in calRewardPerUnit does not underflow, which
\* would make every deposit and withdrawal revert from then on.
PeriodInOrder ==
  /\ pool.lastRewardTimestamp <= Min({now, pool.periodFinish})
  /\ pool.periodFinish <= now + REWARD_DURATION

Leftover == (pool.periodFinish - pool.lastRewardTimestamp) * pool.rewardRate

\* The contract has the WOM it owes its users and the rest of the period, up
\* to the unit that each change of a stake or factor may round away.
RewardsFunded ==
  drained \/ SumOver([u \in Users |-> Owed(pool, user[u])], Users) + Leftover <= womHeld + moves

\* No transaction costs a user WOM already earned, but the user's own
\* emergencyWithdraw, and that leaves what is in pendingWom.
EarningsKept ==
  [][\A u \in Users :
       \/ paid[u] + Owed(pool, user[u]) <= paid'[u] + Owed(pool', user'[u])
       \/ EmergencyWithdraw(u) /\ user'[u].pendingWom = user[u].pendingWom]_vars

\* The rewarder's copy of a stake is MasterWombat's, or nothing yet, as long as
\* no change was kept from it.
SharesInSync ==
  astray \/ \A u \in Users : /\ share[u].amount \in {0, user[u].amount}
                             /\ share[u].factor \in {0, user[u].factor}

\* Tokens are only distributed as far as the balance reserves them.
DistributionCovered == emptied \/ info.distributed <= info.claimed + tokens

\* All users together claim no more than was distributed, as long as the
\* rewarder's shares follow the stakes, up to the two units that a change may
\* round away: the factor is recorded alone after an emergency claim.
ClaimsCovered ==
  astray \/ SumOver([u \in Users |-> PendingReward(info, share[u])], Users) + info.claimed
              <= info.distributed + 2 * moves

\* No step costs a user reward tokens already earned (KeepsRewards), in
\* particular no call between the two contracts (BoostedMultiRewarder.sol:311).
RewardsKept == [][KeepsRewards]_vars

\* The comment on the state of the rewarder: "claimedAmount always <=
\* distributedAmount" (BoostedMultiRewarder.sol:101).
ClaimedWithinDistributed == info.claimed <= info.distributed
=============================================================================
