--------------------------- MODULE BoostedRewarder ---------------------------
(***************************************************************************)
(* BoostedMultiRewarder: pays stakers of one pool of MasterWombat a second *)
(* token, at a rate per second as long as its balance lasts.  It keeps a   *)
(* copy of each user's stake and boosting factor, which MasterWombat       *)
(* reports, but reads the totals from MasterWombat.                        *)
(*                                                                         *)
(* One reward token: the tokens of a rewarder share nothing but the stakes.*)
(***************************************************************************)
EXTENDS Integers, FiniteSetsExt

CONSTANTS
  Users,
  ACC_TOKEN_PRECISION,   \* fixed point of the accumulators
  MinSupply,             \* 1e18 in max(lpSupply, 1e18)
  TOTAL_PARTITION,
  InitialTokenPerSec, TokenRates,   \* tokenPerSec at first; values to set
  StartTimes,            \* _startTimestampToOverride, 0 for none
  Refills,               \* amounts of the token sent to the rewarder
  MaxTokens              \* bound on the tokens ever sent

ASSUME RewarderAssumption ==
  /\ IsFiniteSet(Users)
  /\ ACC_TOKEN_PRECISION \in Nat \ {0} /\ MinSupply \in Nat \ {0}
  /\ TOTAL_PARTITION \in Nat \ {0}
  /\ InitialTokenPerSec \in Nat /\ TokenRates \subseteq Nat
  /\ StartTimes \subseteq Nat /\ Refills \subseteq Nat /\ MaxTokens \in Nat

VARIABLES
  now,          \* block.timestamp
  info,         \* rewardInfos[0]
  share,        \* userBalanceInfo and userRewardInfo
  tokens,       \* balance of the reward token
  deprecated,
  claimedBy,    \* history: tokens each user received
  sent,         \* history: tokens ever sent to the rewarder
  emptied       \* history: the owner took the balance

rewarderVars == <<info, share, tokens, deprecated, claimedBy, sent, emptied>>

NoShare == [amount |-> 0, factor |-> 0, debt |-> 0, unpaid |-> 0]

\* The accumulator starts above zero: a debt tells that a user is registered.
NewInfo(rate, start) ==
  [acc |-> ACC_TOKEN_PRECISION, accFactor |-> 0, distributed |-> 0, claimed |-> 0,
   last |-> start, tokenPerSec |-> rate]

RewarderInit ==
  /\ info = NewInfo(InitialTokenPerSec, now)
  /\ share = [u \in Users |-> NoShare]
  /\ tokens = 0 /\ sent = 0
  /\ deprecated = FALSE /\ emptied = FALSE
  /\ claimedBy = [u \in Users |-> 0]

\* _getRewardDebt, the same in MasterWombat.
Debt(amount, acc, factor, accFactor) ==
  (amount * acc + factor * accFactor) \div ACC_TOKEN_PRECISION

Available == Max({0, info.claimed + tokens - info.distributed})

\* Mutant: distributes at the rate whatever the balance.
RewardsToDistributeUncapped ==
  IF now < info.last THEN 0 ELSE info.tokenPerSec * (now - info.last)

\* What has accumulated since the last update, as far as the balance covers it.
RewardsToDistribute ==
  IF now < info.last THEN 0
  ELSE Min({info.tokenPerSec * (now - info.last), Available})

PerShare(reward, part, total) ==
  ((reward * ACC_TOKEN_PRECISION * part) \div total) \div TOTAL_PARTITION

\* _updateReward, for the stakes, the sum of factors and the base partition
\* that MasterWombat has at the time of the call.
UpdatedInfo(supply, sum, base) ==
  LET r == RewardsToDistribute
  IN  [acc |-> info.acc + PerShare(r, base, Max({supply, MinSupply})),
       accFactor |-> info.accFactor + IF sum > 0 THEN PerShare(r, TOTAL_PARTITION - base, sum) ELSE 0,
       distributed |-> info.distributed + r,
       claimed |-> info.claimed,
       last |-> Max({info.last, now}),
       tokenPerSec |-> info.tokenPerSec]

\* A user without debt and without unpaid rewards has not been registered yet.
PendingReward(i, s) ==
  IF s.debt > 0 \/ s.unpaid > 0
  THEN Debt(s.amount, i.acc, s.factor, i.accFactor) + s.unpaid - s.debt
  ELSE 0

\* Mutant: what could not be paid is written off.
UnpaidDropped(pending) == 0

Unpaid(pending) == pending - Min({pending, tokens})

OnReward(u, amount, factor, supply, sum, base) ==
  LET i == UpdatedInfo(supply, sum, base)
      pending == PendingReward(i, share[u])
      reward == Min({pending, tokens})
  IN  /\ info' = [i EXCEPT !.claimed = @ + reward]
      /\ share' = [share EXCEPT ![u] =
           [amount |-> amount, factor |-> factor,
            debt |-> Debt(amount, i.acc, factor, i.accFactor), unpaid |-> Unpaid(pending)]]
      /\ tokens' = tokens - reward
      /\ claimedBy' = [claimedBy EXCEPT ![u] = @ + reward]
      /\ UNCHANGED <<deprecated, sent, emptied>>

UpdateReward(supply, sum, base) ==
  /\ info' = UpdatedInfo(supply, sum, base)
  /\ UNCHANGED <<share, tokens, deprecated, claimedBy, sent, emptied>>

\* Mutant: the rewards are updated, the new factor is not recorded.
OnUpdateFactorUnrecorded(u, factor, supply, sum, base) == UpdateReward(supply, sum, base)

\* With the base partition alone, factors do not count and are not recorded.
OnUpdateFactor(u, factor, supply, sum, base) ==
  IF base = TOTAL_PARTITION THEN UNCHANGED rewarderVars
  ELSE LET i == UpdatedInfo(supply, sum, base)
           s == share[u]
           earned == IF s.debt > 0 THEN Debt(s.amount, i.acc, s.factor, i.accFactor) - s.debt ELSE 0
       IN  /\ info' = i
           /\ share' = [share EXCEPT ![u] =
                [amount |-> s.amount, factor |-> factor,
                 debt |-> Debt(s.amount, i.acc, factor, i.accFactor),
                 unpaid |-> s.unpaid + earned]]
           /\ UNCHANGED <<tokens, deprecated, claimedBy, sent, emptied>>

\* The model follows the added token from here on, as long as it has followed
\* none that was ever funded; the stakes are known already, the debts are not.
AddRewardToken(rate, start) ==
  /\ sent = 0
  /\ start = 0 \/ start >= now
  /\ info' = NewInfo(rate, IF start = 0 THEN now ELSE start)
  /\ share' = [u \in Users |->
       [amount |-> share[u].amount, factor |-> share[u].factor, debt |-> 0, unpaid |-> 0]]
  /\ UNCHANGED <<tokens, deprecated, claimedBy, sent, emptied>>

SetRewardRate(rate, start, supply, sum, base) ==
  LET i == UpdatedInfo(supply, sum, base)
  IN  /\ start = 0 \/ start >= now
      /\ info' = [i EXCEPT !.tokenPerSec = rate, !.last = IF start > 0 THEN start ELSE @]
      /\ UNCHANGED <<share, tokens, deprecated, claimedBy, sent, emptied>>

EmergencyClaimReward(u, supply, sum, base) ==
  /\ deprecated
  /\ OnReward(u, 0, 0, supply, sum, base)

SetIsDeprecated ==
  /\ deprecated' = ~deprecated
  /\ UNCHANGED <<info, share, tokens, claimedBy, sent, emptied>>

RewarderEmergencyWithdraw ==
  /\ info' = [info EXCEPT !.tokenPerSec = 0, !.last = now]
  /\ tokens' = 0 /\ emptied' = TRUE
  /\ UNCHANGED <<share, deprecated, claimedBy, sent>>

EmergencyTokenWithdraw ==
  /\ tokens' = 0 /\ emptied' = TRUE
  /\ UNCHANGED <<info, share, deprecated, claimedBy, sent>>

\* Someone transfers reward tokens to the rewarder.
Refill(n) ==
  /\ sent + n <= MaxTokens
  /\ tokens' = tokens + n /\ sent' = sent + n
  /\ UNCHANGED <<info, share, deprecated, claimedBy, emptied>>
-----------------------------------------------------------------------------
\* No transaction costs a user reward tokens already earned, whether the
\* rewarder can pay them now or not.  A copy with a factor but no stake, left
\* by an emergency claim, may have no debt: it counts as not registered.
KeepsRewards ==
  \A u \in Users :
    (share[u].amount = 0 => share[u].factor = 0) =>
       claimedBy[u] + PendingReward(info, share[u])
         <= claimedBy'[u] + PendingReward(info', share'[u])
=============================================================================
