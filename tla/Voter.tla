------------------------------- MODULE Voter -------------------------------
(***************************************************************************)
(* The Voter contract composed with veWOM: users spread their votes over   *)
(* gauges (LP tokens), WOM accrues to each gauge by an index over the      *)
(* allocation points and one over the vote weights, and once per epoch the *)
(* gauge manager (MasterWombat) collects what its gauge accrued.  A bribe  *)
(* contract attached to a gauge is told of each vote.                      *)
(*                                                                         *)
(* A unit of time stands for a day of veWOM and for a second of the        *)
(* Voter; EpochDuration is in the same unit.                               *)
(***************************************************************************)
EXTENDS VeWom

CONSTANTS
  Gauges,              \* LP tokens
  InitialGauges,       \* gauges added at deployment, without a bribe
  ThisVoter,           \* the address of this contract
  NoManager,           \* infos[lpToken].gaugeManager = address(0)
  Bribes, NoBribe,     \* bribe deployments, address(0)
  LpTokenOf,           \* the gauge each bribe was deployed for
  Ballots,             \* the arrays users vote with: sequences of [lp, delta]
  ACC_TOKEN_PRECISION,
  MinTotal,            \* the 1e18 of max(total, 1e18)
  Parts,               \* 1000, of which baseAllocation is a part
  InitialRate, InitialBase,
  Rates, BaseAllocations, AllocPoints,   \* values the owner may set
  StartTime, FirstEpoch, EpochDuration,
  FundAmounts,         \* WOM sent to the Voter
  MaxFunds             \* bound on the WOM the Voter owns

ASSUME VoterAssumption ==
  /\ IsFiniteSet(Gauges) /\ InitialGauges \subseteq Gauges
  /\ ThisVoter \in Voters
  /\ NoManager \notin Managers /\ NoBribe \notin Bribes
  /\ LpTokenOf \in [Bribes -> Gauges]
  /\ Ballots \subseteq Seq([lp : Gauges, delta : Int])
  /\ ACC_TOKEN_PRECISION \in Nat \ {0} /\ MinTotal \in Nat \ {0} /\ Parts \in Nat \ {0}
  /\ InitialRate \in Nat /\ InitialBase \in 0..Parts
  /\ Rates \subseteq Nat /\ BaseAllocations \subseteq 0..Parts /\ AllocPoints \subseteq Nat
  /\ StartTime \in Nat /\ FirstEpoch \in Nat \ {0} /\ EpochDuration \in Nat \ {0}
  /\ FundAmounts \subseteq Nat /\ MaxFunds \in Nat

VARIABLES
  votes,          \* votes[u][g]
  weights,        \* weights[g]: allocation points and vote weight
  totals,         \* totalAllocPoint and totalWeight
  index,          \* baseIndex, voteIndex and lastRewardTimestamp
  infos,          \* infos[g]
  emission,       \* womPerSec, baseAllocation and paused
  funds,          \* WOM owned by the Voter
  share,          \* share[b][u]: the votes the bribe b counts for u
  paid,           \* WOM paid for each gauge so far (history)
  paidEpoch,      \* epoch of each gauge's last payment (history)
  scheduled,      \* WOM the schedule allowed so far (history)
  interrupted     \* bribes that were detached from their gauge (history)

accrualVars == <<weights, totals, index, infos, emission>>
historyVars == <<paid, paidEpoch, scheduled, interrupted>>
voterVars == <<votes, accrualVars, funds, share, historyVars>>
vars == <<veWomVars, voterVars>>

GaugeInfo == [gaugeManager : Managers \union {NoManager}, whitelist : BOOLEAN,
              supplyBaseIndex : Nat, supplyVoteIndex : Nat, claimable : Nat,
              nextEpochStartTime : Nat, bribe : Bribes \union {NoBribe}]

TypeOK ==
  /\ VeWomTypeOK
  /\ votes \in [Users -> [Gauges -> Nat]]
  /\ weights \in [Gauges -> [allocPoint : Nat, voteWeight : Nat]]
  /\ totals \in [allocPoint : Nat, voteWeight : Nat]
  /\ index \in [base : Nat, vote : Nat, lastRewardTimestamp : Nat]
  /\ infos \in [Gauges -> GaugeInfo]
  /\ emission \in [womPerSec : Nat, baseAllocation : 0..Parts, paused : BOOLEAN]
  /\ funds \in Nat
  /\ share \in [Bribes -> [Users -> Nat]]
  /\ paid \in [Gauges -> Nat]
  /\ paidEpoch \in [Gauges -> Nat]
  /\ scheduled \in Nat
  /\ interrupted \in SUBSET Bribes

Init ==
  /\ VeWomInit
  /\ votes = [u \in Users |-> [g \in Gauges |-> 0]]
  /\ weights = [g \in Gauges |-> [allocPoint |-> 0, voteWeight |-> 0]]
  /\ totals = [allocPoint |-> 0, voteWeight |-> 0]
  /\ index = [base |-> 0, vote |-> 0, lastRewardTimestamp |-> StartTime]
  /\ infos = [g \in Gauges |->
                [gaugeManager |-> IF g \in InitialGauges THEN InitialManager ELSE NoManager,
                 whitelist |-> g \in InitialGauges,
                 supplyBaseIndex |-> 0, supplyVoteIndex |-> 0, claimable |-> 0,
                 nextEpochStartTime |-> IF g \in InitialGauges THEN FirstEpoch ELSE 0,
                 bribe |-> NoBribe]]
  /\ emission = [womPerSec |-> InitialRate, baseAllocation |-> InitialBase, paused |-> FALSE]
  /\ funds = 0
  /\ share = [b \in Bribes |-> [u \in Users |-> 0]]
  /\ paid = [g \in Gauges |-> 0]
  /\ paidEpoch = [g \in Gauges |-> 0]
  /\ scheduled = 0
  /\ interrupted = {}

-----------------------------------------------------------------------------
(* Accrual.  The indices are brought up to date before anything they       *)
(* depend on changes; a gauge's claimable is brought up to date before its *)
(* weight, allocation points or whitelisting change.                       *)

\* _checkGaugeExist
Exists(g) == infos[g].gaugeManager # NoManager

\* Growth of an index since lastRewardTimestamp, for a part of the emission
\* shared by the total.
IndexGrowth(part, total) ==
  IF now <= index.lastRewardTimestamp \/ total = 0 \/ emission.paused THEN 0
  ELSE (((now - index.lastRewardTimestamp) * emission.womPerSec * part * ACC_TOKEN_PRECISION)
          \div Max({total, MinTotal})) \div Parts

\* _getBaseIndex, _getVoteIndex
BaseIndexNow == index.base + IndexGrowth(emission.baseAllocation, totals.allocPoint)
VoteIndexNow == index.vote + IndexGrowth(Parts - emission.baseAllocation, totals.voteWeight)

\* _distributeWom
DistributedIndex ==
  [base |-> BaseIndexNow, vote |-> VoteIndexNow,
   lastRewardTimestamp |-> Max({now, index.lastRewardTimestamp})]

\* _getClaimable with the indices of now
PendingWom(g) ==
  LET baseShare == (weights[g].allocPoint * (BaseIndexNow - infos[g].supplyBaseIndex))
                     \div ACC_TOKEN_PRECISION
      voteShare == (weights[g].voteWeight * (VoteIndexNow - infos[g].supplyVoteIndex))
                     \div ACC_TOKEN_PRECISION
  IN  infos[g].claimable + baseShare + (IF infos[g].whitelist THEN voteShare ELSE 0)

\* _updateFor, after _distributeWom
UpdatedFor(g) ==
  [infos[g] EXCEPT !.claimable = PendingWom(g), !.supplyBaseIndex = BaseIndexNow,
                   !.supplyVoteIndex = VoteIndexNow]

UpdatedForAll(S) == [g \in Gauges |-> IF g \in S THEN UpdatedFor(g) ELSE infos[g]]

\* getNextEpochStartTime
NextEpochStartTime ==
  IF now < FirstEpoch THEN FirstEpoch
  ELSE FirstEpoch + ((now - FirstEpoch) \div EpochDuration + 1) * EpochDuration

-----------------------------------------------------------------------------
(* vote and claimBribes. *)

\* The change of g's votes by the first n entries of a ballot.
BallotDelta(ballot, n, g) ==
  SumOver([i \in 1..n |-> IF ballot[i].lp = g THEN ballot[i].delta ELSE 0], 1..n)

\* Mutant: votes taken back are not returned to the total.
BallotTotalCast(ballot) ==
  SumOver([i \in DOMAIN ballot |-> Max({ballot[i].delta, 0})], DOMAIN ballot)

BallotTotal(ballot) ==
  SumOver([i \in DOMAIN ballot |-> ballot[i].delta], DOMAIN ballot)

\* Gauges whose votes a ballot changes: _updateFor runs for them first.
Touched(ballot) == {ballot[i].lp : i \in {j \in DOMAIN ballot : ballot[j].delta # 0}}

Listed(ballot) == {ballot[i].lp : i \in DOMAIN ballot}

Notified(b, listed) == LpTokenOf[b] \in listed /\ infos[LpTokenOf[b]].bribe = b

\* Mutant: the votes are checked at the end, not entry by entry.
BallotValidAtEnd(u, ballot) ==
  \A i \in DOMAIN ballot : Exists(ballot[i].lp)

\* Each entry is for an existing gauge and leaves no negative vote behind.
BallotValid(u, ballot) ==
  \A i \in DOMAIN ballot :
    LET g == ballot[i].lp
    IN  Exists(g) /\ votes[u][g] + BallotDelta(ballot, i, g) >= 0

\* Mutant: the bribe is told of the votes before the ballot.
OnVoteBefore(u, listed, newVotes) ==
  share' = [b \in Bribes |-> IF Notified(b, listed)
                             THEN [share[b] EXCEPT ![u] = votes[u][LpTokenOf[b]]]
                             ELSE share[b]]

\* onVote of the bribes of the listed gauges, with the user's new votes.
OnVote(u, listed, newVotes) ==
  share' = [b \in Bribes |-> IF Notified(b, listed)
                             THEN [share[b] EXCEPT ![u] = newVotes[LpTokenOf[b]]]
                             ELSE share[b]]

\* Mutant: the gauges are not updated before their weight changes.
CastBallotNoUpdate(u, ballot) ==
  LET delta == [g \in Gauges |-> BallotDelta(ballot, Len(ballot), g)]
      newVotes == [g \in Gauges |-> votes[u][g] + delta[g]]
  IN  /\ BallotValid(u, ballot)
      /\ index' = DistributedIndex
      /\ infos' = infos
      /\ votes' = [votes EXCEPT ![u] = newVotes]
      /\ weights' = [g \in Gauges |-> [weights[g] EXCEPT !.voteWeight = @ + delta[g]]]
      /\ totals' = [totals EXCEPT !.voteWeight = @ + BallotTotal(ballot)]
      /\ OnVote(u, Listed(ballot), newVotes)
      /\ UseVote(u, BallotTotal(ballot))

CastBallot(u, ballot) ==
  LET delta == [g \in Gauges |-> BallotDelta(ballot, Len(ballot), g)]
      newVotes == [g \in Gauges |-> votes[u][g] + delta[g]]
  IN  /\ BallotValid(u, ballot)
      /\ index' = DistributedIndex
      /\ infos' = UpdatedForAll(Touched(ballot))
      /\ votes' = [votes EXCEPT ![u] = newVotes]
      /\ weights' = [g \in Gauges |-> [weights[g] EXCEPT !.voteWeight = @ + delta[g]]]
      /\ totals' = [totals EXCEPT !.voteWeight = @ + BallotTotal(ballot)]
      /\ OnVote(u, Listed(ballot), newVotes)
      /\ UseVote(u, BallotTotal(ballot))

\* vote: veWOM only listens to the voter it is configured with.
VoteBallot(u, ballot) ==
  /\ config.voter = ThisVoter
  /\ CastBallot(u, ballot)
  /\ UNCHANGED <<now, lockVars, stake, ownerVars, emission, funds, historyVars>>

ClaimBribes(u, listed) ==
  /\ \A g \in listed : Exists(g)
  /\ OnVote(u, listed, votes[u])
  /\ UNCHANGED <<veWomVars, votes, accrualVars, funds, historyVars>>

-----------------------------------------------------------------------------
(* distribute, called by the gauge manager. *)

\* Mutant: nothing tests whether the Voter owns enough WOM.
DueUnfunded(g) ==
  /\ PendingWom(g) > 0
  /\ now >= infos[g].nextEpochStartTime

\* Once per epoch, and not while the Voter is short of WOM.
Due(g) ==
  /\ PendingWom(g) > 0
  /\ now >= infos[g].nextEpochStartTime
  /\ funds > PendingWom(g)

Epoch(t) == IF t < FirstEpoch THEN 0 ELSE 1 + (t - FirstEpoch) \div EpochDuration

\* Mutant: the next payment is not put off to the next epoch.
PayGaugeAgain(g) ==
  LET amount == PendingWom(g)
  IN  /\ infos' = [infos EXCEPT ![g] = [UpdatedFor(g) EXCEPT !.claimable = 0]]
      /\ funds >= amount
      /\ funds' = funds - amount
      /\ paid' = [paid EXCEPT ![g] = @ + amount]
      /\ paidEpoch' = [paidEpoch EXCEPT ![g] = Epoch(now)]

\* The transfer fails when the Voter owns less than the amount.
PayGauge(g) ==
  LET amount == PendingWom(g)
  IN  /\ infos' = [infos EXCEPT ![g] = [UpdatedFor(g) EXCEPT
                     !.claimable = 0, !.nextEpochStartTime = NextEpochStartTime]]
      /\ funds >= amount
      /\ funds' = funds - amount
      /\ paid' = [paid EXCEPT ![g] = @ + amount]
      /\ paidEpoch' = [paidEpoch EXCEPT ![g] = Epoch(now)]

KeepGauge(g) ==
  /\ infos' = UpdatedForAll({g})
  /\ UNCHANGED <<funds, paid, paidEpoch>>

Distribute(m, g) ==
  /\ Exists(g)
  /\ m = infos[g].gaugeManager
  /\ index' = DistributedIndex
  /\ (Due(g) /\ PayGauge(g)) \/ (~Due(g) /\ KeepGauge(g))
  /\ UNCHANGED <<veWomVars, votes, weights, totals, emission, share, scheduled, interrupted>>

-----------------------------------------------------------------------------
(* The owner (and, for setBribe, the bribe factory). *)

OwnerChange ==
  /\ changes < MaxChanges
  /\ changes' = changes + 1
  /\ UNCHANGED <<now, lockVars, usedVote, stake, config, votes, share, paid, paidEpoch, scheduled>>

Add(g, m, b) ==
  /\ OwnerChange
  /\ ~infos[g].whitelist /\ ~Exists(g)
  /\ infos' = [infos EXCEPT ![g] = [@ EXCEPT
       !.whitelist = TRUE, !.gaugeManager = m, !.bribe = b,
       !.nextEpochStartTime = NextEpochStartTime]]
  /\ UNCHANGED <<weights, totals, index, emission, funds, interrupted>>

SetBaseAllocation(n) ==
  /\ OwnerChange
  /\ index' = DistributedIndex
  /\ emission' = [emission EXCEPT !.baseAllocation = n]
  /\ UNCHANGED <<weights, totals, infos, funds, interrupted>>

SetWomPerSec(n) ==
  /\ OwnerChange
  /\ index' = DistributedIndex
  /\ emission' = [emission EXCEPT !.womPerSec = n]
  /\ UNCHANGED <<weights, totals, infos, funds, interrupted>>

\* The gauge need not exist.
SetAllocPoint(g, n) ==
  /\ OwnerChange
  /\ index' = DistributedIndex
  /\ infos' = UpdatedForAll({g})
  /\ totals' = [totals EXCEPT !.allocPoint = @ - weights[g].allocPoint + n]
  /\ weights' = [weights EXCEPT ![g].allocPoint = n]
  /\ UNCHANGED <<emission, funds, interrupted>>

PauseVoteEmission(g) ==
  /\ OwnerChange
  /\ infos[g].whitelist /\ Exists(g)
  /\ index' = DistributedIndex
  /\ infos' = [UpdatedForAll({g}) EXCEPT ![g].whitelist = FALSE]
  /\ UNCHANGED <<weights, totals, emission, funds, interrupted>>

\* Mutant: the indices of the gauge do not catch up with the pause.
ResumeVoteEmissionNoCatchUp(g) ==
  /\ OwnerChange
  /\ ~infos[g].whitelist /\ Exists(g)
  /\ index' = DistributedIndex
  /\ infos' = [infos EXCEPT ![g].whitelist = TRUE]
  /\ UNCHANGED <<weights, totals, emission, funds, interrupted>>

ResumeVoteEmission(g) ==
  /\ OwnerChange
  /\ ~infos[g].whitelist /\ Exists(g)
  /\ index' = DistributedIndex
  /\ infos' = [UpdatedForAll({g}) EXCEPT ![g].whitelist = TRUE]
  /\ UNCHANGED <<weights, totals, emission, funds, interrupted>>

\* pauseAll and resumeAll update the gauges that were added.
SetPausedAll(paused) ==
  /\ OwnerChange
  /\ emission.paused # paused
  /\ index' = DistributedIndex
  /\ infos' = UpdatedForAll({g \in Gauges : Exists(g)})
  /\ emission' = [emission EXCEPT !.paused = paused]
  /\ UNCHANGED <<weights, totals, funds, interrupted>>

PauseAll == SetPausedAll(TRUE)
ResumeAll == SetPausedAll(FALSE)

SetGauge(g, m) ==
  /\ OwnerChange
  /\ Exists(g)
  /\ infos' = [infos EXCEPT ![g].gaugeManager = m]
  /\ UNCHANGED <<weights, totals, index, emission, funds, interrupted>>

SetBribe(g, b) ==
  /\ OwnerChange
  /\ Exists(g)
  /\ infos' = [infos EXCEPT ![g].bribe = b]
  /\ interrupted' = interrupted \union ({infos[g].bribe} \ {b, NoBribe})
  /\ UNCHANGED <<weights, totals, index, emission, funds>>

EmergencyWomWithdraw ==
  /\ OwnerChange
  /\ funds' = 0
  /\ UNCHANGED <<accrualVars, interrupted>>

\* Anyone sends WOM to the Voter.
Fund(n) ==
  /\ funds + n <= MaxFunds
  /\ funds' = funds + n
  /\ UNCHANGED <<veWomVars, votes, accrualVars, share, historyVars>>

\* Time passes; the schedule allows womPerSec more unless all is paused.
Elapse ==
  /\ Tick
  /\ scheduled' = scheduled + (IF emission.paused \/ now < StartTime THEN 0
                               ELSE emission.womPerSec)
  /\ UNCHANGED <<votes, accrualVars, funds, share, paid, paidEpoch, interrupted>>

VeWomStep ==
  /\ UserStep
  /\ UNCHANGED voterVars

BribesFor(g) == {b \in Bribes : LpTokenOf[b] = g} \union {NoBribe}

GaugeStep(g) ==
  \/ \E m \in Managers, b \in BribesFor(g) : Add(g, m, b)
  \/ \E n \in AllocPoints : SetAllocPoint(g, n)
  \/ PauseVoteEmission(g) \/ ResumeVoteEmission(g)
  \/ \E m \in Managers : SetGauge(g, m)
  \/ \E b \in BribesFor(g) : SetBribe(g, b)

Next ==
  \/ VeWomStep
  \/ \E u \in Users, ballot \in Ballots : VoteBallot(u, ballot)
  \/ \E u \in Users, listed \in SUBSET Gauges : ClaimBribes(u, listed)
  \/ \E m \in Managers, g \in Gauges : Distribute(m, g)
  \/ \E g \in Gauges : GaugeStep(g)
  \/ \E n \in BaseAllocations : SetBaseAllocation(n)
  \/ \E n \in Rates : SetWomPerSec(n)
  \/ PauseAll \/ ResumeAll
  \/ EmergencyWomWithdraw
  \/ \E n \in FundAmounts : Fund(n)
  \/ Elapse

Spec == Init /\ [][Next]_vars

-----------------------------------------------------------------------------
(* Properties. *)

Column(f, field) == [g \in Gauges |-> f[g][field]]

\* The Voter's votes, its weights and its total agree with each other, and
\* with the votes veWOM counts as used.
VotesAgree ==
  /\ \A u \in Users : usedVote[u] = SumOver(votes[u], Gauges)
  /\ \A g \in Gauges : weights[g].voteWeight = SumOver([u \in Users |-> votes[u][g]], Users)
  /\ totals.voteWeight = SumOver(Column(weights, "voteWeight"), Gauges)
  /\ totals.allocPoint = SumOver(Column(weights, "allocPoint"), Gauges)

\* veWOM and the Voter together implement the voting power a user was granted:
\* votes move between gauges and contracts but never exceed it.
Power == INSTANCE VotingPower WITH power <- balance, alloc <- votes, Grants <- 0..Uint104
ImplementsVotingPower == Power!Spec

\* What a gauge has earned so far, paid or not.
Entitled(g) == paid[g] + PendingWom(g)

\* All gauges together never earn more than the schedule allowed, whatever
\* the owner does to rates, partitions, points and pauses in between.
NoOverEmission == SumOver([g \in Gauges |-> Entitled(g)], Gauges) <= scheduled

\* No transaction moves what a gauge has already earned: votes, parameter
\* changes, pauses and payments only matter for the time to come.  As time
\* passes, a gauge that is not whitelisted earns for its points only, and
\* none earns while all are paused.
EarnedOverTime ==
  [][\A g \in Gauges :
       /\ Entitled(g)' >= Entitled(g)
       /\ Entitled(g)' # Entitled(g) =>
            /\ now' > now
            /\ ~emission.paused
            /\ infos[g].whitelist \/ weights[g].allocPoint > 0]_vars

\* A gauge is paid at most once in each epoch, also when the Voter was short
\* of WOM at first or the gauge manager changed.
PaidOncePerEpoch ==
  [][\A g \in Gauges : paid'[g] # paid[g] => Epoch(now) > paidEpoch[g]]_vars

\* A Voter that is short of WOM does not block its gauge managers: distribute
\* reverts for none of them.
DistributeNeverBlocks ==
  \A g \in Gauges : Exists(g) => ENABLED Distribute(infos[g].gaugeManager, g)

\* A bribe that was never detached counts no more votes of a user than the
\* user has on its gauge (fewer only until the user's next vote or claim).
BribeSharesBacked ==
  \A b \in Bribes \ interrupted : infos[LpTokenOf[b]].bribe = b =>
    \A u \in Users : share[b][u] \in {0, votes[u][LpTokenOf[b]]}
=============================================================================
