------------------------------- MODULE VeWom -------------------------------
(***************************************************************************)
(* The veWOM contract: users lock WOM for a number of days and receive     *)
(* non-transferable voting power, which the Voter contract may only use up *)
(* to the user's balance.  A lock ("breeding") is a slot of the user's     *)
(* array; a burnt slot is replaced by the last one.                        *)
(*                                                                         *)
(* Each mint, burn and update calls the masterWombat, which takes the root *)
(* of the user's stake there times the new veWOM and may never return.     *)
(* Stakes, which change at the masterWombat, are here for that call only:  *)
(* one pool of it, which knows this veWOM.                                 *)
(*                                                                         *)
(* One unit of time is one day.  A revert undoes the whole transaction, so *)
(* a reverting call is a step that is not enabled.                         *)
(***************************************************************************)
EXTENDS Sequences, Sums, RootMath

CONSTANTS
  Users,
  Contracts,       \* the users that are smart contracts (msg.sender # tx.origin)
  Voters,          \* addresses the voter may be set to
  Managers,        \* addresses the masterWombat may be set to
  InitialVoter, InitialManager,
  Amounts,         \* WOM amounts a user locks
  LockDays,        \* lock lengths a user asks for
  MinLockDays, MaxLockDays,
  InitialMaxBreedings, MaxBreedings,   \* maxBreedingLength at first; values to set
  WAD, Rate,       \* 1e18 and 0.026e18
  SqrtDays,        \* LogExpMath.pow(lockDays * WAD, 50e16)
  Uint104,         \* type(uint104).max
  InitialWom,      \* WOM in each user's wallet
  VoteAmounts,     \* vote deltas (absolute)
  Stakes,          \* LP amounts a user may have staked at a masterWombat
  MaxTime,         \* bound on the clock
  MaxChanges       \* bound on the owner's transactions

ASSUME VeWomAssumption ==
  /\ IsFiniteSet(Users) /\ Contracts \subseteq Users
  /\ InitialVoter \in Voters /\ InitialManager \in Managers
  /\ Amounts \subseteq Nat /\ LockDays \subseteq Nat
  /\ MinLockDays \in Nat /\ MaxLockDays \in Nat
  /\ InitialMaxBreedings \in Nat /\ MaxBreedings \subseteq Nat
  /\ WAD \in Nat \ {0} /\ Rate \in Nat
  /\ SqrtDays \in [LockDays -> Nat]
  /\ Uint104 \in Nat /\ InitialWom \in Nat
  /\ VoteAmounts \subseteq Nat /\ Stakes \subseteq Nat
  /\ MaxTime \in Nat /\ MaxChanges \in Nat

VARIABLES
  now,             \* block.timestamp in days
  breedings,       \* users[u].breedings
  balance,         \* veWOM balance of each user
  usedVote,
  womHeld,         \* WOM owned by the contract
  wallet,          \* WOM owned by each user
  config,          \* what the owner set
  stake,           \* stake[m][u]: LP tokens of u at the masterWombat m
  changes          \* transactions of the owner so far

lockVars == <<breedings, balance, womHeld, wallet>>
ownerVars == <<config, changes>>
veWomVars == <<now, lockVars, usedVote, stake, ownerVars>>

Breeding == [unlockTime : Nat, womAmount : Nat, veWomAmount : Nat]

Config == [paused : BOOLEAN, voter : Voters, masterWombat : Managers,
           whitelist : SUBSET Contracts, maxBreedingLength : Nat]

VeWomTypeOK ==
  /\ now \in Nat
  /\ breedings \in [Users -> Seq(Breeding)]
  /\ balance \in [Users -> Nat]
  /\ usedVote \in [Users -> Nat]
  /\ womHeld \in Nat
  /\ wallet \in [Users -> Nat]
  /\ stake \in [Managers -> [Users -> Nat]]
  /\ config \in Config
  /\ changes \in Nat

VeWomInit ==
  /\ now = 0
  /\ breedings = [u \in Users |-> <<>>]
  /\ balance = [u \in Users |-> 0]
  /\ usedVote = [u \in Users |-> 0]
  /\ womHeld = 0
  /\ wallet = [u \in Users |-> InitialWom]
  /\ config = [paused |-> FALSE, voter |-> InitialVoter,
               masterWombat |-> InitialManager, whitelist |-> {},
               maxBreedingLength |-> InitialMaxBreedings]
  /\ stake = [m \in Managers |-> [u \in Users |-> 0]]
  /\ changes = 0

-----------------------------------------------------------------------------
(* Amounts. *)

Wmul(x, y) == (x * y + WAD \div 2) \div WAD

ExpectedVeWomAmount(amount, lockDays) ==
  Wmul(Wmul(amount, Rate), SqrtDays[lockDays])

AllowedDays(lockDays) == lockDays >= MinLockDays /\ lockDays <= MaxLockDays

\* _assertNotContract: contracts need to be whitelisted.
MayLock(u) == u \in Contracts => u \in config.whitelist

VoteIsEnough(u) == balance'[u] >= usedVote[u]

\* The root for a new factor of u at the masterWombat, with veWOM of n, is
\* taken in finite time; where it is not, the transaction runs out of gas.
FactorReturns(u, n) == RootReturns(stake[config.masterWombat][u] * n)

\* _mint and _burn: the balance changes by delta (at most down to zero),
\* the votes must still be covered, and updateFactor must return.
ChangeBalance(u, delta) ==
  /\ balance[u] + delta >= 0
  /\ balance' = [balance EXCEPT ![u] = @ + delta]
  /\ VoteIsEnough(u)
  /\ FactorReturns(u, balance[u] + delta)
  /\ UNCHANGED stake

\* Mutant: the last slot is dropped, whatever slot is burnt.
RemoveSlotPopOnly(locks, slot) == SubSeq(locks, 1, Len(locks) - 1)

\* The last slot takes the place of the removed one.
RemoveSlot(locks, slot) ==
  LET length == Len(locks)
  IN  SubSeq([locks EXCEPT ![slot] = locks[length]], 1, length - 1)

-----------------------------------------------------------------------------
(* Users. *)

Mint(u, amount, lockDays) ==
  /\ ~config.paused
  /\ amount > 0 /\ amount <= Uint104
  /\ MayLock(u)
  /\ AllowedDays(lockDays)
  /\ Len(breedings[u]) < config.maxBreedingLength
  /\ LET veWomAmount == ExpectedVeWomAmount(amount, lockDays)
     IN  /\ veWomAmount <= Uint104
         /\ breedings' = [breedings EXCEPT ![u] =
              Append(@, [unlockTime |-> now + lockDays, womAmount |-> amount,
                         veWomAmount |-> veWomAmount])]
         /\ ChangeBalance(u, veWomAmount)
  /\ wallet[u] >= amount
  /\ wallet' = [wallet EXCEPT ![u] = @ - amount]
  /\ womHeld' = womHeld + amount
  /\ UNCHANGED <<now, usedVote, ownerVars>>

\* Mutant: contracts must still be whitelisted when they leave.
BurnWhitelisted(u, slot) ==
  /\ ~config.paused
  /\ MayLock(u)
  /\ slot \in 1..Len(breedings[u])
  /\ LET breeding == breedings[u][slot]
     IN  /\ breeding.unlockTime <= now
         /\ breedings' = [breedings EXCEPT ![u] = RemoveSlot(@, slot)]
         /\ womHeld >= breeding.womAmount
         /\ womHeld' = womHeld - breeding.womAmount
         /\ wallet' = [wallet EXCEPT ![u] = @ + breeding.womAmount]
         /\ ChangeBalance(u, 0 - breeding.veWomAmount)
  /\ UNCHANGED <<now, usedVote, ownerVars>>

Burn(u, slot) ==
  /\ ~config.paused
  /\ slot \in 1..Len(breedings[u])
  /\ LET breeding == breedings[u][slot]
     IN  /\ breeding.unlockTime <= now
         /\ breedings' = [breedings EXCEPT ![u] = RemoveSlot(@, slot)]
         /\ womHeld >= breeding.womAmount
         /\ womHeld' = womHeld - breeding.womAmount
         /\ wallet' = [wallet EXCEPT ![u] = @ + breeding.womAmount]
         /\ ChangeBalance(u, 0 - breeding.veWomAmount)
  /\ UNCHANGED <<now, usedVote, ownerVars>>

\* Mutant: the whole new amount is minted on top of the original one.
UpdateMintsAll(u, slot, lockDays) ==
  /\ ~config.paused
  /\ MayLock(u)
  /\ AllowedDays(lockDays)
  /\ slot \in 1..Len(breedings[u])
  /\ LET original == breedings[u][slot]
         newVeWomAmount == ExpectedVeWomAmount(original.womAmount, lockDays)
     IN  /\ newVeWomAmount <= Uint104
         /\ original.unlockTime < now + lockDays
         /\ original.veWomAmount < newVeWomAmount
         /\ breedings' = [breedings EXCEPT ![u][slot] =
              [unlockTime |-> now + lockDays, womAmount |-> original.womAmount,
               veWomAmount |-> newVeWomAmount]]
         /\ ChangeBalance(u, newVeWomAmount)
  /\ UNCHANGED <<now, usedVote, womHeld, wallet, ownerVars>>

Update(u, slot, lockDays) ==
  /\ ~config.paused
  /\ MayLock(u)
  /\ AllowedDays(lockDays)
  /\ slot \in 1..Len(breedings[u])
  /\ LET original == breedings[u][slot]
         newVeWomAmount == ExpectedVeWomAmount(original.womAmount, lockDays)
     IN  /\ newVeWomAmount <= Uint104
         /\ original.unlockTime < now + lockDays
         /\ original.veWomAmount < newVeWomAmount
         /\ breedings' = [breedings EXCEPT ![u][slot] =
              [unlockTime |-> now + lockDays, womAmount |-> original.womAmount,
               veWomAmount |-> newVeWomAmount]]
         /\ ChangeBalance(u, newVeWomAmount - original.veWomAmount)
  /\ UNCHANGED <<now, usedVote, womHeld, wallet, ownerVars>>

-----------------------------------------------------------------------------
(* The masterWombat. *)

\* deposit, withdraw and emergencyWithdraw (of all): the stake of u becomes n,
\* for which a factor is computed as well.
MoveStake(m, u, n) ==
  /\ n # stake[m][u]
  /\ RootReturns(n * balance[u])
  /\ stake' = [stake EXCEPT ![m][u] = n]
  /\ UNCHANGED <<now, lockVars, usedVote, ownerVars>>

-----------------------------------------------------------------------------
(* The Voter contract. *)

\* Mutant: the new votes are not checked against the balance.
UseVoteUnverified(u, delta) ==
  /\ usedVote[u] + delta >= 0
  /\ usedVote' = [usedVote EXCEPT ![u] = @ + delta]

\* vote(_user, _voteDelta): a positive delta is verified, a negative one only
\* has to be covered by the votes in use.
UseVote(u, delta) ==
  /\ usedVote[u] + delta >= 0
  /\ usedVote' = [usedVote EXCEPT ![u] = @ + delta]
  /\ delta >= 0 => balance[u] >= usedVote'[u]

Vote(v, u, delta) ==
  /\ v = config.voter
  /\ UseVote(u, delta)
  /\ UNCHANGED <<now, lockVars, stake, ownerVars>>

-----------------------------------------------------------------------------
(* The owner, the whitelist's owner, and time. *)

Change ==
  /\ changes < MaxChanges
  /\ changes' = changes + 1
  /\ UNCHANGED <<now, lockVars, usedVote, stake>>

Pause == Change /\ ~config.paused /\ config' = [config EXCEPT !.paused = TRUE]

Unpause == Change /\ config.paused /\ config' = [config EXCEPT !.paused = FALSE]

SetMasterWombat(m) == Change /\ config' = [config EXCEPT !.masterWombat = m]

SetVoter(v) == Change /\ config' = [config EXCEPT !.voter = v]

SetMaxBreedingLength(n) == Change /\ config' = [config EXCEPT !.maxBreedingLength = n]

ApproveWallet(u) == Change /\ config' = [config EXCEPT !.whitelist = @ \union {u}]

RevokeWallet(u) == Change /\ config' = [config EXCEPT !.whitelist = @ \ {u}]

Tick ==
  /\ now < MaxTime
  /\ now' = now + 1
  /\ UNCHANGED <<lockVars, usedVote, stake, ownerVars>>

UserStep ==
  \E u \in Users :
    \/ \E amount \in Amounts, lockDays \in LockDays : Mint(u, amount, lockDays)
    \/ \E slot \in 1..Len(breedings[u]) : Burn(u, slot)
    \/ \E slot \in 1..Len(breedings[u]), lockDays \in LockDays : Update(u, slot, lockDays)
    \/ \E m \in Managers, n \in Stakes \union {0} : MoveStake(m, u, n)

VoterStep ==
  \E v \in Voters, u \in Users, n \in VoteAmounts : Vote(v, u, n) \/ Vote(v, u, 0 - n)

OwnerStep ==
  \/ Pause \/ Unpause
  \/ \E m \in Managers : SetMasterWombat(m)
  \/ \E v \in Voters : SetVoter(v)
  \/ \E n \in MaxBreedings : SetMaxBreedingLength(n)
  \/ \E u \in Contracts : ApproveWallet(u) \/ RevokeWallet(u)

VeWomNext == UserStep \/ VoterStep \/ OwnerStep \/ Tick

VeWomSpec == VeWomInit /\ [][VeWomNext]_veWomVars

-----------------------------------------------------------------------------
(* Properties. *)

LockedVeWom(u) ==
  SumOver([i \in DOMAIN breedings[u] |-> breedings[u][i].veWomAmount], DOMAIN breedings[u])

LockedWom(u) ==
  SumOver([i \in DOMAIN breedings[u] |-> breedings[u][i].womAmount], DOMAIN breedings[u])

\* The veWOM of a user is what the user's locks gave, and the contract holds
\* exactly the WOM of all locks: no sequence of mints, updates and burns
\* (with their swapped slots) leaves a lock that cannot be paid back.
LocksBacked ==
  /\ \A u \in Users : balance[u] = LockedVeWom(u)
  /\ womHeld = SumOver([u \in Users |-> LockedWom(u)], Users)

\* Votes in use never exceed the veWOM that backs them, though votes and locks
\* change in different contracts and a negative vote is not verified.
VotesBacked == \A u \in Users : usedVote[u] <= balance[u]

\* A user whose remaining veWOM covers the votes in use can burn an expired
\* lock while veWOM is not paused, a revoked contract included, unless the
\* masterWombat has a stake of the user whose product with the remaining veWOM
\* is one below a square: DSMath.sqrt never returns then (BoostedMasterWombat,
\* updateFactor), until the user changes the stake.
ExitOpen ==
  \A u \in Users : \A slot \in DOMAIN breedings[u] :
    LET remaining == balance[u] - breedings[u][slot].veWomAmount
    IN  (/\ ~config.paused
         /\ breedings[u][slot].unlockTime <= now
         /\ remaining >= usedVote[u])
        => \/ ENABLED Burn(u, slot)
           \/ ~FactorReturns(u, remaining)

\* The WOM that a user has locked until day t or later.
LockedUntil(u, t) ==
  LET late == {i \in DOMAIN breedings[u] : breedings[u][i].unlockTime >= t}
  IN  SumOver([i \in late |-> breedings[u][i].womAmount], late)

\* Commitment: before day t no step lowers the WOM a user has locked until
\* day t or later: not by a burn, which moves slots around, nor by an update.
LocksHold ==
  [][\A u \in Users : \A t \in now'+1 .. MaxTime + MaxLockDays :
       LockedUntil(u, t)' >= LockedUntil(u, t)]_veWomVars
=============================================================================
