---------------------------- MODULE VoterProofs ----------------------------
(***************************************************************************)
(* Proofs about veWOM and the Voter, for any users, gauges, locks, ballots, *)
(* rates and owner's transactions: votes in use are backed by locks, and   *)
(* locks by the WOM in the contract; the accounts of the two contracts and *)
(* of the bribes agree; and what the gauges earn stays within the          *)
(* schedule, is never moved by a transaction and is paid once per epoch.   *)
(***************************************************************************)
EXTENDS Voter, SumProofs, SequenceTheorems, TLAPS

-----------------------------------------------------------------------------
(* veWOM: typed state and backed votes.                                    *)

\* Amounts of veWOM are natural numbers.
LEMMA ExpectedNat ==
  ASSUME NEW amount \in Nat, NEW lockDays \in LockDays
  PROVE  ExpectedVeWomAmount(amount, lockDays) \in Nat
<1>1. WAD \in Nat \ {0} /\ Rate \in Nat /\ SqrtDays[lockDays] \in Nat
  BY VeWomAssumption
<1>2. \A x, y \in Nat : x * y \in Nat
  OBVIOUS
<1>3. \A x, y \in Nat : Wmul(x, y) \in Nat
  <2>1. TAKE x, y \in Nat
  <2>2. PICK p \in Nat : p = x * y
    BY <1>2
  <2>3. WAD \div 2 \in Nat
    BY <1>1
  <2>4. PICK h \in Nat : h = WAD \div 2
    BY <2>3
  <2>5. (p + h) \div WAD \in Nat
    BY <1>1
  <2> QED BY <2>2, <2>4, <2>5 DEF Wmul
<1> QED BY <1>1, <1>3 DEF ExpectedVeWomAmount

\* A slot is removed from a list: the rest are elements of the same set.
LEMMA RemoveSlotSeq ==
  ASSUME NEW T, NEW locks \in Seq(T), NEW slot \in 1..Len(locks)
  PROVE  RemoveSlot(locks, slot) \in Seq(T)
<1>1. Len(locks) \in 1..Len(locks) /\ locks[Len(locks)] \in T
  BY ElementOfSeq, LenProperties
<1>2. PICK last \in T : last = locks[Len(locks)]
  BY <1>1
<1>3. /\ [locks EXCEPT ![slot] = last] \in Seq(T)
      /\ Len([locks EXCEPT ![slot] = last]) = Len(locks)
  BY ExceptSeq
<1>4. PICK moved \in Seq(T) :
        moved = [locks EXCEPT ![slot] = last] /\ Len(moved) = Len(locks)
  BY <1>3
<1>5. SubSeq(moved, 1, Len(locks) - 1) \in Seq(T)
  BY <1>4, LenProperties
<1> QED BY <1>2, <1>4, <1>5 DEF RemoveSlot

LEMMA RemoveSlotType ==
  ASSUME NEW locks \in Seq(Breeding), NEW slot \in 1..Len(locks)
  PROVE  RemoveSlot(locks, slot) \in Seq(Breeding)
BY RemoveSlotSeq

\* What the inductive invariant says: well typed, and votes are backed.
VeWomInv == VeWomTypeOK /\ VotesBacked

\* A user's transaction moves locks only.
LEMMA UserStepLeaves ==
  ASSUME UserStep
  PROVE  now' = now /\ usedVote' = usedVote /\ config' = config /\ changes' = changes
<1>1. ASSUME NEW u \in Users, NEW amount \in Amounts, NEW lockDays \in LockDays,
             Mint(u, amount, lockDays)
      PROVE  UNCHANGED <<now, usedVote, config, changes>>
  BY <1>1 DEF Mint, ownerVars
<1>2. ASSUME NEW u \in Users, NEW slot \in 1..Len(breedings[u]), Burn(u, slot)
      PROVE  UNCHANGED <<now, usedVote, config, changes>>
  BY <1>2 DEF Burn, ownerVars
<1>3. ASSUME NEW u \in Users, NEW slot \in 1..Len(breedings[u]), NEW lockDays \in LockDays,
             Update(u, slot, lockDays)
      PROVE  UNCHANGED <<now, usedVote, config, changes>>
  BY <1>3 DEF Update, ownerVars
<1>4. ASSUME NEW u \in Users, NEW m \in Managers, NEW n \in Stakes \union {0},
             MoveStake(m, u, n)
      PROVE  UNCHANGED <<now, usedVote, config, changes>>
  BY <1>4 DEF MoveStake, ownerVars
<1> QED BY <1>1, <1>2, <1>3, <1>4 DEF UserStep

LEMMA VeWomInitInv == VeWomInit => VeWomInv
BY VeWomAssumption DEF VeWomInit, VeWomInv, VeWomTypeOK, VotesBacked, Config

\* Any change of a balance leaves the votes of every user backed.
LEMMA ChangeBalanceKeeps ==
  ASSUME VeWomInv, NEW u \in Users, NEW delta \in Int, ChangeBalance(u, delta),
         usedVote' = usedVote
  PROVE  /\ balance' \in [Users -> Nat]
         /\ stake' = stake
         /\ VotesBacked'
<1>1. balance[u] + delta \in Nat
  BY DEF VeWomInv, VeWomTypeOK, ChangeBalance
<1>2. balance' = [balance EXCEPT ![u] = balance[u] + delta]
  BY DEF ChangeBalance
<1>3. balance' \in [Users -> Nat]
  BY <1>1, <1>2 DEF VeWomInv, VeWomTypeOK
<1>4. VotesBacked'
  BY <1>2, <1>3 DEF VeWomInv, VeWomTypeOK, VotesBacked, ChangeBalance, VoteIsEnough
<1>5. stake' = stake
  BY DEF ChangeBalance
<1> QED BY <1>3, <1>4, <1>5

LEMMA MintKeeps ==
  ASSUME VeWomInv, NEW u \in Users, NEW amount \in Amounts, NEW lockDays \in LockDays,
         Mint(u, amount, lockDays)
  PROVE  VeWomInv'
<1>1. amount \in Nat /\ lockDays \in Nat
  BY VeWomAssumption
<1>2. PICK ve \in Nat : ve = ExpectedVeWomAmount(amount, lockDays)
  BY <1>1, ExpectedNat
<1>3. ChangeBalance(u, ve) /\ usedVote' = usedVote
  BY <1>2 DEF Mint
<1>4. /\ balance' \in [Users -> Nat]
      /\ stake' = stake
      /\ VotesBacked'
  BY <1>3, ChangeBalanceKeeps
<1>5. PICK lock \in Breeding :
        lock = [unlockTime |-> now + lockDays, womAmount |-> amount, veWomAmount |-> ve]
  <2>1. now + lockDays \in Nat
    BY <1>1 DEF VeWomInv, VeWomTypeOK
  <2> QED BY <1>1, <2>1 DEF Breeding
<1>6. breedings' = [breedings EXCEPT ![u] = Append(breedings[u], lock)]
  BY <1>2, <1>5 DEF Mint
<1>7. Append(breedings[u], lock) \in Seq(Breeding)
  BY DEF VeWomInv, VeWomTypeOK
<1>8. breedings' \in [Users -> Seq(Breeding)]
  BY <1>6, <1>7 DEF VeWomInv, VeWomTypeOK
<1>9. wallet' \in [Users -> Nat] /\ womHeld' \in Nat
  BY <1>1 DEF VeWomInv, VeWomTypeOK, Mint
<1> QED BY <1>4, <1>8, <1>9 DEF VeWomInv, VeWomTypeOK, Mint, ownerVars

LEMMA BurnKeeps ==
  ASSUME VeWomInv, NEW u \in Users, NEW slot \in 1..Len(breedings[u]), Burn(u, slot)
  PROVE  VeWomInv'
<1>1. PICK lock \in Breeding : lock = breedings[u][slot]
  BY DEF VeWomInv, VeWomTypeOK
<1>2. lock.womAmount \in Nat /\ lock.veWomAmount \in Nat
  BY DEF Breeding
<1>3. 0 - lock.veWomAmount \in Int
  BY <1>2
<1>4. ChangeBalance(u, 0 - lock.veWomAmount) /\ usedVote' = usedVote
  BY <1>1 DEF Burn
<1>5. /\ balance' \in [Users -> Nat]
      /\ stake' = stake
      /\ VotesBacked'
  BY <1>3, <1>4, ChangeBalanceKeeps
<1>6. RemoveSlot(breedings[u], slot) \in Seq(Breeding)
  BY RemoveSlotType DEF VeWomInv, VeWomTypeOK
<1>7. breedings' = [breedings EXCEPT ![u] = RemoveSlot(breedings[u], slot)]
  BY DEF Burn
<1>8. breedings' \in [Users -> Seq(Breeding)]
  BY <1>6, <1>7 DEF VeWomInv, VeWomTypeOK
<1>9. womHeld' = womHeld - lock.womAmount /\ womHeld >= lock.womAmount
  BY <1>1 DEF Burn
<1>10. wallet' = [wallet EXCEPT ![u] = wallet[u] + lock.womAmount]
  BY <1>1 DEF Burn
<1>11. wallet' \in [Users -> Nat] /\ womHeld' \in Nat
  <2>1. PICK w \in Nat : w = lock.womAmount
    BY <1>2
  <2>2. womHeld' \in Nat
    <3>1. womHeld \in Nat
      BY DEF VeWomInv, VeWomTypeOK
    <3>2. womHeld' = womHeld - w /\ womHeld >= w
      BY <1>9, <2>1
    <3> QED BY <2>1, <3>1, <3>2
  <2>3. wallet' \in [Users -> Nat]
    <3>1. wallet \in [Users -> Nat]
      BY DEF VeWomInv, VeWomTypeOK
    <3>2. PICK n \in Nat : n = wallet[u] + w
      BY <2>1, <3>1
    <3>3. wallet' = [wallet EXCEPT ![u] = n]
      BY <1>10, <2>1, <3>2
    <3> QED BY <3>1, <3>2, <3>3
  <2> QED BY <2>2, <2>3
<1>12. UNCHANGED <<now, usedVote, config, changes>>
  BY DEF Burn, ownerVars
<1> QED BY <1>5, <1>8, <1>11, <1>12 DEF VeWomInv, VeWomTypeOK

LEMMA UpdateKeeps ==
  ASSUME VeWomInv, NEW u \in Users, NEW slot \in 1..Len(breedings[u]),
         NEW lockDays \in LockDays, Update(u, slot, lockDays)
  PROVE  VeWomInv'
<1>1. PICK lock \in Breeding : lock = breedings[u][slot]
  BY DEF VeWomInv, VeWomTypeOK
<1>2. lock.womAmount \in Nat /\ lock.veWomAmount \in Nat /\ lockDays \in Nat
  BY VeWomAssumption DEF Breeding
<1>3. PICK ve \in Nat : ve = ExpectedVeWomAmount(lock.womAmount, lockDays)
  BY <1>2, ExpectedNat
<1>4. ChangeBalance(u, ve - lock.veWomAmount) /\ usedVote' = usedVote
  BY <1>1, <1>3 DEF Update
<1>5. ve - lock.veWomAmount \in Int
  BY <1>2, <1>3
<1>6. /\ balance' \in [Users -> Nat]
      /\ stake' = stake
      /\ VotesBacked'
  BY <1>4, <1>5, ChangeBalanceKeeps
<1>7. PICK end \in Nat : end = now + lockDays
  BY <1>2 DEF VeWomInv, VeWomTypeOK
<1>8. PICK new \in Breeding :
        new = [unlockTime |-> end, womAmount |-> lock.womAmount, veWomAmount |-> ve]
  BY <1>2 DEF Breeding
<1>9. breedings' = [breedings EXCEPT ![u][slot] = new]
  BY <1>1, <1>3, <1>7, <1>8 DEF Update
<1>10. [breedings[u] EXCEPT ![slot] = new] \in Seq(Breeding)
  BY ExceptSeq DEF VeWomInv, VeWomTypeOK
<1>11. breedings' = [breedings EXCEPT ![u] = [breedings[u] EXCEPT ![slot] = new]]
  BY <1>9 DEF VeWomInv, VeWomTypeOK
<1>12. breedings' \in [Users -> Seq(Breeding)]
  BY <1>10, <1>11 DEF VeWomInv, VeWomTypeOK
<1> QED BY <1>6, <1>12 DEF VeWomInv, VeWomTypeOK, Update, ownerVars

\* Stakes move at the masterWombat; veWOM does not change.
LEMMA MoveStakeKeeps ==
  ASSUME VeWomInv, NEW m \in Managers, NEW u \in Users, NEW n \in Stakes \union {0},
         MoveStake(m, u, n)
  PROVE  VeWomInv'
<1>1. n \in Nat
  BY VeWomAssumption
<1>2. stake' \in [Managers -> [Users -> Nat]]
  BY <1>1 DEF VeWomInv, VeWomTypeOK, MoveStake
<1> QED BY <1>2 DEF VeWomInv, VeWomTypeOK, VotesBacked, MoveStake, lockVars, ownerVars

\* The Voter uses and returns votes.
LEMMA VoteKeeps ==
  ASSUME VeWomInv, NEW u \in Users, NEW v \in Voters, NEW delta \in Int, Vote(v, u, delta)
  PROVE  VeWomInv'
<1>1. usedVote[u] + delta \in Nat
  BY DEF VeWomInv, VeWomTypeOK, Vote, UseVote
<1>2. usedVote' = [usedVote EXCEPT ![u] = usedVote[u] + delta]
  BY DEF Vote, UseVote
<1>3. usedVote' \in [Users -> Nat]
  BY <1>1, <1>2 DEF VeWomInv, VeWomTypeOK
<1>4. balance' = balance
  BY DEF Vote, lockVars
<1>5. usedVote'[u] <= balance[u]
  <2>1. CASE delta >= 0
    BY <2>1, <1>2 DEF VeWomInv, VeWomTypeOK, Vote, UseVote
  <2>2. CASE delta < 0
    BY <2>2, <1>2 DEF VeWomInv, VeWomTypeOK, VotesBacked
  <2> QED BY <2>1, <2>2
<1>6. VotesBacked'
  BY <1>2, <1>3, <1>4, <1>5 DEF VeWomInv, VeWomTypeOK, VotesBacked
<1> QED BY <1>3, <1>6 DEF VeWomInv, VeWomTypeOK, Vote, lockVars, ownerVars

\* The owner's transactions and time leave balances and votes alone.
LEMMA OwnerKeeps ==
  ASSUME VeWomInv, OwnerStep \/ Tick
  PROVE  VeWomInv'
<1>1. config' \in Config
  <2>1. config \in Config
    BY DEF VeWomInv, VeWomTypeOK
  <2>2. CASE Pause
    BY <2>1, <2>2 DEF Pause, Config
  <2>3. CASE Unpause
    BY <2>1, <2>3 DEF Unpause, Config
  <2>4. ASSUME NEW m \in Managers, SetMasterWombat(m) PROVE config' \in Config
    BY <2>1, <2>4 DEF SetMasterWombat, Config
  <2>5. ASSUME NEW v \in Voters, SetVoter(v) PROVE config' \in Config
    BY <2>1, <2>5 DEF SetVoter, Config
  <2>6. ASSUME NEW n \in MaxBreedings, SetMaxBreedingLength(n) PROVE config' \in Config
    BY <2>1, <2>6, VeWomAssumption DEF SetMaxBreedingLength, Config
  <2>7. ASSUME NEW u \in Contracts, ApproveWallet(u) \/ RevokeWallet(u) PROVE config' \in Config
    <3>1. PICK S \in SUBSET Contracts : config' = [config EXCEPT !.whitelist = S]
      <4>1. /\ config.whitelist \union {u} \in SUBSET Contracts
            /\ config.whitelist \ {u} \in SUBSET Contracts
        BY <2>1 DEF Config
      <4> QED BY <2>7, <4>1 DEF ApproveWallet, RevokeWallet
    <3> QED BY <2>1, <3>1 DEF Config
  <2>8. CASE Tick
    BY <2>1, <2>8 DEF Tick, ownerVars
  <2> QED BY <2>2, <2>3, <2>4, <2>5, <2>6, <2>7, <2>8 DEF OwnerStep
<1>2. UNCHANGED <<lockVars, usedVote, stake>> /\ now' \in Nat /\ changes' \in Nat
  <2>1. CASE Change
    BY <2>1 DEF Change, VeWomInv, VeWomTypeOK
  <2>2. CASE Tick
    BY <2>2 DEF Tick, VeWomInv, VeWomTypeOK, ownerVars
  <2> QED BY <2>1, <2>2 DEF OwnerStep, Pause, Unpause, SetMasterWombat, SetVoter,
               SetMaxBreedingLength, ApproveWallet, RevokeWallet
<1> QED BY <1>1, <1>2 DEF VeWomInv, VeWomTypeOK, VotesBacked, lockVars

LEMMA VeWomNextInv == VeWomInv /\ [VeWomNext]_veWomVars => VeWomInv'
<1> SUFFICES ASSUME VeWomInv, [VeWomNext]_veWomVars PROVE VeWomInv'
  OBVIOUS
<1>1. CASE UserStep
  BY <1>1, MintKeeps, BurnKeeps, UpdateKeeps, MoveStakeKeeps DEF UserStep
<1>2. CASE VoterStep
  <2>1. PICK v \in Voters, u \in Users, n \in VoteAmounts : Vote(v, u, n) \/ Vote(v, u, 0 - n)
    BY <1>2 DEF VoterStep
  <2>2. n \in Int /\ 0 - n \in Int
    BY VeWomAssumption
  <2> QED BY <2>1, <2>2, VoteKeeps
<1>3. CASE OwnerStep \/ Tick
  BY <1>3, OwnerKeeps
<1>4. CASE UNCHANGED veWomVars
  BY <1>4 DEF veWomVars, lockVars, ownerVars, VeWomInv, VeWomTypeOK, VotesBacked
<1> QED BY <1>1, <1>2, <1>3, <1>4 DEF VeWomNext

\* The invariant of veWOM: typed state and backed votes in every reachable state.
THEOREM VeWomInvariance == VeWomSpec => []VeWomInv
<1>1. VeWomInit => VeWomInv
  BY VeWomInitInv
<1>2. VeWomInv /\ [VeWomNext]_veWomVars => VeWomInv'
  BY VeWomNextInv
<1> QED BY <1>1, <1>2, PTL DEF VeWomSpec

\* Every reachable state of veWOM is well typed: no balance, no count of votes
\* and no amount of WOM ever goes below zero (the code's unchecked subtraction
\* in _burn included).
THEOREM VeWomTypeCorrect == VeWomSpec => []VeWomTypeOK
<1>1. VeWomInv => VeWomTypeOK
  BY DEF VeWomInv
<1> QED BY <1>1, VeWomInvariance, PTL

\* The votes a user has in use never exceed the user's veWOM, although a vote
\* taken back is not verified and votes and locks change in different calls.
THEOREM VotesAlwaysBacked == VeWomSpec => []VotesBacked
<1>1. VeWomInv => VotesBacked
  BY DEF VeWomInv
<1> QED BY <1>1, VeWomInvariance, PTL
-----------------------------------------------------------------------------
(* Sums over the locks of a user: their WOM, their veWOM, or the WOM of    *)
(* those that end late.                                                    *)

\* The sum of the weights of the locks, where a weight is a number per lock.
Weight(w, locks) == SumOver([i \in DOMAIN locks |-> w[locks[i]]], DOMAIN locks)

\* The weight of a list is a number, and the slots are finitely many.
LEMMA WeightInt ==
  ASSUME NEW w \in [Breeding -> Int], NEW locks \in Seq(Breeding)
  PROVE  /\ DOMAIN locks = 1..Len(locks)
         /\ IsFiniteSet(DOMAIN locks)
         /\ \A i \in DOMAIN locks : w[locks[i]] \in Int
         /\ Weight(w, locks) \in Int
<1>1. DOMAIN locks = 1..Len(locks) /\ Len(locks) \in Int
  BY LenProperties
<1>2. IsFiniteSet(DOMAIN locks)
  BY <1>1, FS_Interval
<1>3. \A i \in DOMAIN locks : w[locks[i]] \in Int
  BY <1>1, ElementOfSeq
<1> DEFINE f == [i \in DOMAIN locks |-> w[locks[i]]]
<1>4. \A i \in DOMAIN locks : f[i] \in Int
  BY <1>3
<1> HIDE DEF f
<1>5. SumOver(f, DOMAIN locks) \in Int
  BY <1>2, <1>4, SumInt
<1> QED BY <1>1, <1>2, <1>3, <1>5 DEF Weight, f

\* No locks have no weight.
LEMMA WeightEmpty ==
  ASSUME NEW w
  PROVE  Weight(w, <<>>) = 0
<1>1. DOMAIN <<>> = {}
  OBVIOUS
<1> QED BY <1>1, SumEmpty DEF Weight

\* The weight of two lists with the same locks, but for some slots of the
\* first one that the second one does not have or has other locks in.
LEMMA WeightAppend ==
  ASSUME NEW w \in [Breeding -> Int], NEW locks \in Seq(Breeding), NEW lock \in Breeding
  PROVE  Weight(w, Append(locks, lock)) = Weight(w, locks) + w[lock]
<1> DEFINE longer == Append(locks, lock)
           n == Len(locks)
           f == [i \in DOMAIN locks |-> w[locks[i]]]
           g == [i \in DOMAIN longer |-> w[longer[i]]]
<1>1. /\ DOMAIN locks = 1..n /\ IsFiniteSet(DOMAIN locks) /\ n \in Nat
      /\ \A i \in 1..n : w[locks[i]] \in Int
  BY WeightInt, LenProperties
<1>2. longer \in Seq(Breeding) /\ Len(longer) = n + 1
  BY AppendProperties
<1>3. DOMAIN longer = 1..n+1 /\ longer[n+1] = lock /\ \A i \in 1..n : longer[i] = locks[i]
  BY <1>1, AppendProperties
<1>4. /\ 1..n+1 = (1..n) \cup {n+1} /\ n+1 \notin 1..n
  BY <1>1
<1>5. /\ g[n+1] = w[lock] /\ w[lock] \in Int
      /\ \A i \in 1..n : g[i] = f[i] /\ f[i] \in Int
  BY <1>1, <1>3, <1>4
<1>6. Weight(w, locks) = SumOver(f, 1..n) /\ Weight(w, longer) = SumOver(g, 1..n+1)
  BY <1>1, <1>3 DEF Weight
<1>7. PICK m : m = n + 1
  OBVIOUS
<1>8. PICK S : S = 1..n
  OBVIOUS
<1>9. IsFiniteSet(S) /\ m \notin S /\ 1..n+1 = S \cup {m}
  BY <1>1, <1>4, <1>7, <1>8
<1>10. /\ g[m] = w[lock] /\ \A i \in S : g[i] = f[i] /\ f[i] \in Int
  BY <1>5, <1>7, <1>8
<1> HIDE DEF f, g, longer, n
<1>11. SumOver(g, S \cup {m}) = g[m] + SumOver(g, S)
  BY <1>5, <1>9, <1>10, SumAdd
<1>12. SumOver(g, S) = SumOver(f, S) /\ SumOver(f, S) \in Int
  BY <1>9, <1>10, SumSame, SumInt
<1>13. PICK k \in Int : k = SumOver(f, S)
  BY <1>12
<1>14. Weight(w, longer) = SumOver(g, S \cup {m}) /\ Weight(w, locks) = k
  BY <1>6, <1>8, <1>9, <1>13
<1>15. SumOver(g, S \cup {m}) = w[lock] + k
  BY <1>10, <1>11, <1>12, <1>13
<1>16. w[lock] + k = k + w[lock]
  BY <1>5
<1>17. Weight(w, longer) = Weight(w, locks) + w[lock]
  BY <1>14, <1>15, <1>16
<1> QED BY <1>17 DEF longer

\* A slot gets another lock.
LEMMA WeightExcept ==
  ASSUME NEW w \in [Breeding -> Int], NEW locks \in Seq(Breeding),
         NEW slot \in 1..Len(locks), NEW lock \in Breeding
  PROVE  Weight(w, [locks EXCEPT ![slot] = lock]) = Weight(w, locks) + (w[lock] - w[locks[slot]])
<1> DEFINE new == [locks EXCEPT ![slot] = lock]
           D == DOMAIN locks
           f == [i \in DOMAIN locks |-> w[locks[i]]]
           g == [i \in DOMAIN new |-> w[new[i]]]
<1>1. /\ slot \in D /\ IsFiniteSet(D) /\ DOMAIN new = D
      /\ \A i \in D : w[locks[i]] \in Int
  BY WeightInt
<1>2. PICK n \in Int : n = w[lock] - w[locks[slot]]
  BY <1>1
<1>3. \A i \in D : g[i] = IF i = slot THEN f[i] + n ELSE f[i]
  <2>1. g[slot] = w[lock] /\ f[slot] = w[locks[slot]] /\ w[lock] = w[locks[slot]] + n
    BY <1>1, <1>2
  <2>2. \A i \in D : i # slot => g[i] = f[i]
    BY <1>1
  <2> HIDE DEF f, g
  <2> QED BY <2>1, <2>2
<1>4. \A i \in D : f[i] \in Int
  BY <1>1
<1>5. Weight(w, locks) = SumOver(f, D) /\ Weight(w, new) = SumOver(g, D)
  BY <1>1 DEF Weight
<1> HIDE DEF f, g, new, D
<1>6. MovesAt(f, g, D, slot, n)
  BY <1>1, <1>3, <1>4 DEF MovesAt
<1>7. SumOver(g, D) = SumOver(f, D) + n
  BY <1>6, SumUpdate
<1> QED BY <1>2, <1>5, <1>7 DEF new

\* The last slot is dropped.
LEMMA WeightFront ==
  ASSUME NEW w \in [Breeding -> Int], NEW locks \in Seq(Breeding), Len(locks) > 0
  PROVE  Weight(w, SubSeq(locks, 1, Len(locks) - 1)) = Weight(w, locks) - w[locks[Len(locks)]]
<1> DEFINE front == SubSeq(locks, 1, Len(locks) - 1)
<1>1. Len(locks) \in Nat /\ Len(locks) \in 1..Len(locks) /\ locks[Len(locks)] \in Breeding
  BY LenProperties, ElementOfSeq
<1>2. PICK last \in Breeding : last = locks[Len(locks)]
  BY <1>1
<1>3. PICK k \in Nat : k = Len(locks) - 1
  BY <1>1
<1>4. front \in Seq(Breeding) /\ Len(front) = k /\ \A i \in 1..k : front[i] = locks[i]
  <2>1. 1 \in 1..Len(locks)+1 /\ Len(locks) - 1 \in 0..Len(locks)
    BY <1>1
  <2> QED BY <1>1, <1>3, <2>1, SubSeqProperties
<1>5. Append(front, last) = locks
  <2>1. Append(front, last) \in Seq(Breeding) /\ Len(Append(front, last)) = Len(locks)
    BY <1>1, <1>3, <1>4, AppendProperties
  <2>2. \A i \in 1..Len(locks) : Append(front, last)[i] = locks[i]
    BY <1>1, <1>2, <1>3, <1>4, AppendProperties
  <2> QED BY <2>1, <2>2, SeqEqual
<1> HIDE DEF front
<1>6. Weight(w, locks) = Weight(w, front) + w[last] /\ Weight(w, front) \in Int
  BY <1>4, <1>5, WeightAppend, WeightInt
<1>7. w[last] \in Int
  OBVIOUS
<1> QED BY <1>2, <1>6, <1>7 DEF front

\* A slot is removed: its weight is, whichever slot is moved for it.
LEMMA WeightRemoveSlot ==
  ASSUME NEW w \in [Breeding -> Int], NEW locks \in Seq(Breeding), NEW slot \in 1..Len(locks)
  PROVE  Weight(w, RemoveSlot(locks, slot)) = Weight(w, locks) - w[locks[slot]]
<1>1. Len(locks) \in 1..Len(locks) /\ Len(locks) > 0
  BY LenProperties
<1>2. PICK last \in Breeding : last = locks[Len(locks)]
  BY <1>1, ElementOfSeq
<1>3. PICK moved \in Seq(Breeding) :
        moved = [locks EXCEPT ![slot] = last] /\ Len(moved) = Len(locks)
  <2>1. /\ [locks EXCEPT ![slot] = last] \in Seq(Breeding)
        /\ Len([locks EXCEPT ![slot] = last]) = Len(locks)
    BY ExceptSeq
  <2> QED BY <2>1
<1>4. Weight(w, moved) = Weight(w, locks) + (w[last] - w[locks[slot]])
  BY <1>3, WeightExcept
<1>5. moved[Len(moved)] = last
  BY <1>1, <1>2, <1>3, LenProperties
<1>6. Weight(w, SubSeq(moved, 1, Len(moved) - 1)) = Weight(w, moved) - w[last]
  BY <1>1, <1>3, <1>5, WeightFront
<1>7. RemoveSlot(locks, slot) = SubSeq(moved, 1, Len(moved) - 1)
  BY <1>2, <1>3 DEF RemoveSlot
<1>8. Weight(w, locks) \in Int /\ w[last] \in Int /\ w[locks[slot]] \in Int
  BY WeightInt
<1> QED BY <1>4, <1>6, <1>7, <1>8

VeWomOf == [lock \in Breeding |-> lock.veWomAmount]
WomOf == [lock \in Breeding |-> lock.womAmount]
LateWomOf(t) == [lock \in Breeding |-> IF lock.unlockTime >= t THEN lock.womAmount ELSE 0]

\* They are weights.
LEMMA WeightsAreNat ==
  /\ VeWomOf \in [Breeding -> Int] /\ WomOf \in [Breeding -> Int]
  /\ \A t \in Int : /\ LateWomOf(t) \in [Breeding -> Int]
                   /\ \A lock \in Breeding : LateWomOf(t)[lock] \in Nat
BY DEF VeWomOf, WomOf, LateWomOf, Breeding

\* The sums of the properties are sums of weights.
LEMMA LockedIsWeight ==
  ASSUME NEW locks \in Seq(Breeding)
  PROVE  /\ SumOver([i \in DOMAIN locks |-> locks[i].veWomAmount], DOMAIN locks) = Weight(VeWomOf, locks)
         /\ SumOver([i \in DOMAIN locks |-> locks[i].womAmount], DOMAIN locks) = Weight(WomOf, locks)
<1>1. \A i \in DOMAIN locks : locks[i] \in Breeding
  BY ElementOfSeq, LenProperties
<1>2. [i \in DOMAIN locks |-> locks[i].veWomAmount] = [i \in DOMAIN locks |-> VeWomOf[locks[i]]]
  BY <1>1 DEF VeWomOf
<1>3. [i \in DOMAIN locks |-> locks[i].womAmount] = [i \in DOMAIN locks |-> WomOf[locks[i]]]
  BY <1>1 DEF WomOf
<1> QED BY <1>2, <1>3 DEF Weight

\* The WOM locked until t or later is a sum of weights too.
LEMMA LateIsWeight ==
  ASSUME NEW locks \in Seq(Breeding), NEW t \in Int,
         NEW late, late = {i \in DOMAIN locks : locks[i].unlockTime >= t}
  PROVE  SumOver([i \in late |-> locks[i].womAmount], late) = Weight(LateWomOf(t), locks)
<1> DEFINE f == [i \in late |-> locks[i].womAmount]
           g == [i \in DOMAIN locks |-> LateWomOf(t)[locks[i]]]
<1>1. \A i \in DOMAIN locks : locks[i] \in Breeding
  BY ElementOfSeq, LenProperties
<1>2. LateWomOf(t) \in [Breeding -> Int]
  BY WeightsAreNat
<1>3. IsFiniteSet(DOMAIN locks) /\ late \subseteq DOMAIN locks
  BY <1>2, WeightInt
<1>4. \A i \in DOMAIN locks : /\ i \in late => f[i] \in Int /\ g[i] = f[i]
                              /\ i \notin late => g[i] = 0
  BY <1>1 DEF LateWomOf, Breeding
<1> HIDE DEF f, g
<1>5. SumOver(f, late) = SumOver(g, DOMAIN locks)
  BY <1>3, <1>4, SumFilter
<1> QED BY <1>5 DEF Weight, f, g

-----------------------------------------------------------------------------
(* Every lock can be paid back.                                            *)

\* The locks of each user give the veWOM the user has, and those of all
\* users hold the WOM the contract has.
Backed(locks, held, wom) ==
  /\ \A u \in Users : held[u] = Weight(VeWomOf, locks[u])
  /\ wom = SumOver([u \in Users |-> Weight(WomOf, locks[u])], Users)

LEMMA LocksBackedHere ==
  ASSUME breedings \in [Users -> Seq(Breeding)]
  PROVE  LocksBacked <=> Backed(breedings, balance, womHeld)
<1>1. \A u \in Users : /\ LockedVeWom(u) = Weight(VeWomOf, breedings[u])
                       /\ LockedWom(u) = Weight(WomOf, breedings[u])
  BY LockedIsWeight DEF LockedVeWom, LockedWom
<1> QED BY <1>1 DEF LocksBacked, Backed

\* The locks of one user change: the user's veWOM by dv, the contract's WOM by dw.
LEMMA BackedChange ==
  ASSUME NEW locks \in [Users -> Seq(Breeding)], NEW held \in [Users -> Nat], NEW wom,
         Backed(locks, held, wom),
         NEW u \in Users, NEW new \in Seq(Breeding), NEW dv \in Int, NEW dw \in Int,
         Weight(VeWomOf, new) = Weight(VeWomOf, locks[u]) + dv,
         Weight(WomOf, new) = Weight(WomOf, locks[u]) + dw
  PROVE  Backed([locks EXCEPT ![u] = new], [held EXCEPT ![u] = @ + dv], wom + dw)
<1> DEFINE changed == [locks EXCEPT ![u] = new]
           f == [v \in Users |-> Weight(WomOf, locks[v])]
           g == [v \in Users |-> Weight(WomOf, changed[v])]
<1>1. \A v \in Users : f[v] \in Int
  BY WeightsAreNat, WeightInt
<1>2. \A v \in Users : changed[v] = IF v = u THEN new ELSE locks[v]
  OBVIOUS
<1>3. \A v \in Users : /\ f[v] = Weight(WomOf, locks[v])
                       /\ g[v] = IF v = u THEN Weight(WomOf, new) ELSE Weight(WomOf, locks[v])
  BY <1>2
<1> HIDE DEF f, g
<1>4. MovesAt(f, g, Users, u, dw)
  BY <1>1, <1>3, VeWomAssumption DEF MovesAt
<1>5. SumOver(g, Users) = SumOver(f, Users) + dw
  BY <1>4, SumUpdate
<1>6. wom + dw = SumOver(g, Users)
  BY <1>5 DEF Backed, f
<1>7. \A v \in Users : [held EXCEPT ![u] = @ + dv][v] = Weight(VeWomOf, changed[v])
  BY <1>2 DEF Backed
<1> QED BY <1>6, <1>7 DEF Backed, g

\* u's locks become new; nothing that ends after now is lost.
LockStep(u, new, dv, dw) ==
  /\ breedings' = [breedings EXCEPT ![u] = new]
  /\ balance' = [balance EXCEPT ![u] = @ + dv]
  /\ womHeld' = womHeld + dw
  /\ now' = now
  /\ Weight(VeWomOf, new) = Weight(VeWomOf, breedings[u]) + dv
  /\ Weight(WomOf, new) = Weight(WomOf, breedings[u]) + dw
  /\ \A t \in Int : t > now =>
       Weight(LateWomOf(t), new) >= Weight(LateWomOf(t), breedings[u])

LEMMA MintLocks ==
  ASSUME VeWomInv, NEW u \in Users, NEW amount \in Amounts, NEW lockDays \in LockDays,
         Mint(u, amount, lockDays)
  PROVE  \E new \in Seq(Breeding), dv, dw \in Int : LockStep(u, new, dv, dw)
<1>1. amount \in Nat /\ lockDays \in Nat
  BY VeWomAssumption
<1>2. PICK ve \in Nat : ve = ExpectedVeWomAmount(amount, lockDays)
  BY <1>1, ExpectedNat
<1>3. PICK lock \in Breeding :
        lock = [unlockTime |-> now + lockDays, womAmount |-> amount, veWomAmount |-> ve]
  <2>1. now + lockDays \in Nat
    BY <1>1 DEF VeWomInv, VeWomTypeOK
  <2> QED BY <1>1, <2>1 DEF Breeding
<1>4. PICK locks \in Seq(Breeding) : locks = breedings[u]
  BY DEF VeWomInv, VeWomTypeOK
<1>5. PICK new \in Seq(Breeding) : new = Append(locks, lock)
  BY AppendProperties
<1>6. breedings' = [breedings EXCEPT ![u] = new]
  BY <1>2, <1>3, <1>4, <1>5 DEF Mint
<1>7. balance' = [balance EXCEPT ![u] = @ + ve] /\ womHeld' = womHeld + amount /\ now' = now
  BY <1>2 DEF Mint, ChangeBalance
<1>8. \A w \in [Breeding -> Int] : Weight(w, new) = Weight(w, locks) + w[lock]
  BY <1>5, WeightAppend
<1>9. VeWomOf[lock] = ve /\ WomOf[lock] = amount
  BY <1>3 DEF VeWomOf, WomOf
<1>10. ASSUME NEW t \in Int PROVE Weight(LateWomOf(t), new) >= Weight(LateWomOf(t), locks)
  <2>1. LateWomOf(t) \in [Breeding -> Int] /\ LateWomOf(t)[lock] \in Nat
    BY WeightsAreNat
  <2>2. Weight(LateWomOf(t), locks) \in Int
    BY <2>1, WeightInt
  <2>3. Weight(LateWomOf(t), new) = Weight(LateWomOf(t), locks) + LateWomOf(t)[lock]
    BY <1>8, <2>1
  <2> QED BY <2>1, <2>2, <2>3
<1>11. LockStep(u, new, ve, amount)
  BY <1>4, <1>6, <1>7, <1>8, <1>9, <1>10, WeightsAreNat DEF LockStep
<1> QED BY <1>1, <1>11

LEMMA BurnLocks ==
  ASSUME VeWomInv, NEW u \in Users, NEW slot \in 1..Len(breedings[u]), Burn(u, slot)
  PROVE  \E new \in Seq(Breeding), dv, dw \in Int : LockStep(u, new, dv, dw)
<1>1. PICK locks \in Seq(Breeding) : locks = breedings[u]
  BY DEF VeWomInv, VeWomTypeOK
<1>2. PICK lock \in Breeding : lock = locks[slot]
  BY <1>1
<1>3. lock.womAmount \in Nat /\ lock.veWomAmount \in Nat /\ lock.unlockTime \in Nat
  BY DEF Breeding
<1>4. PICK new \in Seq(Breeding) : new = RemoveSlot(locks, slot)
  BY <1>1, RemoveSlotType
<1>5. breedings' = [breedings EXCEPT ![u] = new] /\ now' = now
  BY <1>1, <1>4 DEF Burn
<1>6. PICK dv \in Int : dv = 0 - lock.veWomAmount
  BY <1>3
<1>7. PICK dw \in Int : dw = 0 - lock.womAmount
  BY <1>3
<1>8. balance' = [balance EXCEPT ![u] = @ + dv]
  BY <1>1, <1>2, <1>6 DEF Burn, ChangeBalance
<1>9. womHeld' = womHeld + dw
  BY <1>1, <1>2, <1>3, <1>7 DEF Burn, VeWomInv, VeWomTypeOK
<1>10. ASSUME NEW w \in [Breeding -> Int]
       PROVE  Weight(w, new) = Weight(w, locks) - w[lock] /\ Weight(w, locks) \in Int
  <2>1. slot \in 1..Len(locks)
    BY <1>1
  <2>2. Weight(w, RemoveSlot(locks, slot)) = Weight(w, locks) - w[locks[slot]]
    BY <2>1, WeightRemoveSlot
  <2>3. Weight(w, locks) \in Int
    BY WeightInt
  <2> QED BY <1>2, <1>4, <2>2, <2>3
<1>11. VeWomOf[lock] = lock.veWomAmount /\ WomOf[lock] = lock.womAmount
  BY DEF VeWomOf, WomOf
<1>12. /\ Weight(VeWomOf, new) = Weight(VeWomOf, locks) + dv
       /\ Weight(WomOf, new) = Weight(WomOf, locks) + dw
  <2>1. /\ Weight(VeWomOf, new) = Weight(VeWomOf, locks) - lock.veWomAmount
        /\ Weight(WomOf, new) = Weight(WomOf, locks) - lock.womAmount
        /\ Weight(VeWomOf, locks) \in Int /\ Weight(WomOf, locks) \in Int
    BY <1>10, <1>11, WeightsAreNat
  <2>2. \A x \in Int, y \in Nat : x - y = x + (0 - y)
    OBVIOUS
  <2> QED BY <1>3, <1>6, <1>7, <2>1, <2>2
<1>13. ASSUME NEW t \in Int, t > now
       PROVE  Weight(LateWomOf(t), new) >= Weight(LateWomOf(t), locks)
  <2>1. lock.unlockTime <= now /\ now \in Nat
    BY <1>1, <1>2 DEF Burn, VeWomInv, VeWomTypeOK
  <2>2. LateWomOf(t)[lock] = 0
    BY <1>3, <1>13, <2>1 DEF LateWomOf
  <2>3. LateWomOf(t) \in [Breeding -> Int]
    BY WeightsAreNat
  <2>4. /\ Weight(LateWomOf(t), new) = Weight(LateWomOf(t), locks) - LateWomOf(t)[lock]
        /\ Weight(LateWomOf(t), locks) \in Int
    BY <1>10, <2>3
  <2> QED BY <2>2, <2>4
<1>14. LockStep(u, new, dv, dw)
  BY <1>1, <1>5, <1>8, <1>9, <1>12, <1>13 DEF LockStep
<1> QED BY <1>14

LEMMA UpdateLocks ==
  ASSUME VeWomInv, NEW u \in Users, NEW slot \in 1..Len(breedings[u]),
         NEW lockDays \in LockDays, Update(u, slot, lockDays)
  PROVE  \E new \in Seq(Breeding), dv, dw \in Int : LockStep(u, new, dv, dw)
<1>1. PICK locks \in Seq(Breeding) : locks = breedings[u]
  BY DEF VeWomInv, VeWomTypeOK
<1>2. PICK lock \in Breeding : lock = locks[slot]
  BY <1>1
<1>3. /\ lock.womAmount \in Nat /\ lock.veWomAmount \in Nat /\ lock.unlockTime \in Nat
      /\ lockDays \in Nat
  BY VeWomAssumption DEF Breeding
<1>4. PICK ve \in Nat : ve = ExpectedVeWomAmount(lock.womAmount, lockDays)
  BY <1>3, ExpectedNat
<1>5. PICK end \in Nat : end = now + lockDays
  BY <1>3 DEF VeWomInv, VeWomTypeOK
<1>6. PICK other \in Breeding :
        other = [unlockTime |-> end, womAmount |-> lock.womAmount, veWomAmount |-> ve]
  BY <1>3 DEF Breeding
<1>7. PICK new \in Seq(Breeding) : new = [locks EXCEPT ![slot] = other]
  <2>1. [locks EXCEPT ![slot] = other] \in Seq(Breeding)
    BY <1>1, ExceptSeq
  <2> QED BY <2>1
<1>8. breedings' = [breedings EXCEPT ![u] = new]
  <2>1. breedings' = [breedings EXCEPT ![u][slot] = other]
    BY <1>1, <1>2, <1>4, <1>5, <1>6 DEF Update
  <2> QED BY <1>1, <1>7, <2>1 DEF VeWomInv, VeWomTypeOK
<1>9. PICK dv \in Int : dv = ve - lock.veWomAmount
  BY <1>3
<1>10. balance' = [balance EXCEPT ![u] = @ + dv] /\ now' = now
  BY <1>1, <1>2, <1>4, <1>9 DEF Update, ChangeBalance
<1>11. womHeld' = womHeld + 0
  BY DEF Update, VeWomInv, VeWomTypeOK
<1>12. ASSUME NEW w \in [Breeding -> Int]
       PROVE  /\ Weight(w, new) = Weight(w, locks) + (w[other] - w[lock])
              /\ Weight(w, locks) \in Int
  <2>1. slot \in 1..Len(locks)
    BY <1>1
  <2>2. Weight(w, [locks EXCEPT ![slot] = other]) = Weight(w, locks) + (w[other] - w[locks[slot]])
    BY <2>1, WeightExcept
  <2>3. Weight(w, locks) \in Int
    BY WeightInt
  <2> QED BY <1>2, <1>7, <2>2, <2>3
<1>13. /\ VeWomOf[lock] = lock.veWomAmount /\ WomOf[lock] = lock.womAmount
       /\ VeWomOf[other] = ve /\ WomOf[other] = lock.womAmount
  BY <1>6 DEF VeWomOf, WomOf
<1>14. /\ Weight(VeWomOf, new) = Weight(VeWomOf, locks) + dv
       /\ Weight(WomOf, new) = Weight(WomOf, locks) + 0
  <2>1. /\ Weight(VeWomOf, new) = Weight(VeWomOf, locks) + (ve - lock.veWomAmount)
        /\ Weight(WomOf, new) = Weight(WomOf, locks) + (lock.womAmount - lock.womAmount)
        /\ Weight(VeWomOf, locks) \in Int /\ Weight(WomOf, locks) \in Int
    BY <1>12, <1>13, WeightsAreNat
  <2> QED BY <1>3, <1>9, <2>1
<1>15. ASSUME NEW t \in Int, t > now
       PROVE  Weight(LateWomOf(t), new) >= Weight(LateWomOf(t), locks)
  <2>1. lock.unlockTime < end
    BY <1>1, <1>2, <1>5 DEF Update
  <2>2. LateWomOf(t)[other] >= LateWomOf(t)[lock]
    BY <1>3, <1>6, <2>1 DEF LateWomOf
  <2>3. LateWomOf(t)[other] \in Nat /\ LateWomOf(t)[lock] \in Nat /\ LateWomOf(t) \in [Breeding -> Int]
    BY WeightsAreNat
  <2>4. /\ Weight(LateWomOf(t), new)
             = Weight(LateWomOf(t), locks) + (LateWomOf(t)[other] - LateWomOf(t)[lock])
        /\ Weight(LateWomOf(t), locks) \in Int
    BY <1>12, <2>3
  <2> QED BY <2>2, <2>3, <2>4
<1>16. LockStep(u, new, dv, 0)
  BY <1>1, <1>8, <1>10, <1>11, <1>14, <1>15 DEF LockStep
<1> QED BY <1>16

\* Steps of others than users leave the locks alone.
LEMMA LocksUntouched ==
  ASSUME VoterStep \/ OwnerStep \/ Tick \/ UNCHANGED veWomVars
  PROVE  UNCHANGED lockVars
BY DEF VoterStep, Vote, OwnerStep, Change, Pause, Unpause, SetMasterWombat, SetVoter,
       SetMaxBreedingLength, ApproveWallet, RevokeWallet, Tick, veWomVars, lockVars

\* A user's transaction is a step of the user's locks, or leaves all locks alone.
LEMMA UserLocks ==
  ASSUME VeWomInv, UserStep
  PROVE  \/ \E u \in Users, new \in Seq(Breeding), dv, dw \in Int : LockStep(u, new, dv, dw)
         \/ UNCHANGED lockVars
<1>1. CASE \E m \in Managers, u \in Users, n \in Stakes \union {0} : MoveStake(m, u, n)
  BY <1>1 DEF MoveStake, lockVars
<1>2. CASE ~ \E m \in Managers, u \in Users, n \in Stakes \union {0} : MoveStake(m, u, n)
  BY <1>2, MintLocks, BurnLocks, UpdateLocks DEF UserStep
<1> QED BY <1>1, <1>2

\* The invariant of the locks.
LocksInv == Backed(breedings, balance, womHeld)

LEMMA LocksNext == VeWomInv /\ LocksInv /\ [VeWomNext]_veWomVars => LocksInv'
<1> SUFFICES ASSUME VeWomInv, LocksInv, [VeWomNext]_veWomVars PROVE LocksInv'
  OBVIOUS
<1>1. CASE \E u \in Users, new \in Seq(Breeding), dv, dw \in Int : LockStep(u, new, dv, dw)
  <2>1. PICK u \in Users : \E new \in Seq(Breeding), dv, dw \in Int : LockStep(u, new, dv, dw)
    BY <1>1
  <2>2. PICK new \in Seq(Breeding), dv \in Int, dw \in Int : LockStep(u, new, dv, dw)
    BY <2>1
  <2>3. Backed([breedings EXCEPT ![u] = new], [balance EXCEPT ![u] = @ + dv], womHeld + dw)
    BY <2>2, BackedChange DEF LockStep, LocksInv, VeWomInv, VeWomTypeOK
  <2> QED BY <2>2, <2>3 DEF LockStep, LocksInv
<1>2. CASE UNCHANGED lockVars
  BY <1>2 DEF LocksInv, lockVars
<1> QED BY <1>1, <1>2, UserLocks, LocksUntouched DEF VeWomNext

LEMMA LocksInit == VeWomInit => LocksInv
<1> SUFFICES ASSUME VeWomInit PROVE LocksInv
  OBVIOUS
<1>1. \A u \in Users : Weight(VeWomOf, breedings[u]) = 0 /\ Weight(WomOf, breedings[u]) = 0
  BY WeightEmpty DEF VeWomInit
<1>2. SumOver([u \in Users |-> Weight(WomOf, breedings[u])], Users) = 0
  BY <1>1, SumZero, VeWomAssumption
<1> QED BY <1>1, <1>2 DEF LocksInv, Backed, VeWomInit

\* The veWOM of every user is what the user's locks gave, and the contract
\* holds the WOM of all locks, so that each can be paid back, for any users,
\* locks and owner transactions. (_mint, _burn, _burnLock's swapped slots)
THEOREM LocksStayBacked == VeWomSpec => []LocksBacked
<1>1. VeWomInv /\ LocksInv => LocksBacked
  BY LocksBackedHere DEF VeWomInv, VeWomTypeOK, LocksInv
<1>2. VeWomInit => LocksInv
  BY LocksInit
<1>3. VeWomInv /\ LocksInv /\ [VeWomNext]_veWomVars => LocksInv'
  BY LocksNext
<1> QED BY <1>1, <1>2, <1>3, VeWomInvariance, PTL DEF VeWomSpec

\* The step that LocksHold asks for.
LateLocksKept ==
  \A u \in Users : \A t \in now'+1 .. MaxTime + MaxLockDays :
     LockedUntil(u, t)' >= LockedUntil(u, t)

LEMMA LateLocksNext == VeWomInv /\ VeWomInv' /\ [VeWomNext]_veWomVars => [LateLocksKept]_veWomVars
<1> SUFFICES ASSUME VeWomInv, VeWomInv', [VeWomNext]_veWomVars PROVE LateLocksKept
  OBVIOUS
<1>1. now \in Nat /\ now' \in Nat /\ now <= now'
  <2>1. now' = now \/ now' = now + 1
    <3>1. CASE UserStep
      BY <3>1, UserStepLeaves
    <3>2. CASE VoterStep
      BY <3>2 DEF VoterStep, Vote
    <3>3. CASE OwnerStep
      BY <3>3 DEF OwnerStep, Change, Pause, Unpause, SetMasterWombat, SetVoter,
                  SetMaxBreedingLength, ApproveWallet, RevokeWallet
    <3>4. CASE Tick \/ UNCHANGED veWomVars
      BY <3>4 DEF Tick, veWomVars
    <3> QED BY <3>1, <3>2, <3>3, <3>4 DEF VeWomNext
  <2> QED BY <2>1 DEF VeWomInv, VeWomTypeOK
<1> DEFINE later == now'+1 .. MaxTime + MaxLockDays
<1>0. \A t \in later : t \in Int /\ t > now
  <2>1. MaxTime \in Nat /\ MaxLockDays \in Nat
    BY VeWomAssumption
  <2>2. PICK n \in Nat : n = now'
    BY <1>1
  <2>3. PICK low \in Nat : low = n + 1
    OBVIOUS
  <2>4. PICK high \in Nat : high = MaxTime + MaxLockDays
    BY <2>1
  <2>5. \A t \in low..high : t \in Int /\ low <= t
    OBVIOUS
  <2>6. \A t \in low..high : t > n
    BY <2>3, <2>5
  <2>7. now \in Nat /\ now <= n
    BY <1>1, <2>2
  <2>8. later = low..high
    BY <2>2, <2>3, <2>4
  <2> HIDE DEF later
  <2> QED BY <2>5, <2>6, <2>7, <2>8
<1> HIDE DEF later
<1> SUFFICES ASSUME NEW v \in Users, NEW t \in later
             PROVE  LockedUntil(v, t)' >= LockedUntil(v, t)
  BY DEF LateLocksKept, later
<1> t \in Int /\ t > now
  BY <1>0
<1>2. LockedUntil(v, t) = Weight(LateWomOf(t), breedings[v])
  <2>1. PICK locks \in Seq(Breeding) : locks = breedings[v]
    BY DEF VeWomInv, VeWomTypeOK
  <2>2. PICK late : late = {i \in DOMAIN locks : locks[i].unlockTime >= t}
    OBVIOUS
  <2>3. SumOver([i \in late |-> locks[i].womAmount], late) = Weight(LateWomOf(t), locks)
    BY <2>2, LateIsWeight
  <2> QED BY <2>1, <2>2, <2>3 DEF LockedUntil
<1>3. LockedUntil(v, t)' = Weight(LateWomOf(t), breedings'[v])
  <2>1. PICK locks \in Seq(Breeding) : locks = breedings'[v]
    BY DEF VeWomInv, VeWomTypeOK
  <2>2. PICK late : late = {i \in DOMAIN locks : locks[i].unlockTime >= t}
    OBVIOUS
  <2>3. SumOver([i \in late |-> locks[i].womAmount], late) = Weight(LateWomOf(t), locks)
    BY <2>2, LateIsWeight
  <2> QED BY <2>1, <2>2, <2>3 DEF LockedUntil
<1>4. Weight(LateWomOf(t), breedings[v]) \in Int
  <2>1. breedings[v] \in Seq(Breeding) /\ LateWomOf(t) \in [Breeding -> Int]
    BY WeightsAreNat DEF VeWomInv, VeWomTypeOK
  <2> QED BY <2>1, WeightInt
<1>5. CASE \E u \in Users, new \in Seq(Breeding), dv, dw \in Int : LockStep(u, new, dv, dw)
  <2>1. PICK u \in Users : \E new \in Seq(Breeding), dv, dw \in Int : LockStep(u, new, dv, dw)
    BY <1>5
  <2>2. PICK new \in Seq(Breeding), dv \in Int, dw \in Int : LockStep(u, new, dv, dw)
    BY <2>1
  <2>3. CASE v = u
    <3>1. breedings'[v] = new
      BY <2>2, <2>3 DEF LockStep, VeWomInv, VeWomTypeOK
    <3> QED BY <1>2, <1>3, <2>2, <2>3, <3>1 DEF LockStep
  <2>4. CASE v # u
    <3>1. breedings'[v] = breedings[v]
      BY <2>2, <2>4 DEF LockStep, VeWomInv, VeWomTypeOK
    <3> QED BY <1>2, <1>3, <1>4, <3>1
  <2> QED BY <2>3, <2>4
<1>6. CASE UNCHANGED lockVars
  <2>1. breedings' = breedings
    BY <1>6 DEF lockVars
  <2> QED BY <1>2, <1>3, <1>4, <2>1
<1> QED BY <1>5, <1>6, UserLocks, LocksUntouched DEF VeWomNext

\* No step lowers the WOM a user has locked until a later day, neither a burn
\* that moves slots around nor an update. (burn, update)
THEOREM LocksAlwaysHold == VeWomSpec => LocksHold
<1>1. VeWomInv /\ VeWomInv' /\ [VeWomNext]_veWomVars => [LateLocksKept]_veWomVars
  BY LateLocksNext
<1> QED BY <1>1, VeWomInvariance, PTL DEF VeWomSpec, LocksHold, LateLocksKept

-----------------------------------------------------------------------------
-----------------------------------------------------------------------------
(* The ballots of the Voter.                                               *)

\* A ballot is a finite list of gauges and changes of votes.
LEMMA BallotShape ==
  ASSUME NEW ballot \in Ballots
  PROVE  /\ Len(ballot) \in Nat /\ DOMAIN ballot = 1..Len(ballot)
         /\ IsFiniteSet(DOMAIN ballot)
         /\ \A i \in DOMAIN ballot : ballot[i].lp \in Gauges /\ ballot[i].delta \in Int
<1>1. ballot \in Seq([lp : Gauges, delta : Int])
  BY VoterAssumption
<1>2. Len(ballot) \in Nat /\ DOMAIN ballot = 1..Len(ballot)
  BY <1>1, LenProperties
<1>3. IsFiniteSet(DOMAIN ballot)
  BY <1>2, FS_Interval
<1>4. ASSUME NEW i \in DOMAIN ballot
      PROVE  ballot[i].lp \in Gauges /\ ballot[i].delta \in Int
  <2>1. ballot[i] \in [lp : Gauges, delta : Int]
    BY <1>1, <1>2, ElementOfSeq
  <2> QED BY <2>1
<1> QED BY <1>2, <1>3, <1>4

\* The changes a ballot makes to one gauge are integers, and none are made to
\* a gauge that it does not touch.
LEMMA DeltaInt ==
  ASSUME NEW ballot \in Ballots, NEW n \in 0..Len(ballot), NEW g
  PROVE  BallotDelta(ballot, n, g) \in Int
<1> DEFINE f == [i \in 1..n |-> IF ballot[i].lp = g THEN ballot[i].delta ELSE 0]
<1>1. n \in Nat /\ 1..n \subseteq DOMAIN ballot
  BY BallotShape
<1>2. \A i \in 1..n : f[i] \in Int
  BY <1>1, BallotShape
<1>3. IsFiniteSet(1..n)
  BY <1>1, FS_Interval
<1>4. SumOver(f, 1..n) \in Int
  <2> HIDE DEF f
  <2> QED BY <1>2, <1>3, SumInt
<1> QED BY <1>4 DEF BallotDelta

LEMMA UntouchedDelta ==
  ASSUME NEW ballot \in Ballots, NEW g, g \notin Touched(ballot)
  PROVE  BallotDelta(ballot, Len(ballot), g) = 0
<1> DEFINE n == Len(ballot)
           f == [i \in 1..n |-> IF ballot[i].lp = g THEN ballot[i].delta ELSE 0]
<1>1. DOMAIN ballot = 1..n /\ IsFiniteSet(1..n)
  BY BallotShape
<1>2. \A i \in 1..n : f[i] = 0
  BY <1>1 DEF Touched
<1>3. SumOver(f, 1..n) = 0
  <2> HIDE DEF f
  <2> QED BY <1>1, <1>2, SumZero
<1> QED BY <1>3 DEF BallotDelta

\* After the last entry for a gauge its votes have changed by all there is.
LEMMA LastEntry ==
  ASSUME NEW ballot \in Ballots, NEW g \in Listed(ballot)
  PROVE  \E i \in DOMAIN ballot :
           ballot[i].lp = g /\ BallotDelta(ballot, Len(ballot), g) = BallotDelta(ballot, i, g)
<1> DEFINE n == Len(ballot)
           D == {j \in DOMAIN ballot : ballot[j].lp = g}
           After(i) == {j \in D : j > i}
           Afters == {After(i) : i \in D}
<1>1. DOMAIN ballot = 1..n /\ n \in Nat /\ IsFiniteSet(1..n)
  BY BallotShape
<1>2. \E i \in D : After(i) = {}
  <2>1. PICK i0 : i0 \in D
    BY DEF Listed
  <2>2. Afters \in SUBSET (SUBSET (1..n)) /\ Afters # {}
    BY <1>1, <2>1
  <2>3. PICK T \in Afters : \A U \in Afters : U \subseteq T => U = T
    <3>1. PICK S : S = 1..n
      OBVIOUS
    <3>2. Afters \in SUBSET (SUBSET S) /\ Afters # {} /\ IsFiniteSet(S)
      BY <1>1, <2>2, <3>1
    <3> HIDE DEF Afters
    <3> QED BY <3>2, MinimalSubset
  <2>4. PICK i \in D : T = After(i)
    BY <2>3
  <2>5. ASSUME NEW j \in After(i) PROVE FALSE
    <3>1. j \in D /\ j > i /\ i \in Int /\ j \in Int
      BY <1>1, <2>4, <2>5
    <3>2. After(j) \subseteq After(i) /\ After(j) \in Afters
      BY <1>1, <3>1
    <3>3. After(j) = After(i)
      BY <2>3, <2>4, <3>2
    <3>4. j \notin After(j)
      BY <3>1
    <3> QED BY <3>3, <3>4, <2>5
  <2> QED BY <2>4, <2>5
<1>3. PICK i \in D : After(i) = {}
  BY <1>2
<1>4. i \in 1..n /\ ballot[i].lp = g /\ \A j \in 1..n : j > i => ballot[j].lp # g
  BY <1>1, <1>3
<1> DEFINE e == [j \in 1..n |-> IF ballot[j].lp = g THEN ballot[j].delta ELSE 0]
           f == [j \in 1..i |-> IF ballot[j].lp = g THEN ballot[j].delta ELSE 0]
<1>5. 1..i \subseteq 1..n
  BY <1>1, <1>4
<1>6. \A j \in 1..n : /\ j \in 1..i => f[j] \in Int /\ e[j] = f[j]
                      /\ j \notin 1..i => e[j] = 0
  BY <1>1, <1>4, <1>5, BallotShape
<1>7. SumOver(f, 1..i) = SumOver(e, 1..n)
  <2> HIDE DEF e, f
  <2> QED BY <1>1, <1>5, <1>6, SumFilter
<1> QED BY <1>1, <1>4, <1>7 DEF BallotDelta

\* Over all gauges a ballot changes the votes by its total.
LEMMA BallotSum ==
  ASSUME NEW ballot \in Ballots
  PROVE  /\ BallotTotal(ballot) \in Int
         /\ SumOver([g \in Gauges |-> BallotDelta(ballot, Len(ballot), g)], Gauges)
              = BallotTotal(ballot)
<1> DEFINE n == Len(ballot)
           D == 1..n
           c == [i \in D |-> ballot[i].lp]
           f == [i \in DOMAIN ballot |-> ballot[i].delta]
           part == [g \in Gauges |-> [i \in D |-> IF ballot[i].lp = g THEN ballot[i].delta ELSE 0]]
           h == [g \in Gauges |-> BallotDelta(ballot, n, g)]
<1>1. DOMAIN ballot = D /\ IsFiniteSet(D) /\ IsFiniteSet(Gauges)
  BY BallotShape, VoterAssumption
<1>2. \A i \in D : c[i] \in Gauges /\ f[i] \in Int
  BY <1>1, BallotShape
<1>3. \A g \in Gauges : \A i \in D : part[g][i] = IF c[i] = g THEN f[i] ELSE 0
  BY <1>1
<1>4. \A g \in Gauges : h[g] = SumOver(part[g], D)
  BY DEF BallotDelta
<1>5. SumOver(f, D) = BallotTotal(ballot)
  BY <1>1 DEF BallotTotal
<1>6. SumOver(h, Gauges) = SumOver(f, D)
  <2>1. SumsClasses(h, Gauges, f, D, c, part)
    <3> HIDE DEF c, f, part, h, D
    <3> QED BY <1>1, <1>2, <1>3, <1>4 DEF SumsClasses
  <2> QED BY <2>1, SumByClass
<1>7. SumOver(f, D) \in Int
  <2> HIDE DEF f, D
  <2> QED BY <1>1, <1>2, SumInt
<1> QED BY <1>5, <1>6, <1>7

-----------------------------------------------------------------------------
(* Votes, weights and totals.                                              *)

\* What a ballot changes: the votes of u by delta, the sum of which is total.
BallotStep(u, delta, total) ==
  /\ votes' = [votes EXCEPT ![u] = [g \in Gauges |-> votes[u][g] + delta[g]]]
  /\ weights' = [g \in Gauges |-> [weights[g] EXCEPT !.voteWeight = @ + delta[g]]]
  /\ totals' = [totals EXCEPT !.voteWeight = @ + total]
  /\ usedVote' = [usedVote EXCEPT ![u] = @ + total]
  /\ SumOver(delta, Gauges) = total /\ total \in Int
  /\ \A g \in Gauges : votes[u][g] + delta[g] \in Nat

\* A ballot is such a change, and does not change what it does not touch.
LEMMA CastBallotStep ==
  ASSUME votes \in [Users -> [Gauges -> Nat]], NEW u \in Users, NEW ballot \in Ballots,
         CastBallot(u, ballot)
  PROVE  \E delta \in [Gauges -> Int] :
           /\ BallotStep(u, delta, BallotTotal(ballot))
           /\ \A g \in Gauges : g \notin Touched(ballot) => delta[g] = 0
<1> DEFINE n == Len(ballot)
           delta == [g \in Gauges |-> BallotDelta(ballot, n, g)]
<1>1. n \in 0..Len(ballot)
  BY BallotShape
<1>2. \A g \in Gauges : BallotDelta(ballot, n, g) \in Int
  BY <1>1, DeltaInt
<1>3. delta \in [Gauges -> Int]
  BY <1>2
<1>4. \A g \in Gauges : g \notin Touched(ballot) => delta[g] = 0
  BY UntouchedDelta
<1>5. ASSUME NEW g \in Gauges PROVE votes[u][g] + delta[g] \in Nat
  <2>1. CASE g \in Listed(ballot)
    <3>1. PICK i \in DOMAIN ballot :
            ballot[i].lp = g /\ BallotDelta(ballot, n, g) = BallotDelta(ballot, i, g)
      BY <2>1, LastEntry
    <3>2. votes[u][g] + BallotDelta(ballot, i, g) >= 0
      BY <3>1 DEF CastBallot, BallotValid
    <3> QED BY <1>2, <3>1, <3>2
  <2>2. CASE g \notin Listed(ballot)
    <3>1. g \notin Touched(ballot)
      BY <2>2 DEF Touched, Listed
    <3>2. delta[g] = 0
      BY <1>4, <3>1
    <3> HIDE DEF delta
    <3> QED BY <3>2
  <2> QED BY <2>1, <2>2
<1>6. BallotStep(u, delta, BallotTotal(ballot))
  BY <1>5, BallotSum DEF CastBallot, BallotStep, UseVote
<1> QED BY <1>3, <1>4, <1>6

\* The types of what the votes are counted in.
CountsTyped ==
  /\ votes \in [Users -> [Gauges -> Nat]]
  /\ weights \in [Gauges -> [allocPoint : Nat, voteWeight : Nat]]
  /\ totals \in [allocPoint : Nat, voteWeight : Nat]
  /\ usedVote \in [Users -> Nat]

\* The votes agree after such a change, and all of them are natural numbers.
LEMMA BallotAgrees ==
  ASSUME CountsTyped, VotesAgree, NEW u \in Users, NEW delta \in [Gauges -> Int], NEW total,
         BallotStep(u, delta, total), usedVote' \in [Users -> Nat]
  PROVE  CountsTyped' /\ VotesAgree'
<1> USE DEF CountsTyped
<1>1. IsFiniteSet(Users) /\ IsFiniteSet(Gauges)
  BY VeWomAssumption, VoterAssumption
<1>2. PICK new \in [Gauges -> Nat] : new = [g \in Gauges |-> votes[u][g] + delta[g]]
  BY DEF BallotStep
<1>3. votes' = [votes EXCEPT ![u] = new]
  BY <1>2 DEF BallotStep
<1>4. votes' \in [Users -> [Gauges -> Nat]]
  BY <1>3
<1>5. \A v \in Users : usedVote'[v] = SumOver(votes'[v], Gauges)
  <2>1. SumOver(new, Gauges) = SumOver(votes[u], Gauges) + SumOver(delta, Gauges)
    BY <1>1, <1>2, SumPlus
  <2> QED BY <1>3, <2>1 DEF BallotStep, VotesAgree
<1>6. \A g \in Gauges : /\ weights'[g].voteWeight = weights[g].voteWeight + delta[g]
                        /\ weights'[g].allocPoint = weights[g].allocPoint
                        /\ weights'[g] \in [allocPoint : Nat, voteWeight : Int]
                        /\ weights[g].voteWeight \in Nat /\ weights[g].allocPoint \in Nat
  <2> TAKE g \in Gauges
  <2>1. weights[g] \in [allocPoint : Nat, voteWeight : Nat]
    OBVIOUS
  <2>2. PICK w \in [allocPoint : Nat, voteWeight : Nat] : w = weights[g]
    BY <2>1
  <2>3. PICK n \in Int : n = w.voteWeight + delta[g]
    OBVIOUS
  <2>4. weights'[g] = [w EXCEPT !.voteWeight = n]
    BY <2>2, <2>3 DEF BallotStep
  <2> QED BY <2>2, <2>3, <2>4
<1>7. ASSUME NEW g \in Gauges
      PROVE  /\ weights'[g].voteWeight = SumOver([v \in Users |-> votes'[v][g]], Users)
             /\ weights'[g].voteWeight \in Nat
  <2> DEFINE before == [v \in Users |-> votes[v][g]]
             after == [v \in Users |-> votes'[v][g]]
  <2>1. MovesAt(before, after, Users, u, delta[g])
    BY <1>1, <1>2, <1>3 DEF MovesAt
  <2>2. SumOver(after, Users) = SumOver(before, Users) + delta[g]
    <3> HIDE DEF before, after
    <3> QED BY <2>1, SumUpdate
  <2>3. SumOver(after, Users) \in Nat
    <3>1. \A v \in Users : after[v] \in Nat
      BY <1>4
    <3> HIDE DEF after
    <3> QED BY <1>1, <3>1, SumNat
  <2> QED BY <1>6, <2>2, <2>3 DEF VotesAgree
<1>8. weights' \in [Gauges -> [allocPoint : Nat, voteWeight : Nat]]
  <2>1. \A g \in Gauges : weights'[g] \in [allocPoint : Nat, voteWeight : Nat]
    BY <1>6, <1>7
  <2>2. weights' = [g \in Gauges |-> weights'[g]]
    BY DEF BallotStep
  <2> QED BY <2>1, <2>2
<1>9. /\ totals'.voteWeight = SumOver(Column(weights, "voteWeight")', Gauges)
      /\ totals'.voteWeight \in Nat
  <2> DEFINE before == Column(weights, "voteWeight")
             after == Column(weights', "voteWeight")
  <2>1. \A g \in Gauges : before[g] \in Int /\ delta[g] \in Int /\ after[g] = before[g] + delta[g]
    BY <1>6 DEF Column
  <2>2. \A g \in Gauges : after[g] \in Nat
    BY <1>7 DEF Column
  <2>3. SumOver(after, Gauges) = SumOver(before, Gauges) + SumOver(delta, Gauges)
    <3>1. AddsUp(after, before, delta, Gauges)
      <4> HIDE DEF before, after
      <4> QED BY <1>1, <2>1 DEF AddsUp
    <3> HIDE DEF before, after
    <3> QED BY <3>1, SumAddsUp
  <2>4. SumOver(after, Gauges) \in Nat
    <3> HIDE DEF after
    <3> QED BY <1>1, <2>2, SumNat
  <2>5. totals'.voteWeight = totals.voteWeight + total /\ SumOver(delta, Gauges) = total
    BY DEF BallotStep
  <2> QED BY <2>3, <2>4, <2>5 DEF VotesAgree, Column
<1>10. totals'.allocPoint = totals.allocPoint
       /\ totals' \in [allocPoint : Nat, voteWeight : Nat]
  BY <1>9 DEF BallotStep
<1>11. Column(weights, "allocPoint")' = Column(weights, "allocPoint")
  BY <1>6 DEF Column
<1>12. VotesAgree'
  BY <1>5, <1>7, <1>9, <1>10, <1>11 DEF VotesAgree
<1> QED BY <1>4, <1>8, <1>10, <1>12

\* The points of a gauge change with the total.
LEMMA PointsAgree ==
  ASSUME CountsTyped, VotesAgree, NEW e \in Gauges, NEW n \in Nat,
         totals' = [totals EXCEPT !.allocPoint = @ - weights[e].allocPoint + n],
         weights' = [weights EXCEPT ![e].allocPoint = n],
         votes' = votes, usedVote' = usedVote
  PROVE  CountsTyped' /\ VotesAgree'
<1> USE DEF CountsTyped
<1>1. \A g \in Gauges : /\ weights'[g].voteWeight = weights[g].voteWeight
                        /\ weights'[g].allocPoint = IF g = e THEN n ELSE weights[g].allocPoint
                        /\ weights[g].allocPoint \in Nat
  OBVIOUS
<1>2. weights' \in [Gauges -> [allocPoint : Nat, voteWeight : Nat]]
  OBVIOUS
<1>3. Column(weights', "voteWeight") = Column(weights, "voteWeight")
  BY <1>1 DEF Column
<1> DEFINE before == Column(weights, "allocPoint")
           after == Column(weights', "allocPoint")
           change == n - weights[e].allocPoint
<1>4. MovesAt(before, after, Gauges, e, change)
  <2>1. IsFiniteSet(Gauges) /\ change \in Int
    BY <1>1, VoterAssumption
  <2>2. \A g \in Gauges : before[g] = weights[g].allocPoint /\ after[g] = weights'[g].allocPoint
    BY DEF Column
  <2>3. \A g \in Gauges : after[g] = IF g = e THEN before[g] + change ELSE before[g]
    <3> TAKE g \in Gauges
    <3>1. CASE g = e
      <4>1. PICK b \in Nat : b = weights[e].allocPoint
        BY <1>1
      <4>2. b + (n - b) = n
        OBVIOUS
      <4> QED BY <1>1, <2>2, <3>1, <4>1, <4>2
    <3> QED BY <1>1, <2>2, <3>1
  <2>4. \A g \in Gauges : before[g] \in Int
    BY <1>1, <2>2
  <2> HIDE DEF before, after, change
  <2> QED BY <2>1, <2>3, <2>4 DEF MovesAt
<1>5. SumOver(after, Gauges) = SumOver(before, Gauges) + change /\ SumOver(before, Gauges) \in Int
  <2> HIDE DEF before, after, change
  <2> QED BY <1>4, SumUpdate
<1>6. SumOver(after, Gauges) \in Nat
  <2>1. \A g \in Gauges : after[g] \in Nat
    BY <1>1 DEF Column
  <2> HIDE DEF after
  <2> QED BY <2>1, VoterAssumption, SumNat
<1>7. totals'.allocPoint = totals.allocPoint + change /\ totals'.voteWeight = totals.voteWeight
  BY <1>1
<1>8. totals.allocPoint = SumOver(before, Gauges)
  BY DEF VotesAgree
<1>9. totals'.allocPoint = SumOver(after, Gauges)
  <2> HIDE DEF before, after, change
  <2> QED BY <1>5, <1>7, <1>8
<1>10. totals' \in [allocPoint : Nat, voteWeight : Nat]
  <2>1. totals'.allocPoint \in Nat
    <3> HIDE DEF after
    <3> QED BY <1>6, <1>9
  <2>2. PICK a \in Nat : a = totals.allocPoint - weights[e].allocPoint + n
    BY <2>1
  <2>3. totals' = [totals EXCEPT !.allocPoint = a]
    BY <2>2
  <2> QED BY <2>3
<1>11. VotesAgree'
  BY <1>1, <1>3, <1>7, <1>9 DEF VotesAgree, Column
<1> QED BY <1>2, <1>10, <1>11

-----------------------------------------------------------------------------
(* Accrual: the indices grow, and gauges catch up with them.               *)

LEMMA MaxOfTwo ==
  ASSUME NEW a \in Int, NEW b \in Int
  PROVE  /\ Max({a, b}) \in {a, b}
         /\ Max({a, b}) >= a /\ Max({a, b}) >= b
BY DEF Max

LEMMA ProductNat == \A x, y \in Nat : x * y \in Nat
OBVIOUS

AccrualTyped ==
  /\ now \in Nat
  /\ CountsTyped
  /\ index \in [base : Nat, vote : Nat, lastRewardTimestamp : Nat]
  /\ infos \in [Gauges -> GaugeInfo]
  /\ emission \in [womPerSec : Nat, baseAllocation : 0..Parts, paused : BOOLEAN]

\* No gauge is ahead of the indices.
IndexesCover ==
  \A g \in Gauges : /\ infos[g].supplyBaseIndex <= index.base
                    /\ infos[g].supplyVoteIndex <= index.vote

\* An index never shrinks.
LEMMA GrowthNat ==
  ASSUME AccrualTyped, NEW part \in Nat, NEW total \in Nat
  PROVE  IndexGrowth(part, total) \in Nat
<1>1. CASE now <= index.lastRewardTimestamp \/ total = 0 \/ emission.paused
  BY <1>1 DEF IndexGrowth
<1>2. CASE ~ (now <= index.lastRewardTimestamp \/ total = 0 \/ emission.paused)
  <2>1. PICK t \in Nat : t = now - index.lastRewardTimestamp
    BY <1>2 DEF AccrualTyped
  <2>2. PICK m \in Nat : m = Max({total, MinTotal}) /\ m # 0
    <3>1. MinTotal \in Nat /\ MinTotal > 0
      BY VoterAssumption
    <3>2. Max({total, MinTotal}) \in {total, MinTotal} /\ Max({total, MinTotal}) >= MinTotal
      BY <3>1, MaxOfTwo
    <3> QED BY <3>1, <3>2
  <2>3. emission.womPerSec \in Nat /\ ACC_TOKEN_PRECISION \in Nat /\ Parts \in Nat \ {0}
    BY VoterAssumption DEF AccrualTyped
  <2>4. PICK a \in Nat : a = t * emission.womPerSec * part * ACC_TOKEN_PRECISION
    BY <2>3, ProductNat
  <2>5. (a \div m) \div Parts \in Nat
    <3>1. a \div m \in Nat
      BY <2>2
    <3>2. PICK q \in Nat : q = a \div m
      BY <3>1
    <3>3. q \div Parts \in Nat
      BY <2>3
    <3> QED BY <3>2, <3>3
  <2>6. IndexGrowth(part, total) = (a \div m) \div Parts
    BY <1>2, <2>1, <2>2, <2>4 DEF IndexGrowth
  <2> QED BY <2>5, <2>6
<1> QED BY <1>1, <1>2

LEMMA IndicesGrow ==
  ASSUME AccrualTyped
  PROVE  /\ BaseIndexNow \in Nat /\ BaseIndexNow >= index.base
         /\ VoteIndexNow \in Nat /\ VoteIndexNow >= index.vote
         /\ DistributedIndex \in [base : Nat, vote : Nat, lastRewardTimestamp : Nat]
         /\ DistributedIndex.lastRewardTimestamp >= now
<1>1. /\ emission.baseAllocation \in Nat /\ Parts - emission.baseAllocation \in Nat
      /\ totals.allocPoint \in Nat /\ totals.voteWeight \in Nat
      /\ index.base \in Nat /\ index.vote \in Nat
  BY VoterAssumption DEF AccrualTyped, CountsTyped
<1>2. /\ IndexGrowth(emission.baseAllocation, totals.allocPoint) \in Nat
      /\ IndexGrowth(Parts - emission.baseAllocation, totals.voteWeight) \in Nat
  BY <1>1, GrowthNat
<1>3. /\ BaseIndexNow \in Nat /\ BaseIndexNow >= index.base
      /\ VoteIndexNow \in Nat /\ VoteIndexNow >= index.vote
  BY <1>1, <1>2 DEF BaseIndexNow, VoteIndexNow
<1>4. PICK t \in Nat : t = Max({now, index.lastRewardTimestamp}) /\ t >= now
  <2>1. PICK n \in Nat : n = now
    BY DEF AccrualTyped
  <2>2. PICK last \in Nat : last = index.lastRewardTimestamp
    BY DEF AccrualTyped
  <2>3. Max({n, last}) \in {n, last}
    BY MaxOfTwo
  <2>4. Max({n, last}) >= n
    BY MaxOfTwo
  <2> QED BY <2>1, <2>2, <2>3, <2>4
<1> QED BY <1>3, <1>4 DEF DistributedIndex

\* What a gauge has pending is a natural number, and updating the gauge only
\* moves the pending WOM and the indices it has caught up with.
LEMMA UpdatedFields ==
  ASSUME AccrualTyped, IndexesCover, NEW g \in Gauges
  PROVE  /\ PendingWom(g) \in Nat
         /\ UpdatedFor(g) \in GaugeInfo
         /\ UpdatedFor(g).claimable = PendingWom(g)
         /\ UpdatedFor(g).supplyBaseIndex = BaseIndexNow
         /\ UpdatedFor(g).supplyVoteIndex = VoteIndexNow
         /\ UpdatedFor(g).whitelist = infos[g].whitelist
         /\ UpdatedFor(g).bribe = infos[g].bribe
         /\ UpdatedFor(g).gaugeManager = infos[g].gaugeManager
         /\ UpdatedFor(g).nextEpochStartTime = infos[g].nextEpochStartTime
<1>1. /\ infos[g] \in GaugeInfo
      /\ BaseIndexNow \in Nat /\ BaseIndexNow >= index.base /\ index.base \in Nat
      /\ VoteIndexNow \in Nat /\ VoteIndexNow >= index.vote /\ index.vote \in Nat
      /\ weights[g].allocPoint \in Nat /\ weights[g].voteWeight \in Nat
      /\ ACC_TOKEN_PRECISION \in Nat \ {0}
  BY IndicesGrow, VoterAssumption DEF AccrualTyped, CountsTyped
<1>2. PICK b \in Nat : b = BaseIndexNow - infos[g].supplyBaseIndex
  BY <1>1 DEF IndexesCover, GaugeInfo
<1>3. PICK v \in Nat : v = VoteIndexNow - infos[g].supplyVoteIndex
  BY <1>1 DEF IndexesCover, GaugeInfo
<1>4. PICK x \in Nat : x = (weights[g].allocPoint * b) \div ACC_TOKEN_PRECISION
  <2>1. PICK p \in Nat : p = weights[g].allocPoint * b
    BY <1>1, ProductNat
  <2> QED BY <1>1, <2>1
<1>5. PICK y \in Nat : y = (weights[g].voteWeight * v) \div ACC_TOKEN_PRECISION
  <2>1. PICK p \in Nat : p = weights[g].voteWeight * v
    BY <1>1, ProductNat
  <2> QED BY <1>1, <2>1
<1>6. PendingWom(g) = infos[g].claimable + x + (IF infos[g].whitelist THEN y ELSE 0)
  BY <1>2, <1>3, <1>4, <1>5 DEF PendingWom
<1>7. PICK p \in Nat : p = PendingWom(g)
  BY <1>1, <1>6 DEF GaugeInfo
<1>8. UpdatedFor(g) = [infos[g] EXCEPT !.claimable = p, !.supplyBaseIndex = BaseIndexNow,
                                       !.supplyVoteIndex = VoteIndexNow]
  BY <1>7 DEF UpdatedFor
<1> QED BY <1>1, <1>7, <1>8 DEF GaugeInfo

-----------------------------------------------------------------------------
(* What any transaction does to a gauge: nothing to what it earned.        *)

\* What g has earned stays as it is; a gauge whose emission is switched on or
\* off without catching up has no votes.
Carried(g) ==
  /\ weights'[g] = weights[g] /\ paid'[g] = paid[g]
  /\ infos'[g].supplyBaseIndex = infos[g].supplyBaseIndex
  /\ infos'[g].supplyVoteIndex = infos[g].supplyVoteIndex
  /\ infos'[g].claimable = infos[g].claimable
  /\ infos'[g].whitelist = infos[g].whitelist \/ weights[g].voteWeight = 0

\* g catches up with the indices; what was pending is claimable or paid.
CaughtUp(g) ==
  /\ index' = DistributedIndex
  /\ infos'[g].supplyBaseIndex = BaseIndexNow
  /\ infos'[g].supplyVoteIndex = VoteIndexNow
  /\ paid'[g] + infos'[g].claimable = paid[g] + PendingWom(g)

Transaction ==
  /\ now' = now /\ scheduled' = scheduled
  /\ infos' \in [Gauges -> GaugeInfo]
  /\ paid' \in [Gauges -> Nat]
  /\ emission' \in [womPerSec : Nat, baseAllocation : 0..Parts, paused : BOOLEAN]
  /\ \/ index' = DistributedIndex
     \/ index' = index /\ emission' = emission /\ totals' = totals
  /\ \A g \in Gauges : Carried(g) \/ CaughtUp(g)

\* A gauge that was never added has no votes, bribe or payment.
UnlistedIdle ==
  \A g \in Gauges : ~ Exists(g) =>
    weights[g].voteWeight = 0 /\ infos[g].bribe = NoBribe /\ paidEpoch[g] = 0

\* The inductive invariant of the Voter.
VoterInv ==
  /\ TypeOK /\ VotesBacked
  /\ VotesAgree
  /\ IndexesCover
  /\ UnlistedIdle

LEMMA InvTyped == VoterInv => AccrualTyped /\ IndexesCover /\ VeWomInv
BY DEF VoterInv, TypeOK, VeWomTypeOK, AccrualTyped, CountsTyped, VeWomInv

\* Gauges in S catch up, and the others do not change.
LEMMA UpdateCatchesUp ==
  ASSUME VoterInv, NEW S \in SUBSET Gauges,
         index' = DistributedIndex, paid' = paid,
         infos' = UpdatedForAll(S),
         \A g \in Gauges \ S : weights'[g] = weights[g]
  PROVE  /\ infos' \in [Gauges -> GaugeInfo]
         /\ \A g \in Gauges : Carried(g) \/ CaughtUp(g)
<1> USE InvTyped
<1>1. ASSUME NEW g \in Gauges PROVE infos'[g] \in GaugeInfo /\ (Carried(g) \/ CaughtUp(g))
  <2>1. CASE g \in S
    <3>1. infos'[g] = UpdatedFor(g)
      BY <2>1 DEF UpdatedForAll
    <3>2. CaughtUp(g)
      BY <3>1, UpdatedFields DEF CaughtUp
    <3> QED BY <3>1, <3>2, UpdatedFields
  <2>2. CASE g \notin S
    <3>1. infos'[g] = infos[g]
      BY <2>2 DEF UpdatedForAll
    <3> QED BY <2>2, <3>1 DEF Carried, VoterInv, TypeOK
  <2> QED BY <2>1, <2>2
<1>2. infos' = [g \in Gauges |-> infos'[g]]
  BY DEF UpdatedForAll
<1> QED BY <1>1, <1>2

\* A switch of the whitelisting leaves the other fields of a gauge.
LEMMA SwitchedInfo ==
  ASSUME NEW i \in GaugeInfo, NEW on \in BOOLEAN, NEW j, j = [i EXCEPT !.whitelist = on]
  PROVE  /\ j \in GaugeInfo /\ j.claimable = i.claimable
         /\ j.supplyBaseIndex = i.supplyBaseIndex /\ j.supplyVoteIndex = i.supplyVoteIndex
BY DEF GaugeInfo

\* As above, and then the whitelisting of a gauge that has caught up changes.
LEMMA SwitchCatchesUp ==
  ASSUME VoterInv, NEW e \in Gauges, NEW on \in BOOLEAN,
         index' = DistributedIndex, paid' = paid, weights' = weights,
         infos' = [UpdatedForAll({e}) EXCEPT ![e].whitelist = on]
  PROVE  /\ infos' \in [Gauges -> GaugeInfo]
         /\ \A g \in Gauges : Carried(g) \/ CaughtUp(g)
<1> USE InvTyped
<1>1. infos' = [g \in Gauges |-> IF g = e THEN [UpdatedFor(e) EXCEPT !.whitelist = on]
                                 ELSE infos[g]]
  BY DEF UpdatedForAll
<1>2. infos'[e] = [UpdatedFor(e) EXCEPT !.whitelist = on]
  BY <1>1
<1>3. infos'[e] \in GaugeInfo /\ CaughtUp(e)
  <2>1. PICK updated \in GaugeInfo : updated = UpdatedFor(e)
    BY UpdatedFields
  <2>2. infos'[e] = [updated EXCEPT !.whitelist = on]
    BY <1>2, <2>1
  <2>3. /\ infos'[e] \in GaugeInfo
        /\ infos'[e].claimable = updated.claimable
        /\ infos'[e].supplyBaseIndex = updated.supplyBaseIndex
        /\ infos'[e].supplyVoteIndex = updated.supplyVoteIndex
    <3>1. PICK j : j = infos'[e]
      OBVIOUS
    <3>2. j = [updated EXCEPT !.whitelist = on]
      BY <2>2, <3>1
    <3>3. /\ j \in GaugeInfo /\ j.claimable = updated.claimable
          /\ j.supplyBaseIndex = updated.supplyBaseIndex
          /\ j.supplyVoteIndex = updated.supplyVoteIndex
      BY ONLY <2>1, <3>2, on \in BOOLEAN, SwitchedInfo
    <3> QED BY <3>1, <3>3
  <2> QED BY <2>1, <2>3, UpdatedFields DEF CaughtUp
<1>4. ASSUME NEW g \in Gauges, g # e PROVE infos'[g] \in GaugeInfo /\ Carried(g)
  BY <1>1, <1>4 DEF Carried, VoterInv, TypeOK
<1> QED BY <1>1, <1>3, <1>4

\* getNextEpochStartTime is a time.
LEMMA NextEpochNat ==
  ASSUME now \in Nat
  PROVE  NextEpochStartTime \in Nat /\ NextEpochStartTime >= FirstEpoch
<1>1. FirstEpoch \in Nat /\ EpochDuration \in Nat \ {0}
  BY VoterAssumption
<1>2. CASE now < FirstEpoch
  BY <1>1, <1>2 DEF NextEpochStartTime
<1>3. CASE now >= FirstEpoch
  <2>1. PICK q \in Nat : q = (now - FirstEpoch) \div EpochDuration
    BY <1>1, <1>3
  <2>2. PICK p \in Nat : p = (q + 1) * EpochDuration
    BY <1>1, ProductNat
  <2>3. NextEpochStartTime = FirstEpoch + p
    BY <1>3, <1>1, <2>1, <2>2 DEF NextEpochStartTime
  <2> QED BY <1>1, <2>3
<1> QED BY <1>1, <1>2, <1>3

\* distribute: the gauge catches up, and is paid what was pending or not.
LEMMA DistributeCatchesUp ==
  ASSUME VoterInv, NEW m, NEW e \in Gauges, Distribute(m, e)
  PROVE  Transaction
<1> USE InvTyped
<1>1. /\ now' = now /\ scheduled' = scheduled /\ weights' = weights /\ emission' = emission
      /\ index' = DistributedIndex
  BY DEF Distribute, veWomVars
<1>2. CASE KeepGauge(e)
  <2>1. infos' = UpdatedForAll({e}) /\ paid' = paid
    BY <1>2 DEF KeepGauge
  <2>2. /\ infos' \in [Gauges -> GaugeInfo]
        /\ \A g \in Gauges : Carried(g) \/ CaughtUp(g)
    BY <1>1, <2>1, UpdateCatchesUp
  <2> QED BY <1>1, <2>1, <2>2 DEF Transaction, VoterInv, TypeOK
<1>3. CASE PayGauge(e)
  <2>1. PICK amount \in Nat : amount = PendingWom(e)
    BY UpdatedFields
  <2>2. PICK t \in Nat : t = NextEpochStartTime
    BY NextEpochNat DEF AccrualTyped
  <2>3. PICK updated \in GaugeInfo : updated = UpdatedFor(e)
    BY UpdatedFields
  <2>4. infos' = [infos EXCEPT ![e] = [updated EXCEPT !.claimable = 0, !.nextEpochStartTime = t]]
    BY <1>3, <2>2, <2>3 DEF PayGauge
  <2>5. paid' = [paid EXCEPT ![e] = @ + amount]
    BY <1>3, <2>1 DEF PayGauge
  <2>6. infos \in [Gauges -> GaugeInfo] /\ paid \in [Gauges -> Nat]
    BY DEF VoterInv, TypeOK
  <2>7. infos' \in [Gauges -> GaugeInfo] /\ paid' \in [Gauges -> Nat]
    <3>1. [updated EXCEPT !.claimable = 0, !.nextEpochStartTime = t] \in GaugeInfo
      BY DEF GaugeInfo
    <3> QED BY <2>4, <2>5, <2>6, <3>1
  <2>8. /\ infos'[e].supplyBaseIndex = BaseIndexNow
        /\ infos'[e].supplyVoteIndex = VoteIndexNow
        /\ infos'[e].claimable = 0
    BY <2>3, <2>4, <2>6, UpdatedFields DEF GaugeInfo
  <2>9. paid'[e] = paid[e] + amount /\ paid[e] \in Nat
    BY <2>5, <2>6
  <2>10. CaughtUp(e)
    BY <1>1, <2>1, <2>8, <2>9 DEF CaughtUp
  <2>11. ASSUME NEW g \in Gauges, g # e PROVE Carried(g)
    BY <1>1, <2>4, <2>5, <2>11 DEF Carried
  <2> QED BY <1>1, <2>7, <2>10, <2>11 DEF Transaction, VoterInv, TypeOK
<1> QED BY <1>2, <1>3 DEF Distribute

\* The owner's transactions on one gauge.
LEMMA GaugeStepCatchesUp ==
  ASSUME VoterInv, NEW e \in Gauges, GaugeStep(e)
  PROVE  Transaction
<1> USE InvTyped
<1>1. /\ now' = now /\ scheduled' = scheduled /\ paid' = paid /\ emission' = emission
  BY DEF GaugeStep, Add, SetAllocPoint, PauseVoteEmission, ResumeVoteEmission, SetGauge, SetBribe,
         OwnerChange
<1>2. /\ infos \in [Gauges -> GaugeInfo] /\ infos[e] \in GaugeInfo
      /\ paid \in [Gauges -> Nat]
      /\ emission' \in [womPerSec : Nat, baseAllocation : 0..Parts, paused : BOOLEAN]
  BY <1>1 DEF VoterInv, TypeOK
<1>3. ASSUME NEW m \in Managers, NEW b \in BribesFor(e), Add(e, m, b)
      PROVE  Transaction
  <2>1. PICK t \in Nat : t = NextEpochStartTime
    BY NextEpochNat DEF AccrualTyped
  <2>2. PICK info \in GaugeInfo :
          info = [infos[e] EXCEPT !.whitelist = TRUE, !.gaugeManager = m, !.bribe = b,
                                  !.nextEpochStartTime = t]
    BY <1>2 DEF GaugeInfo, BribesFor
  <2>3. infos' = [infos EXCEPT ![e] = info]
    BY <1>3, <2>1, <2>2 DEF Add
  <2>4. index' = index /\ totals' = totals /\ weights' = weights
    BY <1>3 DEF Add
  <2>5. weights[e].voteWeight = 0
    BY <1>3 DEF Add, VoterInv, UnlistedIdle
  <2>6. \A g \in Gauges : Carried(g)
    BY <1>1, <1>2, <2>2, <2>3, <2>4, <2>5 DEF Carried, GaugeInfo
  <2> QED BY <1>1, <1>2, <2>3, <2>4, <2>6 DEF Transaction
<1>4. ASSUME NEW n \in AllocPoints, SetAllocPoint(e, n)
      PROVE  Transaction
  <2>1. /\ infos' \in [Gauges -> GaugeInfo]
        /\ \A g \in Gauges : Carried(g) \/ CaughtUp(g)
    <3>1. {e} \in SUBSET Gauges /\ \A g \in Gauges \ {e} : weights'[g] = weights[g]
      BY <1>4 DEF SetAllocPoint, VoterInv, TypeOK
    <3>2. infos' = UpdatedForAll({e}) /\ index' = DistributedIndex
      BY <1>4 DEF SetAllocPoint
    <3> QED BY <1>1, <3>1, <3>2, UpdateCatchesUp
  <2> QED BY <1>1, <1>2, <1>4, <2>1 DEF Transaction, SetAllocPoint
<1>5. CASE PauseVoteEmission(e) \/ ResumeVoteEmission(e)
  <2>1. PICK on \in BOOLEAN : infos' = [UpdatedForAll({e}) EXCEPT ![e].whitelist = on]
    BY <1>5 DEF PauseVoteEmission, ResumeVoteEmission
  <2>2. index' = DistributedIndex /\ weights' = weights
    BY <1>5 DEF PauseVoteEmission, ResumeVoteEmission
  <2>3. /\ infos' \in [Gauges -> GaugeInfo]
        /\ \A g \in Gauges : Carried(g) \/ CaughtUp(g)
    BY <1>1, <2>1, <2>2, SwitchCatchesUp
  <2> QED BY <1>1, <1>2, <2>2, <2>3 DEF Transaction
<1>6. ASSUME NEW m \in Managers, SetGauge(e, m)
      PROVE  Transaction
  <2>1. infos' = [infos EXCEPT ![e].gaugeManager = m]
    BY <1>6 DEF SetGauge
  <2>2. index' = index /\ totals' = totals /\ weights' = weights
    BY <1>6 DEF SetGauge
  <2>3. \A g \in Gauges : infos'[g] \in GaugeInfo /\ Carried(g)
    BY <1>1, <1>2, <2>1, <2>2 DEF Carried, GaugeInfo
  <2> QED BY <1>1, <1>2, <2>1, <2>2, <2>3 DEF Transaction
<1>7. ASSUME NEW b \in BribesFor(e), SetBribe(e, b)
      PROVE  Transaction
  <2>1. infos' = [infos EXCEPT ![e].bribe = b] /\ b \in Bribes \union {NoBribe}
    BY <1>7 DEF SetBribe, BribesFor
  <2>2. index' = index /\ totals' = totals /\ weights' = weights
    BY <1>7 DEF SetBribe
  <2>3. \A g \in Gauges : infos'[g] \in GaugeInfo /\ Carried(g)
    BY <1>1, <1>2, <2>1, <2>2 DEF Carried, GaugeInfo
  <2> QED BY <1>1, <1>2, <2>1, <2>2, <2>3 DEF Transaction
<1> QED BY <1>3, <1>4, <1>5, <1>6, <1>7 DEF GaugeStep

\* The owner's transactions on all gauges.
OwnerOfAll ==
  \/ \E n \in BaseAllocations : SetBaseAllocation(n)
  \/ \E n \in Rates : SetWomPerSec(n)
  \/ PauseAll \/ ResumeAll
  \/ EmergencyWomWithdraw

LEMMA OwnerCatchesUp ==
  ASSUME VoterInv, OwnerOfAll
  PROVE  Transaction
<1> USE InvTyped
<1>1. now' = now /\ scheduled' = scheduled /\ paid' = paid /\ weights' = weights
  BY DEF OwnerOfAll, SetBaseAllocation, SetWomPerSec, PauseAll, ResumeAll, SetPausedAll,
         EmergencyWomWithdraw, OwnerChange, accrualVars
<1>2. /\ infos \in [Gauges -> GaugeInfo] /\ paid \in [Gauges -> Nat]
      /\ emission \in [womPerSec : Nat, baseAllocation : 0..Parts, paused : BOOLEAN]
  BY DEF VoterInv, TypeOK
<1>3. emission' \in [womPerSec : Nat, baseAllocation : 0..Parts, paused : BOOLEAN]
  <2>1. ASSUME NEW n \in BaseAllocations, SetBaseAllocation(n)
        PROVE  emission' \in [womPerSec : Nat, baseAllocation : 0..Parts, paused : BOOLEAN]
    BY <1>2, <2>1, VoterAssumption DEF SetBaseAllocation
  <2>2. ASSUME NEW n \in Rates, SetWomPerSec(n)
        PROVE  emission' \in [womPerSec : Nat, baseAllocation : 0..Parts, paused : BOOLEAN]
    BY <1>2, <2>2, VoterAssumption DEF SetWomPerSec
  <2>3. CASE PauseAll \/ ResumeAll
    BY <1>2, <2>3 DEF PauseAll, ResumeAll, SetPausedAll
  <2>4. CASE EmergencyWomWithdraw
    BY <1>2, <2>4 DEF EmergencyWomWithdraw, accrualVars
  <2> QED BY <2>1, <2>2, <2>3, <2>4 DEF OwnerOfAll
<1>4. \/ index' = DistributedIndex
      \/ index' = index /\ emission' = emission /\ totals' = totals
  BY DEF OwnerOfAll, SetBaseAllocation, SetWomPerSec, PauseAll, ResumeAll, SetPausedAll,
         EmergencyWomWithdraw, accrualVars
<1>5. CASE PauseAll \/ ResumeAll
  <2>1. PICK S \in SUBSET Gauges : infos' = UpdatedForAll(S)
    BY <1>5 DEF PauseAll, ResumeAll, SetPausedAll
  <2>2. index' = DistributedIndex
    BY <1>5 DEF PauseAll, ResumeAll, SetPausedAll
  <2>3. /\ infos' \in [Gauges -> GaugeInfo]
        /\ \A g \in Gauges : Carried(g) \/ CaughtUp(g)
    BY <1>1, <2>1, <2>2, UpdateCatchesUp
  <2> QED BY <1>1, <1>2, <1>3, <2>2, <2>3 DEF Transaction
<1>6. CASE ~ (PauseAll \/ ResumeAll)
  <2>1. infos' = infos
    BY <1>6 DEF OwnerOfAll, SetBaseAllocation, SetWomPerSec, EmergencyWomWithdraw, accrualVars
  <2>2. \A g \in Gauges : Carried(g)
    BY <1>1, <2>1 DEF Carried
  <2> QED BY <1>1, <1>2, <1>3, <1>4, <2>1, <2>2 DEF Transaction
<1> QED BY <1>5, <1>6

LEMMA BallotCatchesUp ==
  ASSUME VoterInv, NEW u \in Users, NEW ballot \in Ballots, VoteBallot(u, ballot)
  PROVE  Transaction
<1> USE InvTyped
<1>1. /\ now' = now /\ scheduled' = scheduled /\ paid' = paid /\ emission' = emission
      /\ CastBallot(u, ballot)
  BY DEF VoteBallot, historyVars
<1>2. votes \in [Users -> [Gauges -> Nat]] /\ weights \in [Gauges -> [allocPoint : Nat, voteWeight : Nat]]
  BY DEF VoterInv, TypeOK
<1>3. PICK delta \in [Gauges -> Int] :
        /\ BallotStep(u, delta, BallotTotal(ballot))
        /\ \A g \in Gauges : g \notin Touched(ballot) => delta[g] = 0
  BY <1>1, <1>2, CastBallotStep
<1>4. ASSUME NEW g \in Gauges, g \notin Touched(ballot) PROVE weights'[g] = weights[g]
  <2>1. PICK w \in [allocPoint : Nat, voteWeight : Nat] : w = weights[g]
    BY <1>2
  <2>2. weights'[g] = [w EXCEPT !.voteWeight = w.voteWeight + 0]
    BY <1>3, <1>4, <2>1 DEF BallotStep
  <2> QED BY <2>1, <2>2
<1>5. Touched(ballot) \in SUBSET Gauges
  BY BallotShape DEF Touched
<1>6. index' = DistributedIndex /\ infos' = UpdatedForAll(Touched(ballot))
  BY <1>1 DEF CastBallot
<1>7. /\ infos' \in [Gauges -> GaugeInfo]
      /\ \A g \in Gauges : Carried(g) \/ CaughtUp(g)
  <2>1. PICK S \in SUBSET Gauges : S = Touched(ballot)
    BY <1>5
  <2>2. \A g \in Gauges \ S : weights'[g] = weights[g]
    BY <1>4, <2>1
  <2> QED BY <1>1, <1>6, <2>1, <2>2, UpdateCatchesUp
<1> QED BY <1>1, <1>6, <1>7 DEF Transaction, VoterInv, TypeOK

\* A step is a transaction as above, or time passes.
LEMMA StepsCatchUp ==
  ASSUME VoterInv, [Next]_vars
  PROVE  Transaction \/ Elapse
<1> USE InvTyped
<1>1. CASE VeWomStep \/ (\E u \in Users, listed \in SUBSET Gauges : ClaimBribes(u, listed))
             \/ (\E n \in FundAmounts : Fund(n)) \/ UNCHANGED vars
  <2>1. UNCHANGED <<accrualVars, paid, scheduled>>
    BY <1>1 DEF VeWomStep, ClaimBribes, Fund, vars, voterVars, historyVars, accrualVars
  <2>2. now' = now
    <3>1. CASE VeWomStep
      BY <3>1, UserStepLeaves DEF VeWomStep
    <3> QED BY <1>1, <3>1 DEF ClaimBribes, Fund, vars, veWomVars
  <2>3. \A g \in Gauges : Carried(g)
    BY <2>1 DEF Carried, accrualVars
  <2> QED BY <2>1, <2>2, <2>3 DEF Transaction, VoterInv, TypeOK, accrualVars
<1>2. ASSUME NEW u \in Users, NEW ballot \in Ballots, VoteBallot(u, ballot) PROVE Transaction
  BY <1>2, BallotCatchesUp
<1>3. ASSUME NEW m \in Managers, NEW g \in Gauges, Distribute(m, g) PROVE Transaction
  BY <1>3, DistributeCatchesUp
<1>4. ASSUME NEW g \in Gauges, GaugeStep(g) PROVE Transaction
  BY <1>4, GaugeStepCatchesUp
<1>5. CASE OwnerOfAll
  BY <1>5, OwnerCatchesUp
<1> QED BY <1>1, <1>2, <1>3, <1>4, <1>5 DEF Next, OwnerOfAll

-----------------------------------------------------------------------------
(* The inductive invariant.                                                *)

LEMMA VoterInitInv == Init => VoterInv
<1> SUFFICES ASSUME Init PROVE VoterInv
  OBVIOUS
<1>1. VeWomInv
  BY VeWomInitInv DEF Init
<1>2. TypeOK
  <2>1. InitialManager \in Managers /\ InitialRate \in Nat /\ InitialBase \in 0..Parts
        /\ StartTime \in Nat /\ FirstEpoch \in Nat
    BY VeWomAssumption, VoterAssumption
  <2> QED BY <1>1, <2>1 DEF Init, TypeOK, VeWomInv, GaugeInfo
<1>3. VotesAgree
  <2>1. IsFiniteSet(Users) /\ IsFiniteSet(Gauges)
    BY VeWomAssumption, VoterAssumption
  <2>2. \A u \in Users : SumOver(votes[u], Gauges) = 0
    BY <2>1, SumZero DEF Init
  <2>3. ASSUME NEW g \in Gauges PROVE SumOver([u \in Users |-> votes[u][g]], Users) = 0
    <3> DEFINE f == [u \in Users |-> votes[u][g]]
    <3>1. \A u \in Users : f[u] = 0
      BY DEF Init
    <3> HIDE DEF f
    <3>2. SumOver(f, Users) = 0
      BY <2>1, <3>1, SumZero
    <3> QED BY <3>2 DEF f
  <2>4. SumOver(Column(weights, "voteWeight"), Gauges) = 0
    <3>1. \A g \in Gauges : Column(weights, "voteWeight")[g] = 0
      BY DEF Init, Column
    <3> QED BY <2>1, <3>1, SumZero
  <2>5. SumOver(Column(weights, "allocPoint"), Gauges) = 0
    <3>1. \A g \in Gauges : Column(weights, "allocPoint")[g] = 0
      BY DEF Init, Column
    <3> QED BY <2>1, <3>1, SumZero
  <2> QED BY <2>2, <2>3, <2>4, <2>5 DEF Init, VeWomInit, VotesAgree
<1>4. IndexesCover /\ UnlistedIdle
  BY DEF Init, IndexesCover, UnlistedIdle
<1> QED BY <1>1, <1>2, <1>3, <1>4 DEF VoterInv, VeWomInv

\* veWOM's part: users lock and burn, and the Voter uses and returns votes.
LEMMA VeWomPart ==
  ASSUME VoterInv, [Next]_vars
  PROVE  VeWomInv' /\ config' = config
<1>1. VeWomInv
  BY InvTyped
<1>2. CASE VeWomStep
  <2>1. UserStep
    BY <1>2 DEF VeWomStep
  <2>2. VeWomInv'
    BY <1>1, <2>1, MintKeeps, BurnKeeps, UpdateKeeps, MoveStakeKeeps DEF UserStep
  <2>3. config' = config
    BY <2>1, UserStepLeaves
  <2> QED BY <2>2, <2>3
<1>3. ASSUME NEW u \in Users, NEW ballot \in Ballots, VoteBallot(u, ballot)
      PROVE  VeWomInv' /\ config' = config
  <2>1. BallotTotal(ballot) \in Int
    BY BallotSum
  <2>2. Vote(ThisVoter, u, BallotTotal(ballot))
    BY <1>3 DEF VoteBallot, CastBallot, Vote
  <2> QED BY <1>1, <1>3, <2>1, <2>2, VoteKeeps, VoterAssumption DEF VoteBallot, ownerVars
<1>4. CASE UNCHANGED <<lockVars, usedVote, stake, config>> /\ now' \in Nat /\ changes' \in Nat
  BY <1>1, <1>4 DEF VeWomInv, VeWomTypeOK, VotesBacked, lockVars
<1>5. now \in Nat /\ changes \in Nat
  BY <1>1 DEF VeWomInv, VeWomTypeOK
<1>6. ASSUME OwnerChange PROVE UNCHANGED <<lockVars, usedVote, stake, config>> /\ now' \in Nat /\ changes' \in Nat
  BY <1>5, <1>6 DEF OwnerChange
<1>7. ASSUME UNCHANGED veWomVars
      PROVE  UNCHANGED <<lockVars, usedVote, stake, config>> /\ now' \in Nat /\ changes' \in Nat
  BY <1>5, <1>7 DEF veWomVars, lockVars, ownerVars
<1>8. CASE Elapse
  BY <1>4, <1>5, <1>8 DEF Elapse, Tick, ownerVars
<1>9. ASSUME NEW g \in Gauges, GaugeStep(g) PROVE OwnerChange
  BY <1>9 DEF GaugeStep, Add, SetAllocPoint, PauseVoteEmission, ResumeVoteEmission, SetGauge, SetBribe
<1>10. ASSUME OwnerOfAll PROVE OwnerChange
  BY <1>10 DEF OwnerOfAll, SetBaseAllocation, SetWomPerSec, PauseAll, ResumeAll, SetPausedAll,
         EmergencyWomWithdraw
<1>11. CASE (\E u \in Users, listed \in SUBSET Gauges : ClaimBribes(u, listed))
             \/ (\E n \in FundAmounts : Fund(n)) \/ UNCHANGED vars
             \/ (\E m \in Managers, g \in Gauges : Distribute(m, g))
  BY <1>4, <1>7, <1>11 DEF ClaimBribes, Fund, vars, Distribute
<1> QED BY <1>2, <1>3, <1>4, <1>6, <1>8, <1>9, <1>10, <1>11 DEF Next, OwnerOfAll

\* The counts of votes and points agree.
LEMMA CountsPart ==
  ASSUME VoterInv, VeWomInv', [Next]_vars
  PROVE  CountsTyped' /\ VotesAgree'
<1>1. CountsTyped /\ VotesAgree /\ usedVote' \in [Users -> Nat]
  BY InvTyped DEF VoterInv, AccrualTyped, VeWomInv, VeWomTypeOK
<1>2. ASSUME NEW u \in Users, NEW ballot \in Ballots, VoteBallot(u, ballot)
      PROVE  CountsTyped' /\ VotesAgree'
  <2>1. PICK delta \in [Gauges -> Int] : BallotStep(u, delta, BallotTotal(ballot))
    BY <1>1, <1>2, CastBallotStep DEF VoteBallot, CountsTyped
  <2> QED BY <1>1, <2>1, BallotAgrees
<1>3. ASSUME NEW g \in Gauges, NEW n \in AllocPoints, SetAllocPoint(g, n)
      PROVE  CountsTyped' /\ VotesAgree'
  <2>1. n \in Nat
    BY VoterAssumption
  <2>2. /\ totals' = [totals EXCEPT !.allocPoint = @ - weights[g].allocPoint + n]
        /\ weights' = [weights EXCEPT ![g].allocPoint = n]
        /\ votes' = votes /\ usedVote' = usedVote
    BY <1>3 DEF SetAllocPoint, OwnerChange
  <2> QED BY <1>1, <2>1, <2>2, PointsAgree
<1>4. CASE UNCHANGED <<votes, weights, totals, usedVote>>
  BY <1>1, <1>4 DEF CountsTyped, VotesAgree, Column
<1>5. CASE VeWomStep
  BY <1>4, <1>5, UserStepLeaves DEF VeWomStep, voterVars, accrualVars
<1>6. ASSUME NEW g \in Gauges, GaugeStep(g), ~ \E n \in AllocPoints : SetAllocPoint(g, n)
      PROVE  UNCHANGED <<votes, weights, totals, usedVote>>
  BY <1>6 DEF GaugeStep, Add, PauseVoteEmission, ResumeVoteEmission, SetGauge, SetBribe, OwnerChange
<1>7. CASE OwnerOfAll
  BY <1>4, <1>7 DEF OwnerOfAll, SetBaseAllocation, SetWomPerSec, PauseAll, ResumeAll, SetPausedAll,
         EmergencyWomWithdraw, OwnerChange, accrualVars
<1>8. CASE (\E u \in Users, listed \in SUBSET Gauges : ClaimBribes(u, listed))
            \/ (\E n \in FundAmounts : Fund(n)) \/ UNCHANGED vars \/ Elapse
            \/ (\E m \in Managers, g \in Gauges : Distribute(m, g))
  BY <1>4, <1>8 DEF ClaimBribes, Fund, vars, voterVars, Distribute, Elapse, Tick, veWomVars, accrualVars
<1> QED BY <1>2, <1>3, <1>4, <1>5, <1>6, <1>7, <1>8 DEF Next, OwnerOfAll

\* Gauges that were not added stay idle.
LEMMA IdlePart ==
  ASSUME VoterInv, [Next]_vars
  PROVE  UnlistedIdle'
<1>1. UnlistedIdle /\ infos \in [Gauges -> GaugeInfo] /\ NoManager \notin Managers
  BY VoterAssumption DEF VoterInv, TypeOK
<1>2. CASE UNCHANGED <<weights, infos, paidEpoch>>
  BY <1>1, <1>2 DEF UnlistedIdle, Exists
<1>3. ASSUME NEW u \in Users, NEW ballot \in Ballots, VoteBallot(u, ballot)
      PROVE  UnlistedIdle'
  <2>1. votes \in [Users -> [Gauges -> Nat]] /\ CastBallot(u, ballot)
    BY <1>3 DEF VoteBallot, VoterInv, TypeOK
  <2>2. PICK delta \in [Gauges -> Int] :
          /\ BallotStep(u, delta, BallotTotal(ballot))
          /\ \A g \in Gauges : g \notin Touched(ballot) => delta[g] = 0
    BY <2>1, CastBallotStep
  <2>3. \A g \in Touched(ballot) : Exists(g)
    BY <2>1 DEF CastBallot, BallotValid, Touched
  <2>4. infos' = UpdatedForAll(Touched(ballot)) /\ paidEpoch' = paidEpoch
    BY <1>3, <2>1 DEF CastBallot, VoteBallot, historyVars
  <2>5. ASSUME NEW g \in Gauges, ~Exists(g)'
        PROVE  weights'[g].voteWeight = 0 /\ infos'[g].bribe = NoBribe /\ paidEpoch'[g] = 0
    <3>1. ~Exists(g)
      <4>1. CASE g \in Touched(ballot)
        <5>1. infos'[g].gaugeManager = infos[g].gaugeManager
          BY <2>4, <4>1, InvTyped, UpdatedFields DEF UpdatedForAll
        <5> QED BY <2>5, <5>1 DEF Exists
      <4>2. CASE g \notin Touched(ballot)
        BY <2>4, <2>5, <4>2 DEF UpdatedForAll, Exists
      <4> QED BY <4>1, <4>2
    <3>2. g \notin Touched(ballot)
      BY <2>3, <3>1
    <3>3. delta[g] = 0 /\ infos'[g] = infos[g]
      BY <2>2, <2>4, <3>2 DEF UpdatedForAll
    <3>4. PICK w \in [allocPoint : Nat, voteWeight : Nat] : w = weights[g]
      BY DEF VoterInv, TypeOK
    <3>5. weights'[g] = [w EXCEPT !.voteWeight = w.voteWeight + 0]
      BY <2>2, <3>3, <3>4 DEF BallotStep
    <3>6. weights'[g].voteWeight = weights[g].voteWeight
      BY <3>4, <3>5
    <3> QED BY <1>1, <2>4, <3>1, <3>3, <3>6 DEF UnlistedIdle
  <2> QED BY <2>5 DEF UnlistedIdle
<1>4. ASSUME NEW e \in Gauges, Exists(e),
             \A g \in Gauges : g # e => /\ weights'[g].voteWeight = weights[g].voteWeight
                                        /\ infos'[g] = infos[g] /\ paidEpoch'[g] = paidEpoch[g],
             infos'[e].gaugeManager # NoManager
      PROVE  UnlistedIdle'
  BY <1>1, <1>4 DEF UnlistedIdle, Exists
<1>5. ASSUME NEW m \in Managers, NEW e \in Gauges, Distribute(m, e) PROVE UnlistedIdle'
  <2>1. Exists(e) /\ weights' = weights
    BY <1>5 DEF Distribute
  <2>2. PICK updated \in GaugeInfo : updated = UpdatedFor(e) /\ updated.gaugeManager # NoManager
    BY <2>1, InvTyped, UpdatedFields DEF Exists
  <2>3. infos'[e].gaugeManager # NoManager
    <3>1. CASE KeepGauge(e)
      BY <2>2, <3>1 DEF KeepGauge, UpdatedForAll
    <3>2. CASE PayGauge(e)
      <4>1. infos'[e] = [updated EXCEPT !.claimable = 0, !.nextEpochStartTime = NextEpochStartTime]
        BY <1>1, <2>2, <3>2 DEF PayGauge
      <4> QED BY <2>2, <4>1 DEF GaugeInfo
    <3> QED BY <1>5, <3>1, <3>2 DEF Distribute
  <2>4. \A g \in Gauges : g # e => infos'[g] = infos[g] /\ paidEpoch'[g] = paidEpoch[g]
    BY <1>5 DEF Distribute, KeepGauge, PayGauge, UpdatedForAll, VoterInv, TypeOK
  <2> QED BY <1>4, <2>1, <2>3, <2>4
<1>6. ASSUME NEW e \in Gauges, GaugeStep(e) PROVE UnlistedIdle'
  <2>1. paidEpoch' = paidEpoch
    BY <1>6 DEF GaugeStep, Add, SetAllocPoint, PauseVoteEmission, ResumeVoteEmission, SetGauge,
           SetBribe, OwnerChange
  <2>2. \A g \in Gauges : weights'[g].voteWeight = weights[g].voteWeight
    <3>1. ASSUME NEW n \in AllocPoints, SetAllocPoint(e, n)
          PROVE  \A g \in Gauges : weights'[g].voteWeight = weights[g].voteWeight
      <4>1. weights' = [weights EXCEPT ![e].allocPoint = n]
        BY <3>1 DEF SetAllocPoint
      <4>2. weights \in [Gauges -> [allocPoint : Nat, voteWeight : Nat]]
        BY DEF VoterInv, TypeOK
      <4> QED BY <4>1, <4>2
    <3> QED BY <1>6, <3>1 DEF GaugeStep, Add, PauseVoteEmission, ResumeVoteEmission, SetGauge, SetBribe
  <2>3. \A g \in Gauges : g # e => infos'[g] = infos[g]
    BY <1>1, <1>6 DEF GaugeStep, Add, SetAllocPoint, PauseVoteEmission, ResumeVoteEmission, SetGauge,
           SetBribe, OwnerChange, UpdatedForAll
  <2>4. CASE infos'[e].gaugeManager # NoManager
    BY <1>1, <2>1, <2>2, <2>3, <2>4 DEF UnlistedIdle, Exists
  <2>5. CASE infos'[e].gaugeManager = infos[e].gaugeManager /\ infos'[e].bribe = infos[e].bribe
    BY <1>1, <2>1, <2>2, <2>3, <2>5 DEF UnlistedIdle, Exists
  <2>6. ASSUME NEW m \in Managers, NEW b \in BribesFor(e), Add(e, m, b)
        PROVE  infos'[e].gaugeManager # NoManager
    BY <1>1, <2>6 DEF Add, GaugeInfo
  <2>7. ASSUME NEW m \in Managers, SetGauge(e, m) PROVE infos'[e].gaugeManager # NoManager
    BY <1>1, <2>7 DEF SetGauge, GaugeInfo
  <2>8. ASSUME NEW b \in BribesFor(e), SetBribe(e, b) PROVE infos'[e].gaugeManager # NoManager
    BY <1>1, <2>8 DEF SetBribe, GaugeInfo, Exists
  <2>9. PICK updated \in GaugeInfo :
          /\ updated = UpdatedFor(e)
          /\ updated.gaugeManager = infos[e].gaugeManager /\ updated.bribe = infos[e].bribe
    BY InvTyped, UpdatedFields
  <2>10. ASSUME NEW n \in AllocPoints, SetAllocPoint(e, n)
         PROVE  infos'[e].gaugeManager = infos[e].gaugeManager /\ infos'[e].bribe = infos[e].bribe
    BY <2>9, <2>10 DEF SetAllocPoint, UpdatedForAll
  <2>11. ASSUME PauseVoteEmission(e) \/ ResumeVoteEmission(e)
         PROVE  infos'[e].gaugeManager = infos[e].gaugeManager /\ infos'[e].bribe = infos[e].bribe
    <3>1. PICK on \in BOOLEAN : infos'[e] = [updated EXCEPT !.whitelist = on]
      BY <2>9, <2>11 DEF PauseVoteEmission, ResumeVoteEmission, UpdatedForAll
    <3> QED BY <2>9, <3>1 DEF GaugeInfo
  <2> QED BY <1>6, <2>4, <2>5, <2>6, <2>7, <2>8, <2>10, <2>11 DEF GaugeStep
<1>7. CASE OwnerOfAll
  <2>1. weights' = weights /\ paidEpoch' = paidEpoch
    BY <1>7 DEF OwnerOfAll, SetBaseAllocation, SetWomPerSec, PauseAll, ResumeAll, SetPausedAll,
         EmergencyWomWithdraw, OwnerChange, accrualVars
  <2>2. CASE infos' = infos
    BY <1>2, <2>1, <2>2
  <2>3. ASSUME NEW S \in SUBSET Gauges, infos' = UpdatedForAll(S) PROVE UnlistedIdle'
    <3>1. \A g \in Gauges : infos'[g].gaugeManager = infos[g].gaugeManager
                            /\ infos'[g].bribe = infos[g].bribe
      BY <2>3, InvTyped, UpdatedFields DEF UpdatedForAll
    <3> QED BY <1>1, <2>1, <3>1 DEF UnlistedIdle, Exists
  <2>4. ASSUME PauseAll \/ ResumeAll PROVE \E S \in SUBSET Gauges : infos' = UpdatedForAll(S)
    BY <2>4 DEF PauseAll, ResumeAll, SetPausedAll
  <2> QED BY <1>7, <2>2, <2>3, <2>4 DEF OwnerOfAll, SetBaseAllocation, SetWomPerSec,
             EmergencyWomWithdraw, accrualVars
<1>8. CASE VeWomStep \/ (\E u \in Users, listed \in SUBSET Gauges : ClaimBribes(u, listed))
            \/ (\E n \in FundAmounts : Fund(n)) \/ UNCHANGED vars \/ Elapse
  BY <1>2, <1>8 DEF VeWomStep, ClaimBribes, Fund, vars, voterVars, Elapse, historyVars, accrualVars
<1> QED BY <1>3, <1>5, <1>6, <1>7, <1>8 DEF Next, OwnerOfAll

\* Epochs are numbered by natural numbers.
LEMMA EpochNat ==
  ASSUME NEW t \in Nat
  PROVE  Epoch(t) \in Nat
<1>1. FirstEpoch \in Nat /\ EpochDuration \in Nat \ {0}
  BY VoterAssumption
<1>2. CASE t < FirstEpoch
  BY <1>2 DEF Epoch
<1>3. CASE t >= FirstEpoch
  <2>1. PICK q \in Nat : q = (t - FirstEpoch) \div EpochDuration
    BY <1>1, <1>3
  <2> QED BY <1>1, <1>3, <2>1 DEF Epoch
<1> QED BY <1>1, <1>2, <1>3

\* What the Voter keeps besides: its funds, the bribes' shares, the histories.
RestTyped ==
  /\ funds \in Nat
  /\ share \in [Bribes -> [Users -> Nat]]
  /\ paidEpoch \in [Gauges -> Nat]
  /\ scheduled \in Nat
  /\ interrupted \in SUBSET Bribes

LEMMA OnVoteTyped ==
  ASSUME share \in [Bribes -> [Users -> Nat]], NEW u \in Users, NEW listed,
         NEW new \in [Gauges -> Nat], OnVote(u, listed, new)
  PROVE  share' \in [Bribes -> [Users -> Nat]]
<1>1. \A b \in Bribes : LpTokenOf[b] \in Gauges
  BY VoterAssumption
<1>2. \A b \in Bribes : [share[b] EXCEPT ![u] = new[LpTokenOf[b]]] \in [Users -> Nat]
  BY <1>1
<1> QED BY <1>2 DEF OnVote

LEMMA RestPart ==
  ASSUME VoterInv, [Next]_vars
  PROVE  RestTyped'
<1>1. /\ RestTyped /\ infos \in [Gauges -> GaugeInfo] /\ now \in Nat
      /\ votes \in [Users -> [Gauges -> Nat]]
  BY DEF VoterInv, TypeOK, RestTyped, VeWomTypeOK
<1>2. CASE UNCHANGED <<funds, share, paidEpoch, scheduled, interrupted>>
  BY <1>1, <1>2 DEF RestTyped
<1>3. ASSUME NEW u \in Users, NEW ballot \in Ballots, VoteBallot(u, ballot)
      PROVE  RestTyped'
  <2>1. PICK delta \in [Gauges -> Int] : BallotStep(u, delta, BallotTotal(ballot))
    BY <1>1, <1>3, CastBallotStep DEF VoteBallot
  <2>2. PICK new \in [Gauges -> Nat] : new = [g \in Gauges |-> votes[u][g] + delta[g]]
    BY <2>1 DEF BallotStep
  <2>3. votes' = [votes EXCEPT ![u] = new]
    BY <2>1, <2>2 DEF BallotStep
  <2>4. votes'[u] = new
    BY <1>1, <2>3
  <2>5. PICK f : votes' = [votes EXCEPT ![u] = f] /\ OnVote(u, Listed(ballot), f)
    BY <1>3 DEF VoteBallot, CastBallot
  <2>6. f = new
    BY <1>1, <2>4, <2>5
  <2>7. share' \in [Bribes -> [Users -> Nat]]
    BY <1>1, <2>5, <2>6, OnVoteTyped DEF RestTyped
  <2> QED BY <1>1, <1>3, <2>7 DEF VoteBallot, RestTyped, historyVars
<1>4. ASSUME NEW u \in Users, NEW listed \in SUBSET Gauges, ClaimBribes(u, listed)
      PROVE  RestTyped'
  <2>1. share' \in [Bribes -> [Users -> Nat]]
    BY <1>1, <1>4, OnVoteTyped DEF ClaimBribes, RestTyped
  <2> QED BY <1>1, <1>4, <2>1 DEF ClaimBribes, RestTyped, historyVars
<1>5. ASSUME NEW m \in Managers, NEW e \in Gauges, Distribute(m, e) PROVE RestTyped'
  <2>1. UNCHANGED <<share, scheduled, interrupted>>
    BY <1>5 DEF Distribute
  <2>2. PICK amount \in Nat : amount = PendingWom(e)
    BY InvTyped, UpdatedFields
  <2>3. PICK epoch \in Nat : epoch = Epoch(now)
    BY <1>1, EpochNat
  <2>4. CASE PayGauge(e)
    <3>1. funds' = funds - amount /\ funds >= amount /\ paidEpoch' = [paidEpoch EXCEPT ![e] = epoch]
      BY <2>2, <2>3, <2>4 DEF PayGauge
    <3> QED BY <1>1, <2>1, <3>1 DEF RestTyped
  <2>5. CASE KeepGauge(e)
    BY <1>2, <2>1, <2>5 DEF KeepGauge
  <2> QED BY <1>5, <2>4, <2>5 DEF Distribute
<1>6. ASSUME NEW e \in Gauges, GaugeStep(e) PROVE RestTyped'
  <2>1. UNCHANGED <<funds, share, paidEpoch, scheduled>>
    BY <1>6 DEF GaugeStep, Add, SetAllocPoint, PauseVoteEmission, ResumeVoteEmission, SetGauge,
           SetBribe, OwnerChange
  <2>2. interrupted' \in SUBSET Bribes
    <3>1. ASSUME NEW b \in BribesFor(e), SetBribe(e, b) PROVE interrupted' \in SUBSET Bribes
      <4>1. infos[e].bribe \in Bribes \union {NoBribe}
        BY <1>1 DEF GaugeInfo
      <4> QED BY <1>1, <3>1, <4>1 DEF SetBribe, RestTyped
    <3> QED BY <1>1, <1>6, <3>1 DEF GaugeStep, Add, SetAllocPoint, PauseVoteEmission,
               ResumeVoteEmission, SetGauge, RestTyped
  <2> QED BY <1>1, <2>1, <2>2 DEF RestTyped
<1>7. CASE OwnerOfAll
  <2>1. UNCHANGED <<share, paidEpoch, scheduled, interrupted>> /\ (funds' = funds \/ funds' = 0)
    BY <1>7 DEF OwnerOfAll, SetBaseAllocation, SetWomPerSec, PauseAll, ResumeAll, SetPausedAll,
         EmergencyWomWithdraw, OwnerChange
  <2> QED BY <1>1, <2>1 DEF RestTyped
<1>8. ASSUME NEW n \in FundAmounts, Fund(n) PROVE RestTyped'
  BY <1>1, <1>8, VoterAssumption DEF Fund, RestTyped, historyVars
<1>9. CASE Elapse
  <2>1. emission.womPerSec \in Nat
    BY DEF VoterInv, TypeOK
  <2> QED BY <1>1, <1>9, <2>1 DEF Elapse, RestTyped
<1>10. CASE VeWomStep \/ UNCHANGED vars
  BY <1>2, <1>10 DEF VeWomStep, vars, voterVars, historyVars
<1> QED BY <1>3, <1>4, <1>5, <1>6, <1>7, <1>8, <1>9, <1>10 DEF Next, OwnerOfAll

\* No step takes the indices back behind a gauge.
LEMMA IndexesPart ==
  ASSUME VoterInv, Transaction \/ Elapse
  PROVE  IndexesCover'
<1>1. AccrualTyped /\ IndexesCover
  BY InvTyped
<1>2. CASE Elapse
  BY <1>1, <1>2 DEF Elapse, accrualVars, IndexesCover
<1>3. CASE Transaction
  <2>1. /\ index'.base \in Nat /\ index'.base >= index.base
        /\ index'.vote \in Nat /\ index'.vote >= index.vote
    BY <1>1, <1>3, IndicesGrow DEF Transaction, DistributedIndex, AccrualTyped
  <2>2. ASSUME NEW g \in Gauges
        PROVE  /\ infos'[g].supplyBaseIndex <= index'.base
               /\ infos'[g].supplyVoteIndex <= index'.vote
    <3>1. CASE Carried(g)
      BY <1>1, <2>1, <3>1 DEF Carried, IndexesCover, AccrualTyped, GaugeInfo
    <3>2. CASE CaughtUp(g)
      BY <1>1, <3>2, IndicesGrow DEF CaughtUp, DistributedIndex
    <3> QED BY <1>3, <3>1, <3>2 DEF Transaction
  <2> QED BY <2>2 DEF IndexesCover
<1> QED BY <1>2, <1>3

LEMMA VoterNextInv == VoterInv /\ [Next]_vars => VoterInv'
<1> SUFFICES ASSUME VoterInv, [Next]_vars PROVE VoterInv'
  OBVIOUS
<1>1. VeWomInv'
  BY VeWomPart
<1>2. CountsTyped' /\ VotesAgree'
  BY <1>1, CountsPart
<1>3. Transaction \/ Elapse
  BY StepsCatchUp
<1>4. IndexesCover'
  BY <1>3, IndexesPart
<1>5. UnlistedIdle' /\ RestTyped'
  BY IdlePart, RestPart
<1>6. /\ infos' \in [Gauges -> GaugeInfo]
      /\ paid' \in [Gauges -> Nat]
      /\ emission' \in [womPerSec : Nat, baseAllocation : 0..Parts, paused : BOOLEAN]
      /\ index' \in [base : Nat, vote : Nat, lastRewardTimestamp : Nat]
  <2>1. CASE Transaction
    BY <2>1, InvTyped, IndicesGrow DEF Transaction, VoterInv, TypeOK
  <2>2. CASE Elapse
    BY <2>2 DEF Elapse, accrualVars, VoterInv, TypeOK
  <2> QED BY <1>3, <2>1, <2>2
<1>7. TypeOK' /\ VotesBacked'
  BY <1>1, <1>2, <1>5, <1>6 DEF TypeOK, VeWomInv, CountsTyped, RestTyped
<1> QED BY <1>2, <1>4, <1>5, <1>7 DEF VoterInv

\* The invariant of the Voter holds in every reachable state.
THEOREM VoterInvariance == Spec => []VoterInv
<1> QED BY VoterInitInv, VoterNextInv, PTL DEF Spec

\* Every reachable state of veWOM and the Voter together is well typed: no
\* vote, weight, pending amount or difference of indices is ever negative.
THEOREM TypeCorrect == Spec => []TypeOK
<1>1. VoterInv => TypeOK
  BY DEF VoterInv
<1> QED BY <1>1, VoterInvariance, PTL

\* The user's votes, the weights of the gauges, the totals and the votes that
\* veWOM counts as used agree, whatever ballots name: the same gauge twice,
\* votes taken back from one and given to another.
THEOREM VotesAlwaysAgree == Spec => []VotesAgree
<1>1. VoterInv => VotesAgree
  BY DEF VoterInv
<1> QED BY <1>1, VoterInvariance, PTL

-----------------------------------------------------------------------------
(* Gauges are paid once per epoch.                                         *)

LEMMA DivMonotone ==
  ASSUME NEW a \in Nat, NEW c \in Nat, a <= c, NEW b \in Nat \ {0}
  PROVE  a \div b <= c \div b
<1> DEFINE q == a \div b
           r == c \div b
<1>1. q \in Nat /\ b * q <= a
  OBVIOUS
<1>2. r \in Nat /\ c < b * r + b
  OBVIOUS
<1> HIDE DEF q, r
<1>3. b * q < b * (r + 1)
  BY <1>1, <1>2
<1>4. CASE q >= r + 1
  <2>1. b * q >= b * (r + 1)
    BY <1>4, <1>1, <1>2
  <2> QED BY <2>1, <1>3, <1>1, <1>2
<1>5. q <= r
  BY <1>1, <1>2, <1>4
<1> QED BY <1>5 DEF q, r

\* At the start of the next epoch, or later, the epoch is a later one.
LEMMA NextEpochIsLater ==
  ASSUME now \in Nat, NEW t \in Nat, t >= NextEpochStartTime
  PROVE  Epoch(t) > Epoch(now) /\ Epoch(t) > 0
<1>1. FirstEpoch \in Nat /\ EpochDuration \in Nat \ {0}
  BY VoterAssumption
<1>2. t >= FirstEpoch
  BY NextEpochNat, <1>1
<1>3. PICK p \in Nat : p = (t - FirstEpoch) \div EpochDuration
  BY <1>1, <1>2
<1>4. Epoch(t) = 1 + p
  BY <1>1, <1>2, <1>3 DEF Epoch
<1>5. CASE now < FirstEpoch
  BY <1>4, <1>5 DEF Epoch
<1>6. CASE now >= FirstEpoch
  <2>1. PICK q \in Nat : q = (now - FirstEpoch) \div EpochDuration
    BY <1>1, <1>6
  <2>2. PICK d \in Nat : d = (q + 1) * EpochDuration
    BY <1>1, ProductNat
  <2>3. NextEpochStartTime = FirstEpoch + d
    BY <1>1, <1>6, <2>1, <2>2 DEF NextEpochStartTime
  <2>4. d <= t - FirstEpoch /\ t - FirstEpoch \in Nat
    BY <1>1, <1>2, <2>3
  <2>5. d \div EpochDuration = q + 1
    BY <1>1, <2>2
  <2>6. q + 1 <= p
    BY <1>1, <1>3, <2>4, <2>5, DivMonotone
  <2>7. Epoch(now) = 1 + q
    BY <1>1, <1>6, <2>1 DEF Epoch
  <2> QED BY <1>4, <2>6, <2>7
<1> QED BY <1>1, <1>5, <1>6

\* When a gauge may be paid again, a new epoch has begun.
PaymentsApart ==
  \A g \in Gauges : Exists(g) =>
    \A t \in Nat : t >= infos[g].nextEpochStartTime => Epoch(t) > paidEpoch[g]

LEMMA PaymentsInit == Init => PaymentsApart
<1> SUFFICES ASSUME Init, NEW g \in Gauges, Exists(g),
                    NEW t \in Nat, t >= infos[g].nextEpochStartTime
             PROVE  Epoch(t) > paidEpoch[g]
  BY DEF PaymentsApart
<1>1. FirstEpoch \in Nat /\ EpochDuration \in Nat \ {0}
  BY VoterAssumption
<1>2. t >= FirstEpoch /\ paidEpoch[g] = 0
  BY DEF Init, Exists
<1>3. PICK p \in Nat : p = (t - FirstEpoch) \div EpochDuration
  BY <1>1, <1>2
<1> QED BY <1>1, <1>2, <1>3 DEF Epoch

\* What a gauge may be paid for changes only when it is added or paid.
EpochKept(g) ==
  /\ Exists(g)' => Exists(g)
  /\ infos'[g].nextEpochStartTime = infos[g].nextEpochStartTime
  /\ paidEpoch'[g] = paidEpoch[g]

LEMMA EpochsKept ==
  ASSUME VoterInv, [Next]_vars, NEW g \in Gauges,
         ~ \E m \in Managers : Distribute(m, g) /\ PayGauge(g),
         ~ \E m \in Managers, b \in BribesFor(g) : Add(g, m, b)
  PROVE  EpochKept(g) /\ paid'[g] = paid[g]
<1>1. infos \in [Gauges -> GaugeInfo] /\ AccrualTyped /\ IndexesCover
      /\ paid \in [Gauges -> Nat] /\ paidEpoch \in [Gauges -> Nat]
  BY InvTyped DEF VoterInv, TypeOK
<1>2. ASSUME NEW S \in SUBSET Gauges, infos' = UpdatedForAll(S), paid' = paid, paidEpoch' = paidEpoch
      PROVE  EpochKept(g) /\ paid'[g] = paid[g]
  <2>1. /\ infos'[g].gaugeManager = infos[g].gaugeManager
        /\ infos'[g].nextEpochStartTime = infos[g].nextEpochStartTime
    BY <1>1, <1>2, UpdatedFields DEF UpdatedForAll
  <2> QED BY <1>2, <2>1 DEF EpochKept, Exists
<1>3. CASE UNCHANGED <<infos, paid, paidEpoch>>
  BY <1>3 DEF EpochKept, Exists
<1>4. ASSUME NEW u \in Users, NEW ballot \in Ballots, VoteBallot(u, ballot)
      PROVE  EpochKept(g) /\ paid'[g] = paid[g]
  <2>1. Touched(ballot) \in SUBSET Gauges
    BY BallotShape DEF Touched
  <2> QED BY <1>2, <1>4, <2>1 DEF VoteBallot, CastBallot, historyVars
<1>5. ASSUME NEW m \in Managers, NEW e \in Gauges, Distribute(m, e)
      PROVE  EpochKept(g) /\ paid'[g] = paid[g]
  <2>1. CASE KeepGauge(e)
    BY <1>2, <2>1 DEF KeepGauge
  <2>2. CASE PayGauge(e)
    <3>1. e # g
      BY <1>5, <2>2
    <3>2. infos'[g] = infos[g] /\ paidEpoch'[g] = paidEpoch[g] /\ paid'[g] = paid[g]
      BY <1>1, <2>2, <3>1 DEF PayGauge
    <3> QED BY <3>2 DEF EpochKept, Exists
  <2> QED BY <1>5, <2>1, <2>2 DEF Distribute
<1>6. ASSUME NEW e \in Gauges, GaugeStep(e)
      PROVE  EpochKept(g) /\ paid'[g] = paid[g]
  <2>1. paid' = paid /\ paidEpoch' = paidEpoch
    BY <1>6 DEF GaugeStep, Add, SetAllocPoint, PauseVoteEmission, ResumeVoteEmission, SetGauge,
           SetBribe, OwnerChange
  <2>2. CASE e # g
    <3>1. infos'[g] = infos[g]
      BY <1>1, <1>6, <2>2 DEF GaugeStep, Add, SetAllocPoint, PauseVoteEmission,
             ResumeVoteEmission, SetGauge, SetBribe, UpdatedForAll
    <3> QED BY <2>1, <3>1 DEF EpochKept, Exists
  <2>3. CASE e = g
    <3>1. ASSUME NEW n \in AllocPoints, SetAllocPoint(g, n)
          PROVE  EpochKept(g) /\ paid'[g] = paid[g]
      BY <1>2, <2>1, <3>1 DEF SetAllocPoint
    <3>2. CASE PauseVoteEmission(g) \/ ResumeVoteEmission(g)
      <4>1. PICK updated \in GaugeInfo :
              /\ updated = UpdatedFor(g)
              /\ updated.gaugeManager = infos[g].gaugeManager
              /\ updated.nextEpochStartTime = infos[g].nextEpochStartTime
        BY <1>1, UpdatedFields
      <4>2. PICK on \in BOOLEAN : infos'[g] = [updated EXCEPT !.whitelist = on]
        BY <3>2, <4>1 DEF PauseVoteEmission, ResumeVoteEmission, UpdatedForAll
      <4> QED BY <2>1, <4>1, <4>2 DEF EpochKept, Exists, GaugeInfo
    <3>3. ASSUME NEW m \in Managers, SetGauge(g, m)
          PROVE  EpochKept(g) /\ paid'[g] = paid[g]
      <4>1. infos' = [infos EXCEPT ![g].gaugeManager = m] /\ Exists(g)
        BY <3>3 DEF SetGauge
      <4> QED BY <1>1, <2>1, <4>1 DEF EpochKept, GaugeInfo
    <3>4. ASSUME NEW b \in BribesFor(g), SetBribe(g, b)
          PROVE  EpochKept(g) /\ paid'[g] = paid[g]
      <4>1. infos' = [infos EXCEPT ![g].bribe = b] /\ Exists(g)
        BY <3>4 DEF SetBribe
      <4> QED BY <1>1, <2>1, <4>1 DEF EpochKept, GaugeInfo
    <3> QED BY <1>6, <2>3, <3>1, <3>2, <3>3, <3>4 DEF GaugeStep
  <2> QED BY <2>2, <2>3
<1>7. CASE OwnerOfAll
  <2>1. paid' = paid /\ paidEpoch' = paidEpoch
    BY <1>7 DEF OwnerOfAll, SetBaseAllocation, SetWomPerSec, PauseAll, ResumeAll, SetPausedAll,
         EmergencyWomWithdraw, OwnerChange
  <2>2. infos' = infos \/ \E S \in SUBSET Gauges : infos' = UpdatedForAll(S)
    BY <1>7 DEF OwnerOfAll, SetBaseAllocation, SetWomPerSec, PauseAll, ResumeAll, SetPausedAll,
         EmergencyWomWithdraw, accrualVars
  <2> QED BY <1>2, <1>3, <2>1, <2>2
<1>8. CASE VeWomStep \/ (\E u \in Users, listed \in SUBSET Gauges : ClaimBribes(u, listed))
            \/ (\E n \in FundAmounts : Fund(n)) \/ UNCHANGED vars \/ Elapse
  BY <1>3, <1>8 DEF VeWomStep, ClaimBribes, Fund, vars, voterVars, Elapse, historyVars, accrualVars
<1> QED BY <1>4, <1>5, <1>6, <1>7, <1>8 DEF Next, OwnerOfAll

LEMMA PaymentsStep ==
  ASSUME VoterInv, PaymentsApart, [Next]_vars
  PROVE  PaymentsApart'
<1>1. /\ infos \in [Gauges -> GaugeInfo] /\ now \in Nat
      /\ paidEpoch \in [Gauges -> Nat] /\ AccrualTyped /\ IndexesCover
  BY InvTyped DEF VoterInv, TypeOK, VeWomTypeOK
<1>2. SUFFICES ASSUME NEW g \in Gauges, Exists(g)',
                      NEW t \in Nat, t >= infos'[g].nextEpochStartTime
               PROVE  Epoch(t) > paidEpoch'[g]
  BY DEF PaymentsApart, Epoch
<1>3. PICK next \in Nat : next = NextEpochStartTime
  BY <1>1, NextEpochNat
<1>4. ASSUME NEW m \in Managers, Distribute(m, g), PayGauge(g)
      PROVE  Epoch(t) > paidEpoch'[g]
  <2>1. PICK updated \in GaugeInfo : updated = UpdatedFor(g)
    BY <1>1, UpdatedFields
  <2>2. infos'[g] = [updated EXCEPT !.claimable = 0, !.nextEpochStartTime = next]
    BY <1>1, <1>3, <1>4, <2>1 DEF PayGauge
  <2>3. infos'[g].nextEpochStartTime = next
    BY <2>2 DEF GaugeInfo
  <2>4. paidEpoch'[g] = Epoch(now)
    BY <1>1, <1>4 DEF PayGauge
  <2> QED BY <1>1, <1>2, <1>3, <2>3, <2>4, NextEpochIsLater
<1>5. ASSUME NEW m \in Managers, NEW b \in BribesFor(g), Add(g, m, b)
      PROVE  Epoch(t) > paidEpoch'[g]
  <2>1. infos'[g].nextEpochStartTime = next
    BY <1>1, <1>3, <1>5 DEF Add, GaugeInfo
  <2>2. paidEpoch'[g] = 0
    BY <1>5 DEF Add, OwnerChange, VoterInv, UnlistedIdle
  <2> QED BY <1>1, <1>2, <1>3, <2>1, <2>2, NextEpochIsLater
<1>6. CASE EpochKept(g)
  BY <1>2, <1>6 DEF EpochKept, PaymentsApart
<1> QED BY <1>4, <1>5, <1>6, EpochsKept

LEMMA PaymentStep ==
  ASSUME VoterInv, PaymentsApart, [Next]_vars, NEW g \in Gauges, paid'[g] # paid[g]
  PROVE  Epoch(now) > paidEpoch[g]
<1>1. paid \in [Gauges -> Nat] /\ now \in Nat
  BY DEF VoterInv, TypeOK, VeWomTypeOK
<1>2. ASSUME NEW m \in Managers, Distribute(m, g)
      PROVE  Epoch(now) > paidEpoch[g]
  <2>1. Exists(g) /\ Due(g)
    BY <1>2 DEF Distribute, KeepGauge
  <2> QED BY <1>1, <2>1 DEF Due, PaymentsApart
<1>3. ASSUME NEW m \in Managers, NEW b \in BribesFor(g), Add(g, m, b) PROVE FALSE
  BY <1>3 DEF Add, OwnerChange
<1> QED BY <1>2, <1>3, EpochsKept

\* A gauge is paid at most once in each epoch, whoever its manager is, and
\* also when the Voter was short of WOM at the start of the epoch.
THEOREM GaugesPaidOncePerEpoch == Spec => PaidOncePerEpoch
<1> DEFINE Inv == VoterInv /\ PaymentsApart
           Step == \A g \in Gauges : paid'[g] # paid[g] => Epoch(now) > paidEpoch[g]
<1>1. Inv /\ [Next]_vars => Inv'
  BY VoterNextInv, PaymentsStep
<1>2. Inv /\ [Next]_vars => [Step]_vars
  BY PaymentStep
<1>3. Init => Inv
  BY VoterInitInv, PaymentsInit
<1> QED BY <1>1, <1>2, <1>3, PTL DEF Spec, PaidOncePerEpoch

-----------------------------------------------------------------------------
(* The votes that bribes count.                                            *)

\* Bribes are attached and detached by add and setBribe only.
LEMMA BribesKept ==
  ASSUME VoterInv, [Next]_vars,
         ~ \E g \in Gauges : \E m \in Managers, b \in BribesFor(g) : Add(g, m, b),
         ~ \E g \in Gauges : \E b \in BribesFor(g) : SetBribe(g, b)
  PROVE  interrupted' = interrupted /\ \A g \in Gauges : infos'[g].bribe = infos[g].bribe
<1>1. infos \in [Gauges -> GaugeInfo] /\ AccrualTyped /\ IndexesCover
  BY InvTyped DEF VoterInv, TypeOK
<1>2. ASSUME NEW S \in SUBSET Gauges, infos' = UpdatedForAll(S), NEW g \in Gauges
      PROVE  infos'[g].bribe = infos[g].bribe
  BY <1>1, <1>2, UpdatedFields DEF UpdatedForAll
<1>3. CASE UNCHANGED <<infos, interrupted>>
  BY <1>3
<1>4. ASSUME NEW u \in Users, NEW ballot \in Ballots, VoteBallot(u, ballot)
      PROVE  interrupted' = interrupted /\ \A g \in Gauges : infos'[g].bribe = infos[g].bribe
  <2>1. Touched(ballot) \in SUBSET Gauges
    BY BallotShape DEF Touched
  <2> QED BY <1>2, <1>4, <2>1 DEF VoteBallot, CastBallot, historyVars
<1>5. ASSUME NEW m \in Managers, NEW e \in Gauges, Distribute(m, e)
      PROVE  interrupted' = interrupted /\ \A g \in Gauges : infos'[g].bribe = infos[g].bribe
  <2>1. CASE KeepGauge(e)
    BY <1>2, <1>5, <2>1 DEF KeepGauge, Distribute
  <2>2. CASE PayGauge(e)
    <3>1. PICK updated \in GaugeInfo : updated = UpdatedFor(e) /\ updated.bribe = infos[e].bribe
      BY <1>1, UpdatedFields
    <3>2. infos' = [infos EXCEPT ![e] = [updated EXCEPT
                      !.claimable = 0, !.nextEpochStartTime = NextEpochStartTime]]
      BY <2>2, <3>1 DEF PayGauge
    <3>3. [updated EXCEPT !.claimable = 0, !.nextEpochStartTime = NextEpochStartTime].bribe
            = updated.bribe
      BY DEF GaugeInfo
    <3> QED BY <1>1, <1>5, <3>1, <3>2, <3>3 DEF Distribute
  <2> QED BY <1>5, <2>1, <2>2 DEF Distribute
<1>6. ASSUME NEW e \in Gauges, GaugeStep(e)
      PROVE  interrupted' = interrupted /\ \A g \in Gauges : infos'[g].bribe = infos[g].bribe
  <2>1. interrupted' = interrupted
    BY <1>6 DEF GaugeStep, SetAllocPoint, PauseVoteEmission, ResumeVoteEmission, SetGauge
  <2>2. ASSUME NEW n \in AllocPoints, SetAllocPoint(e, n)
        PROVE  \A g \in Gauges : infos'[g].bribe = infos[g].bribe
    BY <1>2, <2>2 DEF SetAllocPoint
  <2>3. ASSUME PauseVoteEmission(e) \/ ResumeVoteEmission(e)
        PROVE  \A g \in Gauges : infos'[g].bribe = infos[g].bribe
    <3>1. PICK updated \in GaugeInfo : updated = UpdatedFor(e) /\ updated.bribe = infos[e].bribe
      BY <1>1, UpdatedFields
    <3>2. PICK on \in BOOLEAN :
            infos' = [g \in Gauges |-> IF g = e THEN [updated EXCEPT !.whitelist = on] ELSE infos[g]]
      BY <2>3, <3>1 DEF PauseVoteEmission, ResumeVoteEmission, UpdatedForAll
    <3>3. [updated EXCEPT !.whitelist = on].bribe = updated.bribe
      BY DEF GaugeInfo
    <3> QED BY <3>1, <3>2, <3>3
  <2>4. ASSUME NEW m \in Managers, SetGauge(e, m)
        PROVE  \A g \in Gauges : infos'[g].bribe = infos[g].bribe
    <3>1. infos' = [infos EXCEPT ![e].gaugeManager = m]
      BY <2>4 DEF SetGauge
    <3> QED BY <1>1, <3>1 DEF GaugeInfo
  <2> QED BY <1>6, <2>1, <2>2, <2>3, <2>4 DEF GaugeStep
<1>7. CASE OwnerOfAll
  <2>1. interrupted' = interrupted
    BY <1>7 DEF OwnerOfAll, SetBaseAllocation, SetWomPerSec, PauseAll, ResumeAll, SetPausedAll,
         EmergencyWomWithdraw
  <2>2. infos' = infos \/ \E S \in SUBSET Gauges : infos' = UpdatedForAll(S)
    BY <1>7 DEF OwnerOfAll, SetBaseAllocation, SetWomPerSec, PauseAll, ResumeAll, SetPausedAll,
         EmergencyWomWithdraw, accrualVars
  <2> QED BY <1>2, <2>1, <2>2
<1>8. CASE VeWomStep \/ (\E u \in Users, listed \in SUBSET Gauges : ClaimBribes(u, listed))
            \/ (\E n \in FundAmounts : Fund(n)) \/ UNCHANGED vars \/ Elapse
  BY <1>3, <1>8 DEF VeWomStep, ClaimBribes, Fund, vars, voterVars, Elapse, historyVars, accrualVars
<1> QED BY <1>4, <1>5, <1>6, <1>7, <1>8 DEF Next, OwnerOfAll

\* A bribe that was never detached counts the votes on its gauge or none, and
\* none before it is attached.
SharesInv ==
  \A b \in Bribes \ interrupted : \A u \in Users :
    IF infos[LpTokenOf[b]].bribe = b THEN share[b][u] \in {0, votes[u][LpTokenOf[b]]}
    ELSE share[b][u] = 0

LEMMA SharesInit == Init => SharesInv
BY VoterAssumption DEF Init, SharesInv

LEMMA SharesStep ==
  ASSUME VoterInv, SharesInv, [Next]_vars
  PROVE  SharesInv'
<1>1. /\ votes \in [Users -> [Gauges -> Nat]] /\ share \in [Bribes -> [Users -> Nat]]
      /\ infos \in [Gauges -> GaugeInfo]
      /\ NoBribe \notin Bribes /\ \A b \in Bribes : LpTokenOf[b] \in Gauges
  BY VoterAssumption DEF VoterInv, TypeOK
<1>2. ASSUME NEW e \in Gauges, NEW m \in Managers, NEW new \in BribesFor(e), Add(e, m, new)
      PROVE  SharesInv'
  <2>1. infos[e].bribe = NoBribe
    BY <1>2 DEF Add, VoterInv, UnlistedIdle
  <2>2. \A g \in Gauges : infos'[g].bribe = IF g = e THEN new ELSE infos[g].bribe
    BY <1>1, <1>2 DEF Add, GaugeInfo
  <2>3. UNCHANGED <<votes, share, interrupted>>
    BY <1>2 DEF Add, OwnerChange
  <2> QED BY <1>1, <2>1, <2>2, <2>3 DEF SharesInv
<1>3. ASSUME NEW e \in Gauges, NEW new \in BribesFor(e), SetBribe(e, new)
      PROVE  SharesInv'
  <2>1. \A g \in Gauges : infos'[g].bribe = IF g = e THEN new ELSE infos[g].bribe
    BY <1>1, <1>3 DEF SetBribe, GaugeInfo
  <2>2. /\ UNCHANGED <<votes, share>>
        /\ interrupted' = interrupted \union ({infos[e].bribe} \ {new, NoBribe})
    BY <1>3 DEF SetBribe, OwnerChange
  <2> QED BY <1>1, <2>1, <2>2 DEF SharesInv
<1>4. CASE /\ ~ \E g \in Gauges : \E m \in Managers, b \in BribesFor(g) : Add(g, m, b)
           /\ ~ \E g \in Gauges : \E b \in BribesFor(g) : SetBribe(g, b)
  <2>1. interrupted' = interrupted /\ \A g \in Gauges : infos'[g].bribe = infos[g].bribe
    BY <1>4, BribesKept
  <2>2. CASE UNCHANGED <<votes, share>>
    BY <1>1, <2>1, <2>2 DEF SharesInv
  <2>3. ASSUME NEW u \in Users, NEW ballot \in Ballots, VoteBallot(u, ballot) PROVE SharesInv'
    <3>1. PICK delta \in [Gauges -> Int] :
            /\ BallotStep(u, delta, BallotTotal(ballot))
            /\ \A g \in Gauges : g \notin Touched(ballot) => delta[g] = 0
      BY <1>1, <2>3, CastBallotStep DEF VoteBallot
    <3>2. PICK new \in [Gauges -> Nat] : new = [g \in Gauges |-> votes[u][g] + delta[g]]
      BY <3>1 DEF BallotStep
    <3>3. votes' = [votes EXCEPT ![u] = new]
      BY <3>1, <3>2 DEF BallotStep
    <3>4. PICK f : votes' = [votes EXCEPT ![u] = f] /\ OnVote(u, Listed(ballot), f)
      BY <2>3 DEF VoteBallot, CastBallot
    <3>5. f = new
      <4>1. votes'[u] = new /\ votes'[u] = f
        BY <1>1, <3>3, <3>4
      <4> QED BY <4>1
    <3>6. ASSUME NEW g \in Gauges, g \notin Listed(ballot) PROVE new[g] = votes[u][g]
      <4>1. g \notin Touched(ballot)
        BY <3>6 DEF Touched, Listed
      <4>2. delta[g] = 0 /\ votes[u][g] \in Nat
        BY <1>1, <3>1, <4>1
      <4> QED BY <3>2, <4>2
    <3>7. \A b \in Bribes : share'[b] = IF Notified(b, Listed(ballot))
                                        THEN [share[b] EXCEPT ![u] = new[LpTokenOf[b]]]
                                        ELSE share[b]
      BY <3>4, <3>5 DEF OnVote
    <3> SUFFICES ASSUME NEW b \in Bribes \ interrupted, NEW v \in Users
                 PROVE  IF infos[LpTokenOf[b]].bribe = b
                        THEN share'[b][v] \in {0, votes'[v][LpTokenOf[b]]}
                        ELSE share'[b][v] = 0
      BY <1>1, <2>1 DEF SharesInv
    <3>8. CASE Notified(b, Listed(ballot))
      <4>1. PICK g \in Gauges : g = LpTokenOf[b] /\ infos[g].bribe = b
        BY <1>1, <3>8 DEF Notified
      <4>2. share'[b] = [share[b] EXCEPT ![u] = new[g]] /\ share[b] \in [Users -> Nat]
        BY <1>1, <3>7, <3>8, <4>1
      <4>3. share[b][v] \in {0, votes[v][g]}
        BY <4>1 DEF SharesInv
      <4>4. votes'[v] = IF v = u THEN new ELSE votes[v]
        BY <1>1, <3>3
      <4> QED BY <4>1, <4>2, <4>3, <4>4
    <3>9. CASE ~ Notified(b, Listed(ballot))
      <4>1. share'[b] = share[b]
        BY <3>7, <3>9
      <4>2. CASE infos[LpTokenOf[b]].bribe = b
        <5>1. LpTokenOf[b] \notin Listed(ballot)
          BY <3>9, <4>2 DEF Notified
        <5>2. votes'[v][LpTokenOf[b]] = votes[v][LpTokenOf[b]]
          BY <1>1, <3>3, <3>6, <5>1
        <5> QED BY <4>1, <4>2, <5>2 DEF SharesInv
      <4> QED BY <4>1, <4>2 DEF SharesInv
    <3> QED BY <3>8, <3>9
  <2>4. ASSUME NEW u \in Users, NEW listed \in SUBSET Gauges, ClaimBribes(u, listed) PROVE SharesInv'
    <3>1. \A b \in Bribes : share'[b] = IF Notified(b, listed)
                                        THEN [share[b] EXCEPT ![u] = votes[u][LpTokenOf[b]]]
                                        ELSE share[b]
      BY <2>4 DEF ClaimBribes, OnVote
    <3>2. votes' = votes
      BY <2>4 DEF ClaimBribes
    <3> SUFFICES ASSUME NEW b \in Bribes \ interrupted, NEW v \in Users
                 PROVE  IF infos[LpTokenOf[b]].bribe = b
                        THEN share'[b][v] \in {0, votes[v][LpTokenOf[b]]}
                        ELSE share'[b][v] = 0
      BY <1>1, <2>1, <3>2 DEF SharesInv
    <3>3. PICK g \in Gauges : g = LpTokenOf[b]
      BY <1>1
    <3>4. CASE Notified(b, listed)
      <4>1. share'[b] = [share[b] EXCEPT ![u] = votes[u][g]] /\ share[b] \in [Users -> Nat]
        BY <1>1, <3>1, <3>3, <3>4
      <4>2. infos[g].bribe = b /\ share[b][v] \in {0, votes[v][g]}
        BY <3>3, <3>4 DEF Notified, SharesInv
      <4> QED BY <3>3, <4>1, <4>2
    <3>5. CASE ~ Notified(b, listed)
      BY <3>1, <3>5 DEF SharesInv
    <3> QED BY <3>4, <3>5
  <2>5. ASSUME NEW g \in Gauges, GaugeStep(g) PROVE UNCHANGED <<votes, share>>
    BY <2>5 DEF GaugeStep, Add, SetAllocPoint, PauseVoteEmission, ResumeVoteEmission, SetGauge,
           SetBribe, OwnerChange
  <2>6. ASSUME OwnerOfAll PROVE UNCHANGED <<votes, share>>
    BY <2>6 DEF OwnerOfAll, SetBaseAllocation, SetWomPerSec, PauseAll, ResumeAll, SetPausedAll,
         EmergencyWomWithdraw, OwnerChange
  <2>7. CASE VeWomStep \/ (\E m \in Managers, g \in Gauges : Distribute(m, g))
             \/ (\E n \in FundAmounts : Fund(n)) \/ UNCHANGED vars \/ Elapse
    BY <2>2, <2>7 DEF VeWomStep, Distribute, Fund, vars, voterVars, Elapse
  <2> QED BY <2>2, <2>3, <2>4, <2>5, <2>6, <2>7 DEF Next, OwnerOfAll
<1> QED BY <1>2, <1>3, <1>4

\* A bribe that was never detached counts no more votes of a user than the
\* user has on its gauge, whatever votes are cast and claims are made.
THEOREM BribeSharesStayBacked == Spec => []BribeSharesBacked
<1>1. VoterInv /\ SharesInv /\ [Next]_vars => (SharesInv)'
  BY SharesStep
<1>2. SharesInv => BribeSharesBacked
  BY DEF SharesInv, BribeSharesBacked
<1> QED BY <1>1, <1>2, SharesInit, VoterInvariance, PTL DEF Spec

-----------------------------------------------------------------------------
(* veWOM and the Voter implement the voting power.                         *)

\* A lock that gives an amount of veWOM that may be granted at once.
GrantedBreeding == [unlockTime : Nat, womAmount : Nat, veWomAmount : 0..Uint104]

GrantsInv == breedings \in [Users -> Seq(GrantedBreeding)]

\* Mint and update grant at most type(uint104).max, and a burn takes as much back.
MovesPower(u, n) ==
  /\ ChangeBalance(u, n)
  /\ n \in 0..Uint104 \/ 0 - n \in 0..Uint104

LEMMA GrantsStep ==
  ASSUME VeWomInv, GrantsInv, UserStep
  PROVE  /\ GrantsInv' /\ usedVote' = usedVote
         /\ (\E u \in Users, n \in Int : MovesPower(u, n)) \/ balance' = balance
<1>1. Uint104 \in Nat /\ \A u \in Users : breedings[u] \in Seq(GrantedBreeding)
  BY VeWomAssumption DEF GrantsInv
<1>2. ASSUME NEW u \in Users, NEW new \in Seq(GrantedBreeding), breedings' = [breedings EXCEPT ![u] = new]
      PROVE  GrantsInv'
  BY <1>2 DEF GrantsInv
<1>3. ASSUME NEW u \in Users, NEW amount \in Amounts, NEW lockDays \in LockDays,
             Mint(u, amount, lockDays)
      PROVE  GrantsInv' /\ \E n \in Int : MovesPower(u, n)
  <2>1. amount \in Nat /\ lockDays \in Nat /\ now + lockDays \in Nat
    BY VeWomAssumption DEF VeWomInv, VeWomTypeOK
  <2>2. PICK ve \in Nat : ve = ExpectedVeWomAmount(amount, lockDays)
    BY <2>1, ExpectedNat
  <2>3. ve <= Uint104 /\ ChangeBalance(u, ve)
    BY <1>3, <2>2 DEF Mint
  <2>4. PICK lock \in GrantedBreeding :
          lock = [unlockTime |-> now + lockDays, womAmount |-> amount, veWomAmount |-> ve]
    <3>1. ve \in 0..Uint104 /\ now + lockDays \in Nat /\ amount \in Nat
      BY <1>1, <2>1, <2>2, <2>3
    <3> QED BY <3>1 DEF GrantedBreeding
  <2>5. PICK new \in Seq(GrantedBreeding) : new = Append(breedings[u], lock)
    BY <1>1, AppendProperties
  <2>6. breedings' = [breedings EXCEPT ![u] = new]
    BY <1>3, <2>2, <2>4, <2>5 DEF Mint
  <2>7. ve \in 0..Uint104 /\ ve \in Int
    BY <1>1, <2>2, <2>3
  <2>8. MovesPower(u, ve)
    BY <2>3, <2>7 DEF MovesPower
  <2>9. GrantsInv'
    BY <1>2, <2>5, <2>6
  <2> QED BY <2>7, <2>8, <2>9
<1>4. ASSUME NEW u \in Users, NEW slot \in 1..Len(breedings[u]), Burn(u, slot)
      PROVE  GrantsInv' /\ \E n \in Int : MovesPower(u, n)
  <2>1. PICK locks \in Seq(GrantedBreeding) : locks = breedings[u]
    BY <1>1
  <2>2. PICK lock \in GrantedBreeding : lock = locks[slot]
    BY <1>4, <2>1
  <2>3. PICK new \in Seq(GrantedBreeding) : new = RemoveSlot(locks, slot)
    BY <1>4, <2>1, RemoveSlotSeq
  <2>4. breedings' = [breedings EXCEPT ![u] = new]
    BY <1>4, <2>1, <2>3 DEF Burn
  <2>5. PICK n \in Int : n = 0 - lock.veWomAmount
    BY <1>1 DEF GrantedBreeding
  <2>6. ChangeBalance(u, n)
    BY <1>4, <2>1, <2>2, <2>5 DEF Burn
  <2>7. 0 - n \in 0..Uint104
    <3>1. PICK ve \in 0..Uint104 : ve = lock.veWomAmount
      BY DEF GrantedBreeding
    <3>2. 0 - n = ve
      BY <1>1, <2>5, <3>1
    <3> QED BY <3>1, <3>2
  <2> QED BY <1>2, <2>4, <2>6, <2>7 DEF MovesPower
<1>5. ASSUME NEW u \in Users, NEW slot \in 1..Len(breedings[u]), NEW lockDays \in LockDays,
             Update(u, slot, lockDays)
      PROVE  GrantsInv' /\ \E n \in Int : MovesPower(u, n)
  <2>1. PICK locks \in Seq(GrantedBreeding) : locks = breedings[u]
    BY <1>1
  <2>2. PICK lock \in GrantedBreeding : lock = locks[slot]
    BY <1>5, <2>1
  <2>3. lock.womAmount \in Nat /\ lock.veWomAmount \in Nat /\ now + lockDays \in Nat
    BY <1>1, VeWomAssumption DEF GrantedBreeding, VeWomInv, VeWomTypeOK
  <2>4. PICK ve \in Nat : ve = ExpectedVeWomAmount(lock.womAmount, lockDays)
    BY <2>3, ExpectedNat
  <2>5. ve <= Uint104 /\ lock.veWomAmount < ve /\ ChangeBalance(u, ve - lock.veWomAmount)
    BY <1>5, <2>1, <2>2, <2>4 DEF Update
  <2>6. PICK other \in GrantedBreeding :
          other = [unlockTime |-> now + lockDays, womAmount |-> lock.womAmount, veWomAmount |-> ve]
    <3>1. ve \in 0..Uint104
      BY <1>1, <2>4, <2>5
    <3> QED BY <2>3, <3>1 DEF GrantedBreeding
  <2>7. PICK new \in Seq(GrantedBreeding) : new = [locks EXCEPT ![slot] = other]
    BY <1>5, <2>1, ExceptSeq
  <2>8. breedings' = [breedings EXCEPT ![u] = new]
    <3>1. breedings' = [breedings EXCEPT ![u][slot] = other]
      BY <1>5, <2>1, <2>2, <2>4, <2>6 DEF Update
    <3> QED BY <1>1, <2>1, <2>7, <3>1 DEF GrantsInv
  <2>9. PICK n \in Int : n = ve - lock.veWomAmount
    BY <2>3
  <2>10. n \in 0..Uint104
    BY <1>1, <2>3, <2>5, <2>9
  <2>11. MovesPower(u, n)
    BY <2>5, <2>9, <2>10 DEF MovesPower
  <2>12. GrantsInv'
    BY <1>2, <2>7, <2>8
  <2> QED BY <2>11, <2>12
<1>6. ASSUME NEW u \in Users, NEW m \in Managers, NEW n \in Stakes \union {0},
             MoveStake(m, u, n)
      PROVE  GrantsInv' /\ balance' = balance
  BY <1>6 DEF MoveStake, lockVars, GrantsInv
<1>7. usedVote' = usedVote
  BY UserStepLeaves
<1> QED BY <1>3, <1>4, <1>5, <1>6, <1>7 DEF UserStep

\* The total of the abstract specification is the sum over the gauges.
LEMMA PowerTotal ==
  ASSUME NEW f
  PROVE  Power!TotalOf(f) = SumOver(f, Gauges)
BY DEF Power!TotalOf, Power!SumOver, Power!MapThenSumSet, Power!MapThenFoldSet, SumOver,
       MapThenSumSet, MapThenFoldSet

\* A user's transaction grants or revokes voting power, and leaves enough for
\* the votes.
LEMMA PowerMoves ==
  ASSUME VoterInv, VoterInv', NEW u \in Users, NEW n \in Int, MovesPower(u, n),
         usedVote' = usedVote, votes' = votes
  PROVE  Power!Next
<1>1. balance' = [balance EXCEPT ![u] = balance[u] + n] /\ balance \in [Users -> Nat]
  BY DEF MovesPower, ChangeBalance, VoterInv, TypeOK, VeWomTypeOK
<1>2. CASE n \in 0..Uint104
  <2>1. Power!Grant(u, n)
    BY <1>1 DEF Power!Grant
  <2> QED BY <1>2, <2>1 DEF Power!Next
<1>3. CASE 0 - n \in 0..Uint104
  <2>1. PICK m \in 0..Uint104 : m = 0 - n
    BY <1>3
  <2>2. balance[u] + n = balance[u] - m /\ balance[u] \in Nat
    BY <1>1, <2>1, VeWomAssumption
  <2>3. balance'[u] = balance[u] - m
    BY <1>1, <2>2
  <2>4. usedVote[u] <= balance'[u] /\ usedVote[u] \in Nat
    BY DEF MovesPower, ChangeBalance, VoteIsEnough, VoterInv, TypeOK, VeWomTypeOK
  <2>5. usedVote[u] = SumOver(votes[u], Gauges)
    BY DEF VoterInv, VotesAgree
  <2>6. balance[u] - m >= Power!TotalOf(votes[u])
    BY <2>3, <2>4, <2>5, PowerTotal
  <2>7. Power!Revoke(u, m)
    BY <1>1, <2>2, <2>6 DEF Power!Revoke
  <2> QED BY <2>7 DEF Power!Next
<1> QED BY <1>2, <1>3 DEF MovesPower

\* A ballot spreads no more than the voting power over the gauges.
LEMMA PowerAssigned ==
  ASSUME VoterInv, VoterInv', NEW u \in Users, NEW ballot \in Ballots, VoteBallot(u, ballot)
  PROVE  Power!Next
<1>1. votes \in [Users -> [Gauges -> Nat]] /\ votes' \in [Users -> [Gauges -> Nat]]
      /\ balance \in [Users -> Nat] /\ balance' = balance
  BY DEF VoterInv, TypeOK, VeWomTypeOK, VoteBallot, lockVars
<1>2. PICK f : votes' = [votes EXCEPT ![u] = f]
  BY DEF VoteBallot, CastBallot
<1>3. f = votes'[u] /\ f \in [Gauges -> Nat]
  BY <1>1, <1>2
<1>4. SumOver(f, Gauges) <= balance[u]
  <2>1. usedVote'[u] = SumOver(votes'[u], Gauges) /\ usedVote'[u] <= balance'[u]
    BY DEF VoterInv, VotesAgree, VotesBacked
  <2> QED BY <1>1, <1>3, <2>1
<1>5. SumOver(f, Gauges) \in Nat /\ \A g \in Gauges : f[g] <= SumOver(f, Gauges)
  BY <1>3, SumNat, VoterAssumption
<1>6. f \in [Gauges -> 0..balance[u]]
  BY <1>1, <1>3, <1>4, <1>5
<1>7. Power!Assign(u, f)
  BY <1>1, <1>2, <1>4, PowerTotal DEF Power!Assign
<1> QED BY <1>6, <1>7 DEF Power!Next

\* Only users' transactions change locks and balances.
LEMMA OthersLeaveLocks ==
  ASSUME [Next]_vars, ~ VeWomStep
  PROVE  UNCHANGED lockVars
BY DEF Next, VoteBallot, ClaimBribes, Distribute, GaugeStep, Add, SetAllocPoint,
       PauseVoteEmission, ResumeVoteEmission, SetGauge, SetBribe, SetBaseAllocation, SetWomPerSec,
       PauseAll, ResumeAll, SetPausedAll, EmergencyWomWithdraw, OwnerChange, Fund, Elapse, Tick,
       vars, veWomVars, lockVars

LEMMA PowerStep ==
  ASSUME VoterInv, VoterInv', GrantsInv, [Next]_vars
  PROVE  [Power!Next]_(Power!powerVars) /\ GrantsInv'
<1>1. CASE VeWomStep
  <2>1. /\ GrantsInv' /\ usedVote' = usedVote
        /\ (\E u \in Users, n \in Int : MovesPower(u, n)) \/ balance' = balance
    BY <1>1, GrantsStep, InvTyped DEF VeWomStep
  <2>2. votes' = votes
    BY <1>1 DEF VeWomStep, voterVars
  <2> QED BY <2>1, <2>2, PowerMoves DEF Power!powerVars
<1>2. CASE ~ VeWomStep
  <2>1. UNCHANGED lockVars
    BY <1>2, OthersLeaveLocks
  <2>2. GrantsInv' /\ balance' = balance
    BY <2>1 DEF lockVars, GrantsInv
  <2>3. ASSUME NEW u \in Users, NEW ballot \in Ballots, VoteBallot(u, ballot) PROVE Power!Next
    BY <2>3, PowerAssigned
  <2>4. CASE ~ \E u \in Users, ballot \in Ballots : VoteBallot(u, ballot)
    <3>1. votes' = votes
      BY <1>2, <2>4 DEF Next, ClaimBribes, Distribute, GaugeStep, Add, SetAllocPoint,
         PauseVoteEmission, ResumeVoteEmission, SetGauge, SetBribe, SetBaseAllocation,
         SetWomPerSec, PauseAll, ResumeAll, SetPausedAll, EmergencyWomWithdraw, OwnerChange,
         Fund, Elapse, vars, voterVars
    <3> QED BY <2>2, <3>1 DEF Power!powerVars
  <2> QED BY <2>2, <2>3, <2>4
<1> QED BY <1>1, <1>2

LEMMA PowerInit == Init => Power!Init /\ GrantsInv
BY DEF Init, VeWomInit, Power!Init, GrantsInv

\* veWOM and the Voter implement VotingPower: each transaction grants power,
\* takes back no more than the votes leave free, or spreads at most what the
\* user has over the gauges.
THEOREM PowerRefinement == Spec => ImplementsVotingPower
<1>1. VoterInv /\ VoterInv' /\ GrantsInv /\ [Next]_vars
        => [Power!Next]_(Power!powerVars) /\ GrantsInv'
  BY PowerStep
<1> QED BY <1>1, PowerInit, VoterInvariance, PTL DEF Spec, ImplementsVotingPower, Power!Spec

-----------------------------------------------------------------------------
(* The growth of an index.                                                 *)

LEMMA ProductMonotone ==
  ASSUME NEW k \in Nat, NEW a \in Nat, NEW c \in Nat, a <= c
  PROVE  k * a <= k * c
<1>1. PICK d \in Nat : c = a + d
  <2>1. c - a \in Nat /\ c = a + (c - a)
    OBVIOUS
  <2> QED BY <2>1
<1>2. PICK x \in Nat : x = k * a
  BY ProductNat
<1>3. PICK y \in Nat : y = k * d
  BY ProductNat
<1>4. k * c = x + y
  BY <1>1, <1>2, <1>3
<1> QED BY <1>2, <1>3, <1>4

LEMMA QuotientBound ==
  ASSUME NEW a \in Nat, NEW b \in Nat \ {0}
  PROVE  a \div b \in Nat /\ b * (a \div b) <= a
OBVIOUS

\* The growth of an index in t seconds.
Rise(t, rate, part, total) ==
  ((t * rate * part * ACC_TOKEN_PRECISION) \div Max({total, MinTotal})) \div Parts

\* In more time an index grows more, and the gauges' shares of its growth
\* together are at most this part of the emission.
LEMMA RiseBounds ==
  ASSUME NEW t \in Nat, NEW rate \in Nat, NEW part \in Nat, NEW total \in Nat
  PROVE  /\ Rise(t, rate, part, total) \in Nat
         /\ (total * Rise(t, rate, part, total)) * Parts
              <= ((t * rate) * part) * ACC_TOKEN_PRECISION
         /\ \A s \in Nat : t <= s => Rise(t, rate, part, total) <= Rise(s, rate, part, total)
<1>1. ACC_TOKEN_PRECISION \in Nat \ {0} /\ Parts \in Nat \ {0} /\ MinTotal \in Nat \ {0}
  BY VoterAssumption
<1>2. PICK m \in Nat \ {0} : m = Max({total, MinTotal}) /\ total <= m
  <2>1. /\ Max({total, MinTotal}) \in {total, MinTotal}
        /\ Max({total, MinTotal}) >= total /\ Max({total, MinTotal}) >= MinTotal
    BY <1>1, MaxOfTwo
  <2> QED BY <1>1, <2>1
<1>3. PICK k \in Nat : k = (rate * part) * ACC_TOKEN_PRECISION
  BY <1>1, ProductNat
<1>4. ASSUME NEW s \in Nat
      PROVE  Rise(s, rate, part, total) = ((k * s) \div m) \div Parts
  <2>1. s * rate * part * ACC_TOKEN_PRECISION = k * s
    BY <1>1, <1>3
  <2> QED BY <1>2, <2>1 DEF Rise
<1>5. PICK y \in Nat : y = k * t
  BY ProductNat
<1>6. PICK q \in Nat : q = y \div m /\ m * q <= y
  BY <1>2, QuotientBound
<1>7. PICK r \in Nat : r = q \div Parts /\ Parts * r <= q
  BY <1>1, QuotientBound
<1>8. r = Rise(t, rate, part, total)
  BY <1>4, <1>5, <1>6, <1>7
<1>9. (total * r) * Parts <= y
  <2>1. PICK p \in Nat : p = Parts * r
    BY <1>1, ProductNat
  <2>2. p * total <= p * m
    BY <1>2, <2>1, ProductMonotone
  <2>3. m * p <= m * q
    BY <1>2, <1>7, <2>1, ProductMonotone
  <2>4. (total * r) * Parts = p * total
    BY <1>1, <2>1
  <2>5. p * total \in Nat /\ p * m \in Nat /\ m * q \in Nat /\ p * m = m * p
    BY <1>2, ProductNat
  <2> QED BY <1>6, <2>2, <2>3, <2>4, <2>5
<1>10. y = ((t * rate) * part) * ACC_TOKEN_PRECISION
  BY <1>1, <1>3, <1>5
<1>11. ASSUME NEW s \in Nat, t <= s
       PROVE  r <= Rise(s, rate, part, total)
  <2>1. PICK z \in Nat : z = k * s /\ y <= z
    BY <1>5, <1>11, ProductMonotone, ProductNat
  <2>2. PICK o \in Nat : o = z \div m /\ q <= o
    BY <1>2, <1>6, <2>1, DivMonotone, QuotientBound
  <2>3. q \div Parts <= o \div Parts
    BY <1>1, <2>2, DivMonotone
  <2> QED BY <1>4, <1>7, <2>1, <2>2, <2>3
<1> QED BY <1>8, <1>9, <1>10, <1>11

\* No WOM is emitted since the indices were brought up to date.
Idle == now <= index.lastRewardTimestamp \/ emission.paused

LEMMA GrowthIsRise ==
  ASSUME AccrualTyped, NEW part \in Nat, NEW total \in Nat
  PROVE  /\ Idle => IndexGrowth(part, total) = 0
         /\ ~ Idle => IndexGrowth(part, total) =
              IF total = 0 THEN 0
              ELSE Rise(now - index.lastRewardTimestamp, emission.womPerSec, part, total)
BY DEF Idle, IndexGrowth, Rise
-----------------------------------------------------------------------------
(* What a gauge has earned.                                                *)

\* The part of an index's growth n that falls to a weight.
Portion(weight, n) == (weight * n) \div ACC_TOKEN_PRECISION

LEMMA PortionFacts ==
  ASSUME NEW weight \in Nat, NEW n \in Nat
  PROVE  /\ Portion(weight, n) \in Nat
         /\ ACC_TOKEN_PRECISION * Portion(weight, n) <= weight * n
         /\ \A k \in Nat : n <= k => Portion(weight, n) <= Portion(weight, k)
         /\ weight = 0 \/ n = 0 => Portion(weight, n) = 0
<1>1. ACC_TOKEN_PRECISION \in Nat \ {0}
  BY VoterAssumption
<1>2. PICK x \in Nat : x = weight * n
  BY ProductNat
<1>3. x \div ACC_TOKEN_PRECISION \in Nat
      /\ ACC_TOKEN_PRECISION * (x \div ACC_TOKEN_PRECISION) <= x
  BY <1>1, <1>2, QuotientBound
<1>4. ASSUME NEW k \in Nat, n <= k
      PROVE  x \div ACC_TOKEN_PRECISION <= Portion(weight, k)
  <2>1. PICK y \in Nat : y = weight * k /\ x <= y
    BY <1>2, <1>4, ProductMonotone, ProductNat
  <2> QED BY <1>1, <2>1, DivMonotone DEF Portion
<1>5. ASSUME weight = 0 \/ n = 0 PROVE x \div ACC_TOKEN_PRECISION = 0
  <2>1. x = 0
    BY <1>2, <1>5
  <2> QED BY <1>1, <2>1
<1> QED BY <1>2, <1>3, <1>4, <1>5 DEF Portion

\* What a gauge has pending, in terms of its portions.
LEMMA PendingParts ==
  ASSUME AccrualTyped, IndexesCover, NEW g \in Gauges
  PROVE  /\ infos[g] \in GaugeInfo
         /\ weights[g].allocPoint \in Nat /\ weights[g].voteWeight \in Nat
         /\ BaseIndexNow - infos[g].supplyBaseIndex \in Nat
         /\ VoteIndexNow - infos[g].supplyVoteIndex \in Nat
         /\ index.base - infos[g].supplyBaseIndex \in Nat
         /\ index.vote - infos[g].supplyVoteIndex \in Nat
         /\ PendingWom(g) = infos[g].claimable
              + Portion(weights[g].allocPoint, BaseIndexNow - infos[g].supplyBaseIndex)
              + (IF infos[g].whitelist
                 THEN Portion(weights[g].voteWeight, VoteIndexNow - infos[g].supplyVoteIndex)
                 ELSE 0)
         /\ PendingWom(g) \in Nat
<1>1. infos[g] \in GaugeInfo /\ weights[g].allocPoint \in Nat /\ weights[g].voteWeight \in Nat
  BY DEF AccrualTyped, CountsTyped
<1>2. /\ BaseIndexNow \in Nat /\ BaseIndexNow >= index.base /\ index.base \in Nat
      /\ VoteIndexNow \in Nat /\ VoteIndexNow >= index.vote /\ index.vote \in Nat
  BY IndicesGrow DEF AccrualTyped
<1>3. /\ infos[g].supplyBaseIndex \in Nat /\ infos[g].supplyBaseIndex <= index.base
      /\ infos[g].supplyVoteIndex \in Nat /\ infos[g].supplyVoteIndex <= index.vote
  BY <1>1 DEF IndexesCover, GaugeInfo
<1>4. PendingWom(g) = infos[g].claimable
        + Portion(weights[g].allocPoint, BaseIndexNow - infos[g].supplyBaseIndex)
        + (IF infos[g].whitelist
           THEN Portion(weights[g].voteWeight, VoteIndexNow - infos[g].supplyVoteIndex)
           ELSE 0)
  BY DEF PendingWom, Portion
<1> QED BY <1>1, <1>2, <1>3, <1>4, UpdatedFields

\* A transaction does not move the indices of now.
LEMMA IndicesStay ==
  ASSUME VoterInv, VoterInv', Transaction
  PROVE  BaseIndexNow' = BaseIndexNow /\ VoteIndexNow' = VoteIndexNow
<1>1. /\ now \in Nat /\ now' = now /\ BaseIndexNow \in Nat /\ VoteIndexNow \in Nat
      /\ DistributedIndex.lastRewardTimestamp >= now
  BY InvTyped, IndicesGrow DEF AccrualTyped, Transaction
<1>2. CASE index' = DistributedIndex
  <2>1. index'.base = BaseIndexNow /\ index'.vote = VoteIndexNow
    BY <1>2 DEF DistributedIndex
  <2>2. now' <= index'.lastRewardTimestamp
    BY <1>1, <1>2
  <2>3. /\ IndexGrowth(emission.baseAllocation, totals.allocPoint)' = 0
        /\ IndexGrowth(Parts - emission.baseAllocation, totals.voteWeight)' = 0
    BY <2>2 DEF IndexGrowth
  <2> QED BY <1>1, <2>1, <2>3 DEF BaseIndexNow, VoteIndexNow
<1>3. CASE index' = index /\ emission' = emission /\ totals' = totals
  BY <1>1, <1>3 DEF BaseIndexNow, VoteIndexNow, IndexGrowth
<1> QED BY <1>2, <1>3 DEF Transaction

\* A transaction leaves what a gauge has earned.
LEMMA EarnedStays ==
  ASSUME VoterInv, VoterInv', Transaction, NEW g \in Gauges
  PROVE  Entitled(g)' = Entitled(g)
<1>1. AccrualTyped /\ IndexesCover /\ AccrualTyped' /\ IndexesCover'
  BY InvTyped DEF VoterInv, TypeOK, VeWomTypeOK, AccrualTyped, CountsTyped
<1>2. BaseIndexNow' = BaseIndexNow /\ VoteIndexNow' = VoteIndexNow
  BY IndicesStay
<1>3. PICK w \in [allocPoint : Nat, voteWeight : Nat] : w = weights'[g]
  BY <1>1 DEF AccrualTyped, CountsTyped
<1>4. PICK info \in GaugeInfo : info = infos'[g]
  BY <1>1 DEF AccrualTyped
<1>5. /\ BaseIndexNow \in Nat /\ VoteIndexNow \in Nat
      /\ index'.base <= BaseIndexNow /\ index'.vote <= VoteIndexNow
      /\ index'.base \in Nat /\ index'.vote \in Nat
  <2>1. /\ BaseIndexNow \in Nat /\ BaseIndexNow >= index.base /\ index.base \in Nat
        /\ VoteIndexNow \in Nat /\ VoteIndexNow >= index.vote /\ index.vote \in Nat
    BY <1>1, IndicesGrow DEF AccrualTyped
  <2> QED BY <1>1, <2>1 DEF Transaction, DistributedIndex, AccrualTyped
<1>6. info.supplyBaseIndex <= index'.base /\ info.supplyVoteIndex <= index'.vote
      /\ info.supplyBaseIndex \in Nat /\ info.supplyVoteIndex \in Nat
  BY <1>1, <1>4 DEF IndexesCover, GaugeInfo
<1>7. PICK b \in Nat : b = BaseIndexNow - info.supplyBaseIndex
  BY <1>5, <1>6
<1>8. PICK v \in Nat : v = VoteIndexNow - info.supplyVoteIndex
  BY <1>5, <1>6
<1>9. PendingWom(g)' = info.claimable + Portion(w.allocPoint, b)
                         + (IF info.whitelist THEN Portion(w.voteWeight, v) ELSE 0)
  BY <1>2, <1>3, <1>4, <1>7, <1>8 DEF PendingWom, Portion
<1>10. w.allocPoint \in Nat /\ w.voteWeight \in Nat /\ info.claimable \in Nat
      /\ paid[g] \in Nat /\ paid'[g] \in Nat /\ PendingWom(g) \in Nat
  BY <1>1, PendingParts DEF GaugeInfo, VoterInv, TypeOK
<1>11. CASE Carried(g)
  <2>1. /\ w = weights[g] /\ info.claimable = infos[g].claimable /\ paid'[g] = paid[g]
        /\ b = BaseIndexNow - infos[g].supplyBaseIndex
        /\ v = VoteIndexNow - infos[g].supplyVoteIndex
        /\ info.whitelist = infos[g].whitelist \/ w.voteWeight = 0
    BY <1>3, <1>4, <1>7, <1>8, <1>11 DEF Carried
  <2>2. PendingWom(g) = info.claimable + Portion(w.allocPoint, b)
                          + (IF infos[g].whitelist THEN Portion(w.voteWeight, v) ELSE 0)
    BY <1>1, <2>1, PendingParts
  <2>3. w.voteWeight = 0 => Portion(w.voteWeight, v) = 0
    BY <1>8, <1>10, PortionFacts
  <2>4. PendingWom(g)' = PendingWom(g)
    BY <1>9, <2>1, <2>2, <2>3
  <2> QED BY <2>1, <2>4 DEF Entitled
<1>12. CASE CaughtUp(g)
  <2>1. b = 0 /\ v = 0 /\ paid'[g] + info.claimable = paid[g] + PendingWom(g)
    <3>1. info.supplyBaseIndex = BaseIndexNow /\ info.supplyVoteIndex = VoteIndexNow
          /\ BaseIndexNow \in Nat /\ VoteIndexNow \in Nat
      BY <1>1, <1>4, <1>12, IndicesGrow DEF CaughtUp
    <3> QED BY <1>4, <1>7, <1>8, <1>12, <3>1 DEF CaughtUp
  <2>2. Portion(w.allocPoint, b) = 0 /\ Portion(w.voteWeight, v) = 0
    BY <1>7, <1>8, <1>10, <2>1, PortionFacts
  <2>3. PendingWom(g)' = info.claimable
    BY <1>9, <1>10, <2>2
  <2> QED BY <2>1, <2>3 DEF Entitled
<1> QED BY <1>11, <1>12 DEF Transaction
\* As time passes the indices grow, unless all gauges are paused.
LEMMA IndicesRise ==
  ASSUME VoterInv, Elapse
  PROVE  /\ BaseIndexNow' \in Nat /\ BaseIndexNow <= BaseIndexNow'
         /\ VoteIndexNow' \in Nat /\ VoteIndexNow <= VoteIndexNow'
         /\ emission.paused => BaseIndexNow' = BaseIndexNow /\ VoteIndexNow' = VoteIndexNow
<1>1. AccrualTyped
  BY InvTyped
<1>2. /\ now \in Nat /\ now' = now + 1
      /\ index' = index /\ emission' = emission /\ totals' = totals
      /\ index.lastRewardTimestamp \in Nat /\ emission.womPerSec \in Nat
      /\ index.base \in Nat /\ index.vote \in Nat
  BY <1>1 DEF Elapse, Tick, accrualVars, AccrualTyped
<1>3. ASSUME NEW part \in Nat, NEW total \in Nat
      PROVE  /\ IndexGrowth(part, total) \in Nat /\ IndexGrowth(part, total)' \in Nat
             /\ IndexGrowth(part, total) <= IndexGrowth(part, total)'
             /\ emission.paused => IndexGrowth(part, total)' = IndexGrowth(part, total)
  <2>1. IndexGrowth(part, total) \in Nat
    BY <1>1, GrowthNat
  <2>2. CASE now + 1 <= index.lastRewardTimestamp \/ total = 0 \/ emission.paused
    BY <1>2, <2>2 DEF IndexGrowth
  <2>3. CASE ~ (now + 1 <= index.lastRewardTimestamp \/ total = 0 \/ emission.paused)
    <3>1. PICK t \in Nat : t = now - index.lastRewardTimestamp
      BY <1>2, <2>3
    <3>2. PICK s \in Nat : s = now' - index.lastRewardTimestamp /\ t <= s
      BY <1>2, <3>1
    <3>3. IndexGrowth(part, total)' = Rise(s, emission.womPerSec, part, total)
      BY <1>2, <2>3, <3>2 DEF IndexGrowth, Rise
    <3>4. IndexGrowth(part, total) = 0
          \/ IndexGrowth(part, total) = Rise(t, emission.womPerSec, part, total)
      BY <3>1 DEF IndexGrowth, Rise
    <3>5. /\ Rise(s, emission.womPerSec, part, total) \in Nat
          /\ Rise(t, emission.womPerSec, part, total) <= Rise(s, emission.womPerSec, part, total)
      BY <1>2, <3>1, <3>2, RiseBounds
    <3> QED BY <2>1, <2>3, <3>3, <3>4, <3>5
  <2> QED BY <2>2, <2>3
<1>4. /\ emission.baseAllocation \in Nat /\ Parts - emission.baseAllocation \in Nat
      /\ totals.allocPoint \in Nat /\ totals.voteWeight \in Nat
  BY <1>1, VoterAssumption DEF AccrualTyped, CountsTyped
<1>5. /\ BaseIndexNow' = index.base + IndexGrowth(emission.baseAllocation, totals.allocPoint)'
      /\ VoteIndexNow' = index.vote + IndexGrowth(Parts - emission.baseAllocation, totals.voteWeight)'
  BY <1>2 DEF BaseIndexNow, VoteIndexNow
<1>6. PICK part \in Nat : part = emission.baseAllocation
  BY <1>4
<1>7. PICK rest \in Nat : rest = Parts - emission.baseAllocation
  BY <1>4
<1>8. PICK points \in Nat : points = totals.allocPoint
  BY <1>4
<1>9. PICK voted \in Nat : voted = totals.voteWeight
  BY <1>4
<1>10. /\ BaseIndexNow = index.base + IndexGrowth(part, points)
       /\ VoteIndexNow = index.vote + IndexGrowth(rest, voted)
       /\ BaseIndexNow' = index.base + IndexGrowth(part, points)'
       /\ VoteIndexNow' = index.vote + IndexGrowth(rest, voted)'
  BY <1>2, <1>5, <1>6, <1>7, <1>8, <1>9 DEF BaseIndexNow, VoteIndexNow, IndexGrowth
<1>11. /\ IndexGrowth(part, points) \in Nat /\ IndexGrowth(part, points)' \in Nat
       /\ IndexGrowth(part, points) <= IndexGrowth(part, points)'
       /\ emission.paused => IndexGrowth(part, points)' = IndexGrowth(part, points)
  BY <1>3
<1>12. /\ IndexGrowth(rest, voted) \in Nat /\ IndexGrowth(rest, voted)' \in Nat
       /\ IndexGrowth(rest, voted) <= IndexGrowth(rest, voted)'
       /\ emission.paused => IndexGrowth(rest, voted)' = IndexGrowth(rest, voted)
  BY <1>3
<1> QED BY <1>2, <1>10, <1>11, <1>12

\* As time passes a gauge loses nothing, and earns only what it is entitled to.
LEMMA EarnedRises ==
  ASSUME VoterInv, Elapse, NEW g \in Gauges
  PROVE  /\ Entitled(g)' >= Entitled(g)
         /\ Entitled(g)' # Entitled(g) =>
              ~ emission.paused /\ (infos[g].whitelist \/ weights[g].allocPoint > 0)
<1>1. AccrualTyped /\ IndexesCover
  BY InvTyped
<1>2. infos' = infos /\ weights' = weights /\ paid' = paid /\ paid[g] \in Nat
  BY DEF Elapse, accrualVars, VoterInv, TypeOK
<1>3. PICK w \in [allocPoint : Nat, voteWeight : Nat] : w = weights[g]
  BY <1>1 DEF AccrualTyped, CountsTyped
<1>4. PICK info \in GaugeInfo : info = infos[g]
  BY <1>1 DEF AccrualTyped
<1>5. /\ BaseIndexNow \in Nat /\ BaseIndexNow' \in Nat /\ BaseIndexNow <= BaseIndexNow'
      /\ VoteIndexNow \in Nat /\ VoteIndexNow' \in Nat /\ VoteIndexNow <= VoteIndexNow'
      /\ emission.paused => BaseIndexNow' = BaseIndexNow /\ VoteIndexNow' = VoteIndexNow
  BY <1>1, IndicesRise, IndicesGrow
<1>6. PICK b \in Nat : b = BaseIndexNow - info.supplyBaseIndex
  BY <1>1, <1>4, PendingParts
<1>7. PICK v \in Nat : v = VoteIndexNow - info.supplyVoteIndex
  BY <1>1, <1>4, PendingParts
<1>8. PICK c \in Nat : c = BaseIndexNow' - info.supplyBaseIndex /\ b <= c
                       /\ (emission.paused => b = c)
  BY <1>5, <1>6 DEF GaugeInfo
<1>9. PICK y \in Nat : y = VoteIndexNow' - info.supplyVoteIndex /\ v <= y
                       /\ (emission.paused => v = y)
  BY <1>5, <1>7 DEF GaugeInfo
<1>10. PendingWom(g) = info.claimable + Portion(w.allocPoint, b)
                         + (IF info.whitelist THEN Portion(w.voteWeight, v) ELSE 0)
  BY <1>3, <1>4, <1>6, <1>7 DEF PendingWom, Portion
<1>11. PendingWom(g)' = info.claimable + Portion(w.allocPoint, c)
                          + (IF info.whitelist THEN Portion(w.voteWeight, y) ELSE 0)
  BY <1>2, <1>3, <1>4, <1>8, <1>9 DEF PendingWom, Portion
<1>12. /\ Portion(w.allocPoint, b) \in Nat /\ Portion(w.allocPoint, c) \in Nat
       /\ Portion(w.allocPoint, b) <= Portion(w.allocPoint, c)
       /\ w.allocPoint = 0 => Portion(w.allocPoint, b) = 0 /\ Portion(w.allocPoint, c) = 0
  BY <1>8, PortionFacts
<1>13. /\ Portion(w.voteWeight, v) \in Nat /\ Portion(w.voteWeight, y) \in Nat
       /\ Portion(w.voteWeight, v) <= Portion(w.voteWeight, y)
  BY <1>9, PortionFacts
<1>14. info.claimable \in Nat /\ w.allocPoint \in Nat
  BY DEF GaugeInfo
<1>15. /\ PendingWom(g) \in Nat /\ PendingWom(g)' \in Nat /\ PendingWom(g) <= PendingWom(g)'
       /\ PendingWom(g)' # PendingWom(g) =>
            ~ emission.paused /\ (info.whitelist \/ w.allocPoint > 0)
  BY <1>8, <1>9, <1>10, <1>11, <1>12, <1>13, <1>14
<1> QED BY <1>2, <1>3, <1>4, <1>15 DEF Entitled

\* No transaction moves what a gauge has earned, whatever votes, payments and
\* owner's changes it makes; a gauge earns as time passes, when it may.
THEOREM EarningsOverTime == Spec => EarnedOverTime
<1> DEFINE Step == \A g \in Gauges :
             /\ Entitled(g)' >= Entitled(g)
             /\ Entitled(g)' # Entitled(g) =>
                  /\ now' > now
                  /\ ~emission.paused
                  /\ infos[g].whitelist \/ weights[g].allocPoint > 0
<1>1. ASSUME VoterInv, VoterInv', [Next]_vars
      PROVE  Step
  <2>1. Transaction \/ Elapse
    BY <1>1, StepsCatchUp
  <2>2. now \in Nat
    BY <1>1 DEF VoterInv, TypeOK, VeWomTypeOK
  <2>3. ASSUME NEW g \in Gauges PROVE Entitled(g) \in Nat
    <3>1. PendingWom(g) \in Nat /\ paid[g] \in Nat
      BY <1>1, InvTyped, PendingParts DEF VoterInv, TypeOK
    <3> QED BY <3>1 DEF Entitled
  <2>4. CASE Transaction
    BY <1>1, <2>3, <2>4, EarnedStays
  <2>5. CASE Elapse
    <3>1. now' > now
      BY <2>2, <2>5 DEF Elapse, Tick
    <3> QED BY <1>1, <2>5, <3>1, EarnedRises
  <2> QED BY <2>1, <2>4, <2>5
<1>2. VoterInv /\ VoterInv' /\ [Next]_vars => [Step]_vars
  BY <1>1
<1> QED BY <1>2, VoterInvariance, PTL DEF Spec, EarnedOverTime
-----------------------------------------------------------------------------
(* The emission covers what the gauges earn.                               *)

\* What g has earned when the indices stand at base and vote, before any
\* rounding, in units of 1 / ACC_TOKEN_PRECISION.
EarnedAt(g, base, vote) ==
  ACC_TOKEN_PRECISION * (paid[g] + infos[g].claimable)
    + weights[g].allocPoint * (base - infos[g].supplyBaseIndex)
    + (IF infos[g].whitelist THEN weights[g].voteWeight * (vote - infos[g].supplyVoteIndex)
       ELSE 0)

\* What was earned when the indices were last brought up to date, and by now.
Accrued == [g \in Gauges |-> EarnedAt(g, index.base, index.vote)]
AccruedNow == [g \in Gauges |-> EarnedAt(g, BaseIndexNow, VoteIndexNow)]

\* The WOM emitted since then.
Emitted == IF Idle THEN 0 ELSE (now - index.lastRewardTimestamp) * emission.womPerSec

EmissionInv ==
  /\ index.lastRewardTimestamp >= StartTime
  /\ SumOver(Accrued, Gauges) + ACC_TOKEN_PRECISION * Emitted <= ACC_TOKEN_PRECISION * scheduled

\* The growth of both indices, over all weights, is within the emission.
LEMMA GrowthWithinEmission ==
  ASSUME AccrualTyped, NEW n \in Nat, NEW k \in Nat,
         n = IndexGrowth(emission.baseAllocation, totals.allocPoint),
         k = IndexGrowth(Parts - emission.baseAllocation, totals.voteWeight)
  PROVE  /\ Emitted \in Nat
         /\ n * totals.allocPoint + k * totals.voteWeight <= ACC_TOKEN_PRECISION * Emitted
<1>1. ACC_TOKEN_PRECISION \in Nat \ {0} /\ Parts \in Nat \ {0}
  BY VoterAssumption
<1>2. PICK part \in Nat : part = emission.baseAllocation
  BY VoterAssumption DEF AccrualTyped
<1>3. PICK rest \in Nat : rest = Parts - part
  BY <1>1, <1>2, VoterAssumption DEF AccrualTyped
<1>4. PICK points \in Nat : points = totals.allocPoint
  BY DEF AccrualTyped, CountsTyped
<1>5. PICK voted \in Nat : voted = totals.voteWeight
  BY DEF AccrualTyped, CountsTyped
<1>6. PICK rate \in Nat : rate = emission.womPerSec
  BY DEF AccrualTyped
<1>7. CASE Idle
  <2>1. n = 0 /\ k = 0 /\ Emitted = 0
    BY <1>7, <1>2, <1>3, <1>4, <1>5, GrowthIsRise DEF Emitted
  <2> QED BY <1>1, <1>4, <1>5, <2>1
<1>8. CASE ~ Idle
  <2>1. PICK t \in Nat : t = now - index.lastRewardTimestamp
    BY <1>8 DEF Idle, AccrualTyped
  <2>2. PICK e \in Nat : e = t * rate
    BY <1>6, <2>1, ProductNat
  <2>3. Emitted = e
    BY <1>6, <1>8, <2>1, <2>2 DEF Emitted
  <2>4. n = IF points = 0 THEN 0 ELSE Rise(t, rate, part, points)
    BY <1>2, <1>4, <1>6, <1>8, <2>1, GrowthIsRise
  <2>5. k = IF voted = 0 THEN 0 ELSE Rise(t, rate, rest, voted)
    BY <1>2, <1>3, <1>5, <1>6, <1>8, <2>1, GrowthIsRise
  <2>6. PICK x \in Nat : x = n * points
    BY <1>4, ProductNat
  <2>7. PICK y \in Nat : y = k * voted
    BY <1>5, ProductNat
  <2>8. x * Parts <= (e * part) * ACC_TOKEN_PRECISION
    <3>1. (e * part) * ACC_TOKEN_PRECISION \in Nat
      BY <1>1, ProductNat
    <3>2. CASE points = 0
      <4>1. x = 0
        BY <2>6, <3>2
      <4> QED BY <1>1, <3>1, <4>1
    <3>3. CASE points # 0
      <4>1. (points * n) * Parts <= (e * part) * ACC_TOKEN_PRECISION
        BY <2>1, <2>2, <2>4, <3>3, RiseBounds
      <4> QED BY <2>6, <4>1
    <3> QED BY <3>2, <3>3
  <2>9. y * Parts <= (e * rest) * ACC_TOKEN_PRECISION
    <3>1. (e * rest) * ACC_TOKEN_PRECISION \in Nat
      BY <1>1, ProductNat
    <3>2. CASE voted = 0
      <4>1. y = 0
        BY <2>7, <3>2
      <4> QED BY <1>1, <3>1, <4>1
    <3>3. CASE voted # 0
      <4>1. (voted * k) * Parts <= (e * rest) * ACC_TOKEN_PRECISION
        BY <2>1, <2>2, <2>5, <3>3, RiseBounds
      <4> QED BY <2>7, <4>1
    <3> QED BY <3>2, <3>3
  <2>10. PICK f \in Nat : f = ACC_TOKEN_PRECISION * e
    BY <1>1, ProductNat
  <2>11. (e * part) * ACC_TOKEN_PRECISION + (e * rest) * ACC_TOKEN_PRECISION = f * Parts
    <3>1. Parts = part + rest
      BY <1>1, <1>3
    <3>2. (e * part) * ACC_TOKEN_PRECISION + (e * rest) * ACC_TOKEN_PRECISION = f * (part + rest)
      BY <1>1, <2>10
    <3> QED BY <3>1, <3>2
  <2>12. (x + y) * Parts <= f * Parts
    <3>1. (x + y) * Parts = x * Parts + y * Parts
      BY <1>1
    <3>2. /\ x * Parts \in Nat /\ y * Parts \in Nat
          /\ (e * part) * ACC_TOKEN_PRECISION \in Nat /\ (e * rest) * ACC_TOKEN_PRECISION \in Nat
      BY <1>1, ProductNat
    <3> QED BY <2>8, <2>9, <2>11, <3>1, <3>2
  <2>13. x + y <= f
    <3>1. CASE f + 1 <= x + y
      <4>1. Parts * (f + 1) <= Parts * (x + y)
        BY <1>1, <3>1, ProductMonotone
      <4>2. Parts * (f + 1) = f * Parts + Parts /\ Parts * (x + y) = (x + y) * Parts
        BY <1>1
      <4>3. f * Parts \in Nat /\ (x + y) * Parts \in Nat
        BY <1>1, ProductNat
      <4> QED BY <1>1, <2>12, <4>1, <4>2, <4>3
    <3> QED BY <3>1
  <2> QED BY <1>4, <1>5, <2>3, <2>6, <2>7, <2>10, <2>13
<1> QED BY <1>7, <1>8
\* What a gauge has earned is a natural number, and the pending WOM, once
\* rounded, is within what it has earned by now.
LEMMA EarnedNat ==
  ASSUME AccrualTyped, IndexesCover, NEW g \in Gauges, paid[g] \in Nat
  PROVE  /\ EarnedAt(g, index.base, index.vote) \in Nat
         /\ EarnedAt(g, BaseIndexNow, VoteIndexNow) \in Nat
         /\ ACC_TOKEN_PRECISION * Entitled(g) <= EarnedAt(g, BaseIndexNow, VoteIndexNow)
         /\ Entitled(g) \in Nat
<1>1. ACC_TOKEN_PRECISION \in Nat \ {0}
  BY VoterAssumption
<1>2. PICK info \in GaugeInfo : info = infos[g]
  BY PendingParts
<1>3. PICK w \in [allocPoint : Nat, voteWeight : Nat] : w = weights[g]
  BY DEF AccrualTyped, CountsTyped
<1>4. PICK b \in Nat : b = BaseIndexNow - info.supplyBaseIndex
  BY <1>2, PendingParts
<1>5. PICK v \in Nat : v = VoteIndexNow - info.supplyVoteIndex
  BY <1>2, PendingParts
<1>6. PICK c \in Nat : c = index.base - info.supplyBaseIndex
  BY <1>2, PendingParts
<1>7. PICK y \in Nat : y = index.vote - info.supplyVoteIndex
  BY <1>2, PendingParts
<1>8. PICK claimed \in Nat : claimed = paid[g] + info.claimable
  BY DEF GaugeInfo
<1>9. PICK p \in Nat : p = Portion(w.allocPoint, b) /\ ACC_TOKEN_PRECISION * p <= w.allocPoint * b
  BY PortionFacts
<1>10. PICK q \in Nat : q = Portion(w.voteWeight, v) /\ ACC_TOKEN_PRECISION * q <= w.voteWeight * v
  BY PortionFacts
<1>11. EarnedAt(g, index.base, index.vote) = ACC_TOKEN_PRECISION * claimed + w.allocPoint * c
         + (IF info.whitelist THEN w.voteWeight * y ELSE 0)
  BY <1>2, <1>3, <1>6, <1>7, <1>8 DEF EarnedAt
<1>12. EarnedAt(g, BaseIndexNow, VoteIndexNow) = ACC_TOKEN_PRECISION * claimed + w.allocPoint * b
         + (IF info.whitelist THEN w.voteWeight * v ELSE 0)
  BY <1>2, <1>3, <1>4, <1>5, <1>8 DEF EarnedAt
<1>13. Entitled(g) = claimed + p + (IF info.whitelist THEN q ELSE 0)
  <2>1. PendingWom(g) = info.claimable + p + (IF info.whitelist THEN q ELSE 0)
    BY <1>2, <1>3, <1>4, <1>5, <1>9, <1>10, PendingParts
  <2> QED BY <1>8, <1>9, <1>10, <2>1 DEF Entitled, GaugeInfo
<1>14. /\ ACC_TOKEN_PRECISION * claimed \in Nat
       /\ w.allocPoint * b \in Nat /\ w.allocPoint * c \in Nat
       /\ w.voteWeight * v \in Nat /\ w.voteWeight * y \in Nat
       /\ ACC_TOKEN_PRECISION * p \in Nat /\ ACC_TOKEN_PRECISION * q \in Nat
  BY <1>1, ProductNat
<1>15. CASE info.whitelist
  <2>1. ACC_TOKEN_PRECISION * (claimed + p + q)
          = ACC_TOKEN_PRECISION * claimed + ACC_TOKEN_PRECISION * p + ACC_TOKEN_PRECISION * q
    BY <1>1
  <2> QED BY <1>9, <1>10, <1>11, <1>12, <1>13, <1>14, <1>15, <2>1
<1>16. CASE ~ info.whitelist
  <2>1. ACC_TOKEN_PRECISION * (claimed + p) = ACC_TOKEN_PRECISION * claimed + ACC_TOKEN_PRECISION * p
    BY <1>1
  <2> QED BY <1>9, <1>11, <1>12, <1>13, <1>14, <1>16, <2>1
<1> QED BY <1>15, <1>16

\* Since the indices were last brought up to date, all gauges together have
\* earned at most what was emitted.
LEMMA AccruedGrows ==
  ASSUME VoterInv
  PROVE  /\ SumOver(Accrued, Gauges) \in Nat /\ SumOver(AccruedNow, Gauges) \in Nat
         /\ Emitted \in Nat
         /\ SumOver(AccruedNow, Gauges)
              <= SumOver(Accrued, Gauges) + ACC_TOKEN_PRECISION * Emitted
<1>1. AccrualTyped /\ IndexesCover /\ \A g \in Gauges : paid[g] \in Nat
  BY InvTyped DEF VoterInv, TypeOK
<1>2. IsFiniteSet(Gauges) /\ ACC_TOKEN_PRECISION \in Nat
  BY VoterAssumption
<1>3. \A g \in Gauges : Accrued[g] \in Nat /\ AccruedNow[g] \in Nat
  BY <1>1, EarnedNat DEF Accrued, AccruedNow
<1>4. PICK sum \in Nat : sum = SumOver(Accrued, Gauges)
  BY <1>2, <1>3, SumNat
<1>5. PICK n \in Nat : n = IndexGrowth(emission.baseAllocation, totals.allocPoint)
  <2>1. emission.baseAllocation \in Nat /\ totals.allocPoint \in Nat
    BY <1>1, VoterAssumption DEF AccrualTyped, CountsTyped
  <2> QED BY <1>1, <2>1, GrowthNat
<1>6. PICK k \in Nat : k = IndexGrowth(Parts - emission.baseAllocation, totals.voteWeight)
  <2>1. Parts - emission.baseAllocation \in Nat /\ totals.voteWeight \in Nat
    BY <1>1, VoterAssumption DEF AccrualTyped, CountsTyped
  <2> QED BY <1>1, <2>1, GrowthNat
<1> DEFINE points == Column(weights, "allocPoint")
           voted == Column(weights, "voteWeight")
           base == [g \in Gauges |-> n * points[g]]
           vote == [g \in Gauges |-> k * voted[g]]
           grown == [g \in Gauges |-> base[g] + vote[g]]
           bound == [g \in Gauges |-> Accrued[g] + grown[g]]
<1>7. ASSUME NEW g \in Gauges
      PROVE  /\ points[g] \in Nat /\ voted[g] \in Nat
             /\ points[g] = weights[g].allocPoint /\ voted[g] = weights[g].voteWeight
             /\ base[g] \in Nat /\ vote[g] \in Nat
             /\ base[g] = n * points[g] /\ vote[g] = k * voted[g]
             /\ grown[g] = base[g] + vote[g] /\ bound[g] = Accrued[g] + grown[g]
  BY <1>1, ProductNat DEF Column, AccrualTyped, CountsTyped
<1> HIDE DEF points, voted, base, vote, grown, bound
<1>8. SumOver(base, Gauges) = n * SumOver(points, Gauges)
  <2>1. \A g \in Gauges : points[g] \in Int /\ base[g] = n * points[g]
    BY <1>7
  <2> QED BY <1>2, <2>1, SumScale
<1>9. SumOver(vote, Gauges) = k * SumOver(voted, Gauges)
  <2>1. \A g \in Gauges : voted[g] \in Int /\ vote[g] = k * voted[g]
    BY <1>7
  <2> QED BY <1>2, <2>1, SumScale
<1>10. SumOver(grown, Gauges) = SumOver(base, Gauges) + SumOver(vote, Gauges)
  <2>1. AddsUp(grown, base, vote, Gauges)
    BY <1>2, <1>7 DEF AddsUp
  <2> QED BY <2>1, SumAddsUp
<1>11. SumOver(bound, Gauges) = sum + SumOver(grown, Gauges)
  <2>1. AddsUp(bound, Accrued, grown, Gauges)
    BY <1>2, <1>3, <1>7 DEF AddsUp
  <2> QED BY <1>4, <2>1, SumAddsUp
<1>12. ASSUME NEW g \in Gauges PROVE AccruedNow[g] <= bound[g] /\ bound[g] \in Int
  <2>1. PICK w \in [allocPoint : Nat, voteWeight : Nat] : w = weights[g]
    BY <1>1 DEF AccrualTyped, CountsTyped
  <2>2. PICK info \in GaugeInfo : info = infos[g]
    BY <1>1, PendingParts
  <2>3. PICK c \in Nat : c = index.base - info.supplyBaseIndex
    BY <1>1, <2>2, PendingParts
  <2>4. PICK y \in Nat : y = index.vote - info.supplyVoteIndex
    BY <1>1, <2>2, PendingParts
  <2>5. BaseIndexNow - info.supplyBaseIndex = c + n /\ VoteIndexNow - info.supplyVoteIndex = y + k
    <3>1. index.base \in Nat /\ index.vote \in Nat
      BY <1>1 DEF AccrualTyped
    <3> QED BY <1>5, <1>6, <2>2, <2>3, <2>4, <3>1 DEF BaseIndexNow, VoteIndexNow, GaugeInfo
  <2>6. PICK claimed \in Nat : claimed = ACC_TOKEN_PRECISION * (paid[g] + info.claimable)
    BY <1>1, <1>2, ProductNat DEF GaugeInfo
  <2>7. Accrued[g] = claimed + w.allocPoint * c + (IF info.whitelist THEN w.voteWeight * y ELSE 0)
    BY <2>1, <2>2, <2>3, <2>4, <2>6 DEF Accrued, EarnedAt
  <2>8. AccruedNow[g] = claimed + w.allocPoint * (c + n)
                          + (IF info.whitelist THEN w.voteWeight * (y + k) ELSE 0)
    BY <2>1, <2>2, <2>5, <2>6 DEF AccruedNow, EarnedAt
  <2>9. /\ w.allocPoint * (c + n) = w.allocPoint * c + n * w.allocPoint
        /\ w.voteWeight * (y + k) = w.voteWeight * y + k * w.voteWeight
    OBVIOUS
  <2>10. bound[g] = Accrued[g] + n * w.allocPoint + k * w.voteWeight
    BY <1>3, <1>7, <2>1
  <2>11. /\ n * w.allocPoint \in Nat /\ k * w.voteWeight \in Nat
         /\ w.allocPoint * c \in Nat /\ w.voteWeight * y \in Nat
    BY ProductNat
  <2> QED BY <1>3, <2>6, <2>7, <2>8, <2>9, <2>10, <2>11
<1>13. SumOver(AccruedNow, Gauges) <= SumOver(bound, Gauges)
  <2>1. \A g \in Gauges : AccruedNow[g] \in Int /\ bound[g] \in Int /\ AccruedNow[g] <= bound[g]
    BY <1>3, <1>12
  <2> QED BY <1>2, <2>1, SumLe
<1>14. totals.allocPoint = SumOver(points, Gauges) /\ totals.voteWeight = SumOver(voted, Gauges)
  BY DEF VoterInv, VotesAgree, points, voted
<1>15. /\ Emitted \in Nat
       /\ n * totals.allocPoint + k * totals.voteWeight <= ACC_TOKEN_PRECISION * Emitted
  BY <1>1, <1>5, <1>6, GrowthWithinEmission
<1>16. PICK earned \in Nat : earned = SumOver(AccruedNow, Gauges)
  BY <1>2, <1>3, SumNat
<1>17. PICK x \in Nat : x = n * totals.allocPoint + k * totals.voteWeight
  <2>1. totals.allocPoint \in Nat /\ totals.voteWeight \in Nat
    BY <1>1 DEF AccrualTyped, CountsTyped
  <2> QED BY <2>1, ProductNat
<1>18. SumOver(bound, Gauges) = sum + x
  BY <1>8, <1>9, <1>10, <1>11, <1>14, <1>17
<1>19. ACC_TOKEN_PRECISION * Emitted \in Nat
  BY <1>2, <1>15, ProductNat
<1> QED BY <1>4, <1>13, <1>15, <1>16, <1>17, <1>18, <1>19
\* A transaction does not add to what was earned by now.
LEMMA AccruedStays ==
  ASSUME VoterInv, VoterInv', Transaction, index' = DistributedIndex, NEW g \in Gauges
  PROVE  Accrued'[g] <= AccruedNow[g]
<1>1. /\ AccrualTyped /\ IndexesCover /\ paid[g] \in Nat /\ paid'[g] \in Nat
      /\ AccrualTyped' /\ IndexesCover'
  BY InvTyped DEF VoterInv, TypeOK, VeWomTypeOK, AccrualTyped, CountsTyped
<1>2. ACC_TOKEN_PRECISION \in Nat \ {0}
  BY VoterAssumption
<1>3. PICK w \in [allocPoint : Nat, voteWeight : Nat] : w = weights'[g]
  BY <1>1 DEF AccrualTyped, CountsTyped
<1>4. PICK info \in GaugeInfo : info = infos'[g]
  BY <1>1 DEF AccrualTyped
<1>5. /\ index'.base = BaseIndexNow /\ index'.vote = VoteIndexNow
      /\ BaseIndexNow \in Nat /\ VoteIndexNow \in Nat
  BY <1>1, IndicesGrow DEF DistributedIndex
<1>6. PICK b \in Nat : b = BaseIndexNow - info.supplyBaseIndex
  BY <1>1, <1>4, <1>5 DEF IndexesCover, GaugeInfo
<1>7. PICK v \in Nat : v = VoteIndexNow - info.supplyVoteIndex
  BY <1>1, <1>4, <1>5 DEF IndexesCover, GaugeInfo
<1>8. PICK claimed \in Nat : claimed = paid'[g] + info.claimable
  BY <1>1 DEF GaugeInfo
<1>9. Accrued'[g] = ACC_TOKEN_PRECISION * claimed + w.allocPoint * b
                      + (IF info.whitelist THEN w.voteWeight * v ELSE 0)
  BY <1>3, <1>4, <1>5, <1>6, <1>7, <1>8 DEF Accrued, EarnedAt
<1>10. CASE Carried(g)
  <2>1. AccruedNow[g] = ACC_TOKEN_PRECISION * claimed + w.allocPoint * b
                          + (IF infos[g].whitelist THEN w.voteWeight * v ELSE 0)
    BY <1>3, <1>4, <1>6, <1>7, <1>8, <1>10 DEF AccruedNow, EarnedAt, Carried
  <2>2. info.whitelist = infos[g].whitelist \/ w.voteWeight * v = 0
    BY <1>3, <1>4, <1>10 DEF Carried
  <2>3. ACC_TOKEN_PRECISION * claimed \in Nat /\ w.allocPoint * b \in Nat /\ w.voteWeight * v \in Nat
    BY <1>2, ProductNat
  <2> QED BY <1>9, <2>1, <2>2, <2>3
<1>11. CASE CaughtUp(g)
  <2>1. b = 0 /\ v = 0
    BY <1>4, <1>5, <1>6, <1>7, <1>11 DEF CaughtUp
  <2>2. claimed = Entitled(g)
    BY <1>4, <1>8, <1>11 DEF CaughtUp, Entitled
  <2>3. ACC_TOKEN_PRECISION * claimed <= AccruedNow[g]
    BY <1>1, <2>2, EarnedNat DEF AccruedNow
  <2>4. ACC_TOKEN_PRECISION * claimed \in Nat /\ w.allocPoint * b = 0 /\ w.voteWeight * v = 0
    BY <1>2, <2>1, ProductNat
  <2> QED BY <1>9, <2>3, <2>4
<1> QED BY <1>10, <1>11 DEF Transaction

LEMMA EmissionInit == Init => EmissionInv
<1> SUFFICES ASSUME Init PROVE EmissionInv
  OBVIOUS
<1>1. IsFiniteSet(Gauges) /\ ACC_TOKEN_PRECISION \in Nat /\ StartTime \in Nat
  BY VoterAssumption
<1>2. Emitted = 0 /\ scheduled = 0 /\ index.lastRewardTimestamp = StartTime
  BY <1>1 DEF Init, VeWomInit, Emitted, Idle
<1>3. \A g \in Gauges : Accrued[g] = 0
  BY <1>1 DEF Init, Accrued, EarnedAt
<1>4. SumOver(Accrued, Gauges) = 0
  BY <1>1, <1>3, SumZero
<1> QED BY <1>1, <1>2, <1>4 DEF EmissionInv

LEMMA EmissionStep ==
  ASSUME VoterInv, VoterInv', EmissionInv, [Next]_vars
  PROVE  EmissionInv'
<1>1. Transaction \/ Elapse
  BY StepsCatchUp
<1>2. /\ AccrualTyped /\ ACC_TOKEN_PRECISION \in Nat /\ StartTime \in Nat
      /\ now \in Nat /\ index.lastRewardTimestamp \in Nat /\ scheduled \in Nat
      /\ emission.womPerSec \in Nat
  BY InvTyped, VoterAssumption DEF AccrualTyped, VoterInv, TypeOK
<1>3. PICK sum \in Nat : sum = SumOver(Accrued, Gauges)
  BY AccruedGrows
<1>4. PICK e \in Nat : e = Emitted
  BY AccruedGrows
<1>5. sum + ACC_TOKEN_PRECISION * e <= ACC_TOKEN_PRECISION * scheduled
  BY <1>3, <1>4 DEF EmissionInv
<1>6. ASSUME Transaction, index' = DistributedIndex
      PROVE  EmissionInv'
  <2>1. index'.lastRewardTimestamp >= now /\ index'.lastRewardTimestamp >= StartTime
    <3>1. DistributedIndex.lastRewardTimestamp = Max({now, index.lastRewardTimestamp})
      BY DEF DistributedIndex
    <3>2. /\ Max({now, index.lastRewardTimestamp}) \in {now, index.lastRewardTimestamp}
          /\ Max({now, index.lastRewardTimestamp}) >= now
          /\ Max({now, index.lastRewardTimestamp}) >= index.lastRewardTimestamp
      <4>1. PICK n \in Nat : n = now
        BY <1>2
      <4>2. PICK last \in Nat : last = index.lastRewardTimestamp
        BY <1>2
      <4>3. Max({n, last}) \in {n, last} /\ Max({n, last}) >= n /\ Max({n, last}) >= last
        BY MaxOfTwo
      <4> QED BY <4>1, <4>2, <4>3
    <3>3. index.lastRewardTimestamp >= StartTime
      BY DEF EmissionInv
    <3> QED BY <1>2, <1>6, <3>1, <3>2, <3>3
  <2>2. Emitted' = 0 /\ scheduled' = scheduled
    BY <1>6, <2>1 DEF Transaction, Emitted, Idle
  <2>3. PICK old \in Nat : old = SumOver(AccruedNow, Gauges)
                           /\ old <= sum + ACC_TOKEN_PRECISION * e
    BY <1>3, <1>4, AccruedGrows
  <2>4. PICK new \in [Gauges -> Nat] : new = Accrued'
    <3>1. ASSUME NEW g \in Gauges PROVE EarnedAt(g, index.base, index.vote)' \in Nat
      <4>1. PICK w \in [allocPoint : Nat, voteWeight : Nat] : w = weights'[g]
        BY DEF VoterInv, TypeOK
      <4>2. PICK info \in GaugeInfo : info = infos'[g]
        BY DEF VoterInv, TypeOK
      <4>3. paid'[g] \in Nat /\ index'.base \in Nat /\ index'.vote \in Nat
        BY DEF VoterInv, TypeOK
      <4>4. PICK c \in Nat : c = index'.base - info.supplyBaseIndex
        BY <4>2, <4>3 DEF VoterInv, IndexesCover, GaugeInfo
      <4>5. PICK y \in Nat : y = index'.vote - info.supplyVoteIndex
        BY <4>2, <4>3 DEF VoterInv, IndexesCover, GaugeInfo
      <4>6. PICK claimed \in Nat : claimed = paid'[g] + info.claimable
        BY <4>3 DEF GaugeInfo
      <4>7. EarnedAt(g, index.base, index.vote)' = ACC_TOKEN_PRECISION * claimed + w.allocPoint * c
              + (IF info.whitelist THEN w.voteWeight * y ELSE 0)
        BY <4>1, <4>2, <4>4, <4>5, <4>6 DEF EarnedAt
      <4>8. ACC_TOKEN_PRECISION * claimed \in Nat /\ w.allocPoint * c \in Nat /\ w.voteWeight * y \in Nat
        BY <1>2, ProductNat
      <4> QED BY <4>7, <4>8
    <3> QED BY <3>1 DEF Accrued
  <2>5. SumOver(new, Gauges) <= old
    <3>1. \A g \in Gauges : AccruedNow[g] \in Int
      BY InvTyped, EarnedNat DEF VoterInv, TypeOK, AccruedNow
    <3>2. \A g \in Gauges : new[g] \in Int /\ AccruedNow[g] \in Int /\ new[g] <= AccruedNow[g]
      BY <1>6, <2>4, <3>1, AccruedStays
    <3> QED BY <2>3, <3>2, SumLe, VoterAssumption
  <2>6. SumOver(new, Gauges) \in Nat
    BY <2>4, SumNat, VoterAssumption
  <2>7. ACC_TOKEN_PRECISION * e \in Nat /\ ACC_TOKEN_PRECISION * scheduled \in Nat
        /\ ACC_TOKEN_PRECISION * 0 = 0
    BY <1>2, ProductNat
  <2>8. SumOver(new, Gauges) + ACC_TOKEN_PRECISION * 0 <= ACC_TOKEN_PRECISION * scheduled
    BY <1>5, <2>3, <2>5, <2>6, <2>7
  <2> QED BY <2>1, <2>2, <2>4, <2>8 DEF EmissionInv
<1>7. ASSUME Transaction, index' # DistributedIndex
      PROVE  EmissionInv'
  <2>1. index' = index /\ emission' = emission /\ now' = now /\ scheduled' = scheduled
    BY <1>7 DEF Transaction
  <2>2. Emitted' = e
    BY <1>4, <2>1 DEF Emitted, Idle
  <2>3. PICK new : new = Accrued'
    OBVIOUS
  <2>4. ASSUME NEW g \in Gauges PROVE new[g] = Accrued[g]
    <3>1. Carried(g)
      BY <1>7 DEF Transaction, CaughtUp
    <3>2. weights'[g].voteWeight = 0 \/ infos'[g].whitelist = infos[g].whitelist
      BY <3>1 DEF Carried
    <3>3. weights[g].voteWeight * (index.vote - infos[g].supplyVoteIndex) = 0
            \/ infos'[g].whitelist = infos[g].whitelist
      <4>1. index.vote - infos[g].supplyVoteIndex \in Nat
        BY InvTyped, PendingParts
      <4> QED BY <3>1, <3>2, <4>1 DEF Carried
    <3> QED BY <2>1, <2>3, <3>1, <3>3 DEF Accrued, EarnedAt, Carried
  <2>5. SumOver(new, Gauges) = sum
    BY <1>3, <2>4, SumSame, VoterAssumption
  <2> QED BY <1>5, <2>1, <2>2, <2>3, <2>5 DEF EmissionInv
<1>8. ASSUME Elapse
      PROVE  EmissionInv'
  <2>1. index' = index /\ emission' = emission /\ now' = now + 1 /\ Accrued' = Accrued
    BY <1>8 DEF Elapse, Tick, accrualVars, Accrued, EarnedAt
  <2>2. PICK d \in Nat : d = IF emission.paused \/ now < StartTime THEN 0 ELSE emission.womPerSec
    BY <1>2
  <2>3. scheduled' = scheduled + d
    BY <1>8, <2>2 DEF Elapse
  <2>4. PICK f \in Nat : f = Emitted' /\ f <= e + d
    <3>1. CASE Idle'
      BY <3>1 DEF Emitted
    <3>2. CASE ~ Idle'
      <4>1. /\ index.lastRewardTimestamp < now + 1 /\ ~ emission.paused
            /\ index.lastRewardTimestamp >= StartTime
        BY <1>2, <2>1, <3>2 DEF Idle, EmissionInv
      <4>2. d = emission.womPerSec
        BY <1>2, <2>2, <4>1
      <4>3. PICK t \in Nat : t = now - index.lastRewardTimestamp
        BY <1>2, <4>1
      <4>4. e = t * d
        BY <1>2, <1>4, <4>1, <4>2, <4>3 DEF Emitted, Idle
      <4>5. Emitted' = (t + 1) * d
        <5>1. now' - index'.lastRewardTimestamp = t + 1
          BY <1>2, <2>1, <4>3
        <5> QED BY <2>1, <3>2, <4>2, <5>1 DEF Emitted
      <4>6. (t + 1) * d = e + d
        BY <4>4
      <4> QED BY <4>5, <4>6
    <3> QED BY <3>1, <3>2
  <2>5. ACC_TOKEN_PRECISION * f <= ACC_TOKEN_PRECISION * (e + d)
    <3>1. PICK s \in Nat : s = e + d
      OBVIOUS
    <3>2. ACC_TOKEN_PRECISION * f <= ACC_TOKEN_PRECISION * s
      BY <1>2, <2>4, <3>1, ProductMonotone
    <3> QED BY <3>1, <3>2
  <2>6. /\ ACC_TOKEN_PRECISION * (e + d) = ACC_TOKEN_PRECISION * e + ACC_TOKEN_PRECISION * d
        /\ ACC_TOKEN_PRECISION * (scheduled + d)
             = ACC_TOKEN_PRECISION * scheduled + ACC_TOKEN_PRECISION * d
    BY <1>2
  <2>7. /\ ACC_TOKEN_PRECISION * e \in Nat /\ ACC_TOKEN_PRECISION * d \in Nat
        /\ ACC_TOKEN_PRECISION * f \in Nat /\ ACC_TOKEN_PRECISION * scheduled \in Nat
    BY <1>2, ProductNat
  <2>8. sum + ACC_TOKEN_PRECISION * f <= ACC_TOKEN_PRECISION * (scheduled + d)
    BY <1>5, <2>5, <2>6, <2>7
  <2> QED BY <1>3, <2>1, <2>3, <2>4, <2>8 DEF EmissionInv
<1> QED BY <1>1, <1>6, <1>7, <1>8

\* All gauges together never earn more than the schedule allowed, whatever
\* the owner does to rates, partitions, points and pauses in between.
THEOREM EmissionBounded == Spec => []NoOverEmission
<1>1. ASSUME VoterInv, EmissionInv PROVE NoOverEmission
  <2>1. IsFiniteSet(Gauges) /\ ACC_TOKEN_PRECISION \in Nat \ {0}
    BY VoterAssumption
  <2> DEFINE earned == [g \in Gauges |-> Entitled(g)]
             scaled == [g \in Gauges |-> ACC_TOKEN_PRECISION * earned[g]]
  <2>2. ASSUME NEW g \in Gauges
        PROVE  /\ earned[g] \in Nat /\ scaled[g] = ACC_TOKEN_PRECISION * earned[g]
               /\ AccruedNow[g] \in Nat /\ scaled[g] <= AccruedNow[g]
    BY <1>1, InvTyped, EarnedNat DEF VoterInv, TypeOK, AccruedNow
  <2>3. NoOverEmission = (SumOver(earned, Gauges) <= scheduled)
    BY DEF NoOverEmission
  <2> HIDE DEF earned, scaled
  <2>4. SumOver(scaled, Gauges) = ACC_TOKEN_PRECISION * SumOver(earned, Gauges)
    BY <2>1, <2>2, SumScale
  <2>5. SumOver(scaled, Gauges) <= SumOver(AccruedNow, Gauges)
    <3>1. \A g \in Gauges : scaled[g] \in Int /\ AccruedNow[g] \in Int /\ scaled[g] <= AccruedNow[g]
      BY <2>1, <2>2
    <3> QED BY <2>1, <3>1, SumLe
  <2>6. PICK n \in Nat : n = SumOver(earned, Gauges)
    BY <2>1, <2>2, SumNat
  <2>7. scheduled \in Nat
    BY <1>1 DEF VoterInv, TypeOK
  <2>8. ACC_TOKEN_PRECISION * n <= ACC_TOKEN_PRECISION * scheduled
    <3>1. /\ SumOver(Accrued, Gauges) \in Nat /\ SumOver(AccruedNow, Gauges) \in Nat
          /\ SumOver(AccruedNow, Gauges)
              <= SumOver(Accrued, Gauges) + ACC_TOKEN_PRECISION * Emitted
          /\ Emitted \in Nat
      BY <1>1, AccruedGrows
    <3>2. SumOver(Accrued, Gauges) + ACC_TOKEN_PRECISION * Emitted <= ACC_TOKEN_PRECISION * scheduled
      BY <1>1 DEF EmissionInv
    <3>3. /\ ACC_TOKEN_PRECISION * Emitted \in Nat /\ ACC_TOKEN_PRECISION * n \in Nat
          /\ ACC_TOKEN_PRECISION * scheduled \in Nat
      BY <2>1, <2>7, <3>1, ProductNat
    <3> QED BY <2>4, <2>5, <2>6, <3>1, <3>2, <3>3
  <2>9. ASSUME scheduled + 1 <= n PROVE FALSE
    <3>1. ACC_TOKEN_PRECISION * (scheduled + 1) <= ACC_TOKEN_PRECISION * n
      BY <2>1, <2>7, <2>9, ProductMonotone
    <3>2. ACC_TOKEN_PRECISION * (scheduled + 1) = ACC_TOKEN_PRECISION * scheduled + ACC_TOKEN_PRECISION
      BY <2>1, <2>7
    <3>3. ACC_TOKEN_PRECISION * scheduled \in Nat /\ ACC_TOKEN_PRECISION * n \in Nat
      BY <2>1, <2>7, ProductNat
    <3> QED BY <2>1, <2>8, <3>1, <3>2, <3>3
  <2>10. n <= scheduled
    BY <2>6, <2>7, <2>9
  <2> QED BY <2>3, <2>6, <2>10
<1>2. VoterInv /\ VoterInv' /\ EmissionInv /\ [Next]_vars => EmissionInv'
  BY EmissionStep
<1> QED BY <1>1, <1>2, EmissionInit, VoterInvariance, PTL DEF Spec
=============================================================================
