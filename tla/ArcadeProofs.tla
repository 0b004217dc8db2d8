----------------------------- MODULE ArcadeProofs -----------------------------
(***************************************************************************)
(* Proofs about the whole contract, for any players, games, times, fees    *)
(* and reward configurations.                                              *)
(*                                                                         *)
(*   1. the reward engine, the amounts of a day: what is computed for a    *)
(*      winner is an amount, and no finalization hands out more than the   *)
(*      pool it found                                                      *)
(*   2. the types of every record, and the streaks and boards that each    *)
(*      message keeps                                                      *)
(*   3. the games that count: no more results and runs than were paid for  *)
(*   4. the points a player ever earned                                    *)
(*   5. money: tokens are never created, the games keep the books, and the *)
(*      seasonal pools are escrows                                         *)
(*   6. the daily competition by itself                                    *)
(***************************************************************************)
EXTENDS Arcade, SumProofs, TLAPS

-----------------------------------------------------------------------------
(***************************************************************************)
(* The reward engine: every rank that is rewarded is in one of the tiers,  *)
(* and what it receives is an amount.                                      *)
(***************************************************************************)
LEMMA TierShape ==
  ASSUME NEW c \in RewardConfig
  PROVE  /\ Len(c.tiers) \in Nat /\ DOMAIN c.tiers = 1 .. Len(c.tiers)
         /\ \A k \in 1 .. Len(c.tiers) :
              /\ c.tiers[k].size \in Nat /\ c.tiers[k].share \in Nat
              /\ c.tiers[k].kind \in {"exponential", "linear", "equal"}
<1>1. c.tiers \in Seq(Tier)
  BY DEF RewardConfig
<1>2. \A k \in 1 .. Len(c.tiers) : c.tiers[k] \in Tier
  BY <1>1
<1>. QED BY <1>1, <1>2 DEF Tier

LEMMA TierSizeNat ==
  ASSUME NEW c \in RewardConfig, NEW n \in Nat, NEW k \in 1 .. Len(c.tiers)
  PROVE  TierSize(c, n, k) \in Nat
<1>. DEFINE share == (n * c.tiers[k].size) \div 100
<1>1. c.tiers[k].size \in Nat
  BY TierShape
<1>2. n * c.tiers[k].size \in Nat
  BY <1>1
<1>3. share \in Nat
  BY <1>2
<1>4. TierSize(c, n, k) = Max({1, share})
  BY DEF TierSize
<1>5. 1 \in Int
  OBVIOUS
<1>. HIDE DEF share
<1>6. Max({1, share}) \in Nat
  BY <1>3, <1>5, MaxNat, Zenon
<1>. QED BY <1>4, <1>6

LEMMA WinnersNat ==
  ASSUME NEW c \in RewardConfig, NEW n \in Nat
  PROVE  TotalWinners(c, n) \in Nat /\ Min({n, TotalWinners(c, n)}) \in Nat
<1>. DEFINE share == (n * c.reward) \div 100
            lo == c.minWinners
            hi == c.maxWinners
<1>1. lo \in Nat /\ hi \in Nat /\ c.reward \in Nat
  BY DEF RewardConfig
<1>2. n * c.reward \in Nat
  BY <1>1
<1>3. share \in Nat
  BY <1>2
<1>4. TotalWinners(c, n) = Min({hi, Max({lo, share})})
  BY DEF TotalWinners
<1>. HIDE DEF share, lo, hi
<1>5. Max({lo, share}) \in Nat
  <2>1. lo \in Int
    BY <1>1
  <2>. QED BY <1>3, <2>1, MaxNat, Zenon
<1>6. TotalWinners(c, n) \in Nat
  BY <1>1, <1>4, <1>5, MinNat, Zenon
<1>. QED BY <1>6, MinNat, Zenon

LEMMA LastRankNat ==
  ASSUME NEW c \in RewardConfig, NEW n \in Nat, NEW k \in 0 .. Len(c.tiers)
  PROVE  LastRank(c, n, k) \in Nat /\ LastRank(c, n, 0) = 0
<1>. DEFINE w == Min({n, TotalWinners(c, n)})
            sizes(m) == [j \in 1 .. m |-> TierSize(c, n, j)]
<1>1. w \in Nat
  BY WinnersNat
<1>2. SumOver(sizes(k), 1 .. k) \in Nat
  <2>1. Len(c.tiers) \in Nat
    BY TierShape
  <2>2. \A j \in 1 .. k : sizes(k)[j] \in Nat
    BY <2>1, TierSizeNat
  <2>3. IsFiniteSet(1 .. k)
    BY <2>1, FS_Interval
  <2>. HIDE DEF sizes
  <2>. QED BY <2>2, <2>3, SumNat
<1>3. LastRank(c, n, k) \in Nat
  <2>. DEFINE all == SumOver(sizes(k), 1 .. k)
  <2>1. LastRank(c, n, k) = Min({w, all})
    BY DEF LastRank, EndRank
  <2>. HIDE DEF w, all
  <2>2. all \in Nat
    BY <1>2 DEF all
  <2>. QED BY <1>1, <2>1, <2>2, MinNat, Zenon
<1>4. LastRank(c, n, 0) = 0
  <2>1. 1 .. 0 = {}
    OBVIOUS
  <2>2. SumOver(sizes(0), {}) = 0
    BY SumEmpty
  <2>3. SumOver(sizes(0), 1 .. 0) = 0
    BY <2>1, <2>2
  <2>4. LastRank(c, n, 0) = Min({w, 0})
    BY <2>3 DEF LastRank, EndRank
  <2>. HIDE DEF w, sizes
  <2>5. Min({w, 0}) \in Nat /\ Min({w, 0}) <= 0
    <3>1. 0 \in Nat
      OBVIOUS
    <3>. QED BY <1>1, <3>1, MinNat, Zenon
  <2>. QED BY <2>4, <2>5
<1>. QED BY <1>3, <1>4

\* A rewarded rank is in a tier: the first that reaches it.
LEMMA TierOfRank ==
  ASSUME NEW c \in RewardConfig, NEW n \in Nat, NEW r \in RewardedRanks(c, n)
  PROVE  TierOf(c, n, r) \in DOMAIN c.tiers /\ r \in RanksOf(c, n, TierOf(c, n, r))
<1>. DEFINE L == Len(c.tiers)
            B == {k \in 1 .. L : r <= LastRank(c, n, k)}
<1>1. L \in Nat /\ DOMAIN c.tiers = 1 .. L
  BY TierShape
<1>2. \A k \in 0 .. L : LastRank(c, n, k) \in Nat
  BY LastRankNat
<1>3. r \in Nat /\ 1 <= r /\ r <= LastRank(c, n, L)
  BY <1>1, <1>2 DEF RewardedRanks
<1>4. L # 0
  BY <1>1, <1>3, LastRankNat
<1>5. B \subseteq Nat /\ B # {}
  BY <1>1, <1>3, <1>4
<1>6. PICK m \in B : \A k \in B : m <= k
  <2>. HIDE DEF B
  <2>. QED BY <1>5, LeastNat
<1>7. m \in 1 .. L /\ r <= LastRank(c, n, m) /\ m - 1 \in 0 .. L
  BY <1>1, <1>6
<1>8. LastRank(c, n, m - 1) < r
  <2>1. CASE m = 1
    BY <1>1, <1>3, <2>1, LastRankNat
  <2>2. CASE m # 1
    <3>1. m - 1 \in 1 .. L /\ m - 1 \notin B
      BY <1>1, <1>6, <1>7, <2>2
    <3>2. LastRank(c, n, m - 1) \in Nat
      BY <1>2, <1>7
    <3>. QED BY <1>3, <3>1, <3>2
  <2>. QED BY <2>1, <2>2
<1>9. r \in RanksOf(c, n, m) /\ m \in DOMAIN c.tiers
  <2>1. LastRank(c, n, m - 1) \in Nat /\ LastRank(c, n, m) \in Nat
    BY <1>1, <1>2, <1>7
  <2>. QED BY <1>1, <1>3, <1>7, <1>8, <2>1 DEF RanksOf
<1>. QED BY <1>9 DEF TierOf

LEMMA WeightPositive ==
  ASSUME NEW kind \in {"exponential", "linear", "equal"}, NEW last \in Nat, NEW r \in 1 .. last
  PROVE  Weight(kind, last, r) \in Nat /\ Weight(kind, last, r) > 0
<1>1. last - r + 1 \in Nat /\ last - r + 1 > 0
  OBVIOUS
<1>2. \A x \in Nat : x > 0 => x * x \in Nat /\ x * x > 0
  OBVIOUS
<1>. QED BY <1>1, <1>2 DEF Weight

LEMMA TierRewardNat ==
  ASSUME NEW c \in RewardConfig, NEW n \in Nat, NEW amount \in Nat,
         NEW k \in DOMAIN c.tiers, NEW r \in RanksOf(c, n, k)
  PROVE  TierReward(c, n, amount, k, r) \in Nat
<1>. DEFINE ranks == RanksOf(c, n, k)
            last == LastRank(c, n, k)
            weight == [q \in ranks |-> Weight(c.tiers[k].kind, last, q)]
            weights == SumOver(weight, ranks)
            tierPool == (amount * c.tiers[k].share) \div 10000
<1>1. /\ k \in 1 .. Len(c.tiers) /\ Len(c.tiers) \in Nat
      /\ c.tiers[k].share \in Nat /\ c.tiers[k].kind \in {"exponential", "linear", "equal"}
  BY TierShape
<1>2. last \in Nat /\ LastRank(c, n, k - 1) \in Nat
  <2>1. k \in 0 .. Len(c.tiers) /\ k - 1 \in 0 .. Len(c.tiers)
    BY <1>1
  <2>. QED BY <2>1, LastRankNat
<1>3. IsFiniteSet(ranks) /\ \A q \in ranks : q \in 1 .. last
  <2>1. IsFiniteSet(LastRank(c, n, k - 1) + 1 .. last)
    BY <1>2, FS_Interval
  <2>. QED BY <1>2, <2>1 DEF RanksOf
<1>4. \A q \in ranks : weight[q] \in Nat /\ weight[q] > 0
  <2>. HIDE DEF last
  <2>1. \A q \in ranks : /\ Weight(c.tiers[k].kind, last, q) \in Nat
                         /\ Weight(c.tiers[k].kind, last, q) > 0
    <3>. HIDE DEF ranks
    <3>. QED BY <1>1, <1>2, <1>3, WeightPositive
  <2>. QED BY <2>1
<1>5. weights \in Nat /\ weight[r] <= weights
  <2>. HIDE DEF ranks, weight
  <2>1. r \in ranks
    BY DEF ranks
  <2>. QED BY <1>3, <1>4, <2>1, SumNat
<1>6. weights > 0 /\ weight[r] \in Nat
  <2>1. r \in ranks
    OBVIOUS
  <2>. HIDE DEF ranks, weight, weights
  <2>. QED BY <1>4, <1>5, <2>1
<1>7. tierPool \in Nat
  <2>1. amount * c.tiers[k].share \in Nat
    BY <1>1
  <2>. QED BY <2>1
<1>8. (tierPool * weight[r]) \div weights \in Nat
  <2>. HIDE DEF tierPool, weight, weights
  <2>1. tierPool * weight[r] \in Nat
    BY <1>6, <1>7
  <2>. QED BY <1>5, <1>6, <2>1
<1>. QED BY <1>8 DEF TierReward

\* What a rank receives is an amount.
LEMMA RewardsNat ==
  ASSUME NEW c \in RewardConfig, NEW n \in Nat, NEW amount \in Nat,
         NEW r \in RewardedRanks(c, n)
  PROVE  r \in Nat /\ Rewards(c, n, amount)[r] \in Nat
<1>. DEFINE paid == RewardedRanks(c, n)
            base == [q \in paid |-> TierReward(c, n, amount, TierOf(c, n, q), q)]
            rest == Max({0, amount - SumOver(base, paid)})
<1>1. \A q \in paid : base[q] \in Nat
  BY TierOfRank, TierRewardNat
<1>2. IsFiniteSet(paid) /\ paid \subseteq Nat
  <2>1. Len(c.tiers) \in Nat
    BY TierShape
  <2>2. LastRank(c, n, Len(c.tiers)) \in Nat
    BY <2>1, LastRankNat
  <2>. QED BY <2>2, FS_Interval, FS_EmptySet DEF RewardedRanks
<1>3. SumOver(base, paid) \in Int
  <2>1. \A q \in paid : base[q] \in Int
    BY <1>1
  <2>2. IsFiniteSet(paid)
    BY <1>2
  <2>. HIDE DEF base, paid
  <2>. QED BY <2>1, <2>2, SumInt
<1>4. rest \in Nat
  <2>. DEFINE left == amount - SumOver(base, paid)
  <2>1. left \in Int
    BY <1>3
  <2>2. rest = Max({0, left})
    OBVIOUS
  <2>. HIDE DEF left, rest
  <2>3. 0 \in Nat
    OBVIOUS
  <2>. QED BY <2>1, <2>2, <2>3, MaxNat, Zenon
<1>5. Rewards(c, n, amount) = [base EXCEPT ![1] = @ + rest]
  BY DEF Rewards
<1>6. [base EXCEPT ![1] = @ + rest][r] \in Nat
  <2>1. CASE r = 1
    BY <1>1, <1>4, <2>1
  <2>2. CASE r # 1
    BY <1>1, <2>2
  <2>. QED BY <2>1, <2>2
<1>. QED BY <1>2, <1>5, <1>6

-----------------------------------------------------------------------------
(***************************************************************************)
(* The amounts of a day.  Rounded shares of a total never add up to more   *)
(* than the total, so what the last rank receives is an amount; and as the *)
(* ranks of the eligible entries are different and without a gap, a        *)
(* summary distributes the total, or nothing.                              *)
(***************************************************************************)
Ranks == 1 .. Len(PayoutBps)

LEMMA PayoutShape ==
  /\ Len(PayoutBps) \in Nat
  /\ \A k \in Ranks : PayoutBps[k] \in Nat
  /\ IsFiniteSet(Ranks)
<1>1. PayoutBps \in Seq(Nat)
  BY DailyAssumption
<1>2. Len(PayoutBps) \in Nat /\ \A k \in 1 .. Len(PayoutBps) : PayoutBps[k] \in Nat
  BY <1>1
<1>. QED BY <1>2, FS_Interval DEF Ranks

LEMMA UpToRank ==
  ASSUME NEW n \in 0 .. Len(PayoutBps)
  PROVE  /\ n \in Nat /\ 1 .. n \subseteq Ranks /\ IsFiniteSet(1 .. n)
         /\ 1 .. n - 1 \subseteq Ranks /\ IsFiniteSet(1 .. n - 1)
         /\ UsedBps(n) \in Nat /\ SumOver(PayoutBps, 1 .. n - 1) \in Nat
<1>1. n \in Nat /\ 1 .. n \subseteq Ranks /\ 1 .. n - 1 \subseteq Ranks
  BY PayoutShape DEF Ranks
<1>2. IsFiniteSet(1 .. n) /\ IsFiniteSet(1 .. n - 1)
  BY <1>1, PayoutShape, FS_Subset
<1>3. (\A k \in 1 .. n : PayoutBps[k] \in Nat) /\ (\A k \in 1 .. n - 1 : PayoutBps[k] \in Nat)
  BY <1>1, PayoutShape
<1>4. SumOver(PayoutBps, 1 .. n) \in Nat
  BY <1>2, <1>3, SumNat
<1>5. SumOver(PayoutBps, 1 .. n - 1) \in Nat
  BY <1>2, <1>3, SumNat
<1>. QED BY <1>1, <1>2, <1>4, <1>5 DEF UsedBps

\* Of a share that is rounded down, as many as there are basis points are no more
\* than the total takes.
LEMMA ShareNat ==
  ASSUME NEW total \in Nat, NEW n \in 0 .. Len(PayoutBps), NEW k \in Ranks
  PROVE  /\ RankShare(total, k, n) \in Nat
         /\ UsedBps(n) * RankShare(total, k, n) <= total * PayoutBps[k]
<1>. DEFINE U == UsedBps(n)
            b == PayoutBps[k]
            t == total * b
<1>1. U \in Nat /\ b \in Nat
  BY UpToRank, PayoutShape
<1>2. t \in Nat
  BY <1>1
<1>3. CASE b = 0 \/ U = 0
  <2>1. RankShare(total, k, n) = 0
    BY <1>3 DEF RankShare
  <2>2. U * 0 = 0
    BY <1>1
  <2>. HIDE DEF U, t
  <2>. QED BY <1>2, <2>1, <2>2 DEF U, t
<1>4. CASE b # 0 /\ U # 0
  <2>1. RankShare(total, k, n) = t \div U
    BY <1>4 DEF RankShare
  <2>. HIDE DEF U, t
  <2>2. t \div U \in Nat /\ U * (t \div U) <= t
    BY <1>1, <1>2, <1>4
  <2>. QED BY <2>1, <2>2 DEF U, t
<1>. QED BY <1>3, <1>4

LEMMA Cancel ==
  ASSUME NEW u \in Nat, u > 0, NEW a \in Nat, NEW t \in Nat, u * a <= t * u
  PROVE  a <= t
<1>1. SUFFICES ASSUME a > t PROVE FALSE
  OBVIOUS
<1>2. PICK d \in Nat : a = t + 1 + d
  BY <1>1
<1>3. u * a = u * t + u + u * d
  BY <1>2
<1>4. u * t = t * u /\ u * d \in Nat /\ u * t \in Nat
  OBVIOUS
<1>. QED BY <1>3, <1>4

LEMMA SharesFit ==
  ASSUME NEW total \in Nat, NEW n \in 1 .. Len(PayoutBps)
  PROVE  LET shares == [j \in 1 .. n - 1 |-> RankShare(total, j, n)]
         IN SumOver(shares, 1 .. n - 1) \in Nat /\ SumOver(shares, 1 .. n - 1) <= total
<1>. DEFINE R == 1 .. n - 1
            shares == [j \in R |-> RankShare(total, j, n)]
            U == UsedBps(n)
            scaled == [j \in R |-> U * RankShare(total, j, n)]
            bound == [j \in R |-> total * PayoutBps[j]]
            A == SumOver(shares, R)
            B == SumOver(PayoutBps, R)
<1>1. /\ n \in 0 .. Len(PayoutBps) /\ IsFiniteSet(R) /\ R \subseteq Ranks
      /\ U \in Nat /\ B \in Nat /\ IsFiniteSet(1 .. n) /\ 1 .. n \subseteq Ranks
  <2>1. n \in 0 .. Len(PayoutBps)
    BY PayoutShape
  <2>. QED BY <2>1, UpToRank
<1>2. \A j \in R : /\ shares[j] \in Nat /\ PayoutBps[j] \in Nat
                   /\ scaled[j] = U * shares[j] /\ bound[j] = total * PayoutBps[j]
                   /\ scaled[j] <= bound[j]
  <2>1. \A j \in R : RankShare(total, j, n) \in Nat
    BY <1>1, ShareNat
  <2>2. \A j \in R : U * RankShare(total, j, n) <= total * PayoutBps[j]
    BY <1>1, ShareNat
  <2>. QED BY <1>1, <2>1, <2>2, PayoutShape
<1>3. \A j \in R : scaled[j] \in Int /\ bound[j] \in Int
  <2>1. \A x \in Nat, y \in Nat : x * y \in Int
    OBVIOUS
  <2>. QED BY <1>1, <1>2, <2>1
<1>4. A \in Nat
  <2>1. \A j \in R : shares[j] \in Nat
    BY <1>2
  <2>. HIDE DEF shares, R
  <2>. QED BY <1>1, <2>1, SumNat
<1>5. SumOver(scaled, R) = U * A
  <2>1. U \in Int /\ \A j \in R : shares[j] \in Int
    BY <1>1, <1>2
  <2>2. \A j \in R : scaled[j] = U * shares[j]
    BY <1>2
  <2>. HIDE DEF shares, scaled, R, U
  <2>. QED BY <1>1, <2>1, <2>2, SumTimes
<1>6. SumOver(bound, R) = total * B
  <2>1. total \in Int /\ \A j \in R : PayoutBps[j] \in Int
    BY <1>2
  <2>2. \A j \in R : bound[j] = total * PayoutBps[j]
    BY <1>2
  <2>. HIDE DEF bound, R
  <2>. QED BY <1>1, <2>1, <2>2, SumTimes
<1>7. U * A <= total * B
  <2>1. \A j \in R : scaled[j] \in Int /\ bound[j] \in Int /\ scaled[j] <= bound[j]
    BY <1>2, <1>3
  <2>. HIDE DEF shares, scaled, bound, R, U
  <2>2. SumOver(scaled, R) <= SumOver(bound, R)
    BY <1>1, <2>1, SumMonotone
  <2>. QED BY <1>5, <1>6, <2>2
<1>8. B <= U
  <2>1. \A j \in 1 .. n : PayoutBps[j] \in Int
    BY <1>1, PayoutShape
  <2>2. n \in Nat /\ n > 0
    BY PayoutShape
  <2>3. SumOver(PayoutBps, 1 .. n) = PayoutBps[n] + SumOver(PayoutBps, 1 .. n - 1)
    BY <2>1, <2>2, SumLast
  <2>4. U = PayoutBps[n] + B
    BY <2>3 DEF UsedBps
  <2>5. PayoutBps[n] \in Nat
    BY PayoutShape DEF Ranks
  <2>. HIDE DEF U, B
  <2>. QED BY <1>1, <2>4, <2>5
<1>9. A <= total
  <2>1. CASE U = 0
    <3>1. \A j \in R : shares[j] = 0
      BY <2>1 DEF RankShare
    <3>2. A = 0
      <4>. HIDE DEF shares, R
      <4>. QED BY <1>1, <3>1, SumZero
    <3>. QED BY <3>2
  <2>2. CASE U # 0
    <3>. HIDE DEF A, B, U
    <3>1. total * B <= total * U
      <4>1. PICK d \in Nat : U = B + d
        BY <1>1, <1>8
      <4>2. total * U = total * B + total * d
        BY <1>1, <4>1
      <4>3. total * d \in Nat /\ total * B \in Nat
        BY <1>1, <4>1
      <4>. QED BY <4>2, <4>3
    <3>2. U * A \in Nat /\ total * B \in Nat /\ total * U \in Nat
      BY <1>1, <1>4
    <3>3. U * A <= total * U
      BY <1>7, <3>1, <3>2
    <3>. QED BY <1>1, <1>4, <2>2, <3>3, Cancel
  <2>. QED BY <2>1, <2>2
<1>. QED BY <1>4, <1>9

\* What a rank receives is an amount, and all of them receive the total.
LEMMA RankRewards ==
  ASSUME NEW total \in Nat, NEW n \in 1 .. Len(PayoutBps)
  PROVE  /\ \A k \in 1 .. n : RankReward(total, k, n) \in Nat
         /\ SumOver([k \in 1 .. n |-> RankReward(total, k, n)], 1 .. n) = total
<1>. DEFINE R == 1 .. n - 1
            I == 1 .. n
            shares == [j \in R |-> RankShare(total, j, n)]
            reward == [k \in I |-> RankReward(total, k, n)]
<1>1. n \in 0 .. Len(PayoutBps) /\ n \in Nat
  BY PayoutShape
<1>2. IsFiniteSet(I) /\ I \subseteq Ranks /\ IsFiniteSet(R)
  BY <1>1, UpToRank
<1>3. SumOver(shares, R) \in Nat /\ SumOver(shares, R) <= total
  BY SharesFit
<1>4. \A j \in R : shares[j] \in Nat /\ shares[j] = reward[j]
  <2>1. \A j \in R : j \in Ranks /\ j # n
    BY <1>1, <1>2
  <2>2. \A j \in R : RankShare(total, j, n) \in Nat
    BY <1>1, <2>1, ShareNat
  <2>. QED BY <2>1, <2>2 DEF RankReward
<1>5. n \in I /\ I \ {n} = R
  OBVIOUS
<1>6. reward[n] = total - SumOver(shares, R)
  BY <1>5 DEF RankReward
<1>7. \A k \in I : reward[k] \in Nat
  <2>1. reward[n] \in Nat
    <3>. HIDE DEF shares, reward
    <3>. QED BY <1>3, <1>6
  <2>2. \A j \in I \ {n} : reward[j] \in Nat
    <3>. HIDE DEF reward
    <3>. QED BY <1>4, <1>5
  <2>. HIDE DEF reward
  <2>. QED BY <2>1, <2>2
<1>8. SumOver(reward, I) = total
  <2>1. SumOver(reward, I) = reward[n] + SumOver(reward, R)
    <3>1. \A k \in I : reward[k] \in Int
      BY <1>7
    <3>2. n > 0
      BY <1>1
    <3>. DEFINE m == n
                g == reward
    <3>3. m \in Nat /\ m > 0 /\ \A k \in 1 .. m : g[k] \in Int
      BY <1>1, <3>1, <3>2
    <3>4. SumOver(g, 1 .. m) = g[m] + SumOver(g, 1 .. m - 1)
      <4>. HIDE DEF m, g
      <4>. QED BY <3>3, SumLast
    <3>. HIDE DEF reward
    <3>. QED BY <3>4 DEF m, g
  <2>2. SumOver(reward, R) = SumOver(shares, R)
    <3>. HIDE DEF reward, shares, R
    <3>1. \A j \in R : shares[j] \in Int /\ reward[j] = shares[j]
      BY <1>4
    <3>. QED BY <1>2, <3>1, SumSame
  <2>. DEFINE A == SumOver(shares, R)
  <2>3. A \in Nat /\ reward[n] = total - A /\ SumOver(reward, I) = reward[n] + A
    BY <1>3, <1>6, <2>1, <2>2
  <2>. HIDE DEF reward, A, I
  <2>. QED BY <2>3
<1>. QED BY <1>7, <1>8

\* No two entries share their key.
KeysApart(entries) == \A e, f \in entries : SameKey(e, f) => e = f

\* The keys of a board are in order.
LEMMA BeforeIsOrder ==
  ASSUME NEW e \in Entry, NEW f \in Entry, NEW g \in Entry
  PROVE  /\ ~ Before(e, e)
         /\ Before(e, f) /\ Before(f, g) => Before(e, g)
         /\ Before(e, f) \/ Before(f, e) \/ SameKey(e, f)
<1>1. /\ e.score \in Nat /\ e.maxTile \in Nat /\ e.moveCount \in Nat /\ e.ended \in Nat /\ e.game \in Nat
      /\ f.score \in Nat /\ f.maxTile \in Nat /\ f.moveCount \in Nat /\ f.ended \in Nat /\ f.game \in Nat
      /\ g.score \in Nat /\ g.maxTile \in Nat /\ g.moveCount \in Nat /\ g.ended \in Nat /\ g.game \in Nat
  BY StateAssumption DEF Entry
<1>2. ~ Before(e, e)
  BY <1>1 DEF Before
<1>3. Before(e, f) /\ Before(f, g) => Before(e, g)
  BY <1>1 DEF Before
<1>4. Before(e, f) \/ Before(f, e) \/ SameKey(e, f)
  <2>1. \/ Before(e, f) \/ Before(f, e)
        \/ /\ e.score = f.score /\ e.maxTile = f.maxTile /\ e.moveCount = f.moveCount
           /\ e.ended = f.ended /\ e.game = f.game
    BY <1>1 DEF Before
  <2>2. ASSUME e.score = f.score, e.maxTile = f.maxTile, e.moveCount = f.moveCount,
               e.ended = f.ended, e.game = f.game
        PROVE  SameKey(e, f)
    BY <2>2 DEF SameKey, Entry
  <2>. QED BY <2>1, <2>2
<1>. QED BY <1>2, <1>3, <1>4

\* An entry that comes before another has a better rank.
LEMMA RankOrder ==
  ASSUME NEW S \in SUBSET Entry, IsFiniteSet(S), NEW e \in S, NEW f \in S
  PROVE  /\ RankOn(S, e) \in Nat /\ RankOn(S, e) >= 1
         /\ Before(e, f) => RankOn(S, e) < RankOn(S, f)
<1>. DEFINE E == {g \in S : Before(g, e)}
            F == {g \in S : Before(g, f)}
<1>1. IsFiniteSet(E) /\ IsFiniteSet(F)
  BY FS_Subset
<1>2. Cardinality(E) \in Nat /\ Cardinality(F) \in Nat
  BY <1>1, FS_CardinalityType
<1>3. ASSUME Before(e, f)
      PROVE  Cardinality(E) < Cardinality(F)
  <2>1. E \subseteq F
    BY <1>3, BeforeIsOrder
  <2>2. e \in F /\ e \notin E
    BY <1>3, BeforeIsOrder
  <2>. HIDE DEF E, F
  <2>3. E # F
    BY <2>2
  <2>4. Cardinality(E) <= Cardinality(F) /\ (Cardinality(E) = Cardinality(F) => E = F)
    BY <1>1, <2>1, FS_Subset
  <2>. QED BY <1>2, <2>3, <2>4
<1>. QED BY <1>2, <1>3 DEF RankOn

\* The ranks of the entries that are read are different, and are the first ones.
LEMMA EligibleRanks ==
  ASSUME NEW S \in SUBSET Entry, IsFiniteSet(S), KeysApart(S)
  PROVE  /\ IsFiniteSet(Eligible(S)) /\ Eligible(S) \subseteq S
         /\ Cardinality(Eligible(S)) \in 0 .. Len(PayoutBps)
         /\ \A e \in Eligible(S) : RankOn(S, e) \in 1 .. Cardinality(Eligible(S))
         /\ \A e, f \in Eligible(S) : RankOn(S, e) = RankOn(S, f) => e = f
<1>. DEFINE W == Eligible(S)
            n == Cardinality(W)
            L == Len(PayoutBps)
            rank == [e \in W |-> RankOn(S, e)]
<1>1. W \subseteq S /\ IsFiniteSet(W)
  <2>1. W \subseteq S
    BY DEF Eligible
  <2>. QED BY <2>1, FS_Subset
<1>2. n \in Nat /\ L \in Nat
  BY <1>1, FS_CardinalityType, PayoutShape
<1>3. \A e \in W : RankOn(S, e) \in 1 .. L
  BY <1>2, RankOrder DEF Eligible
<1>4. \A e, f \in W : RankOn(S, e) = RankOn(S, f) => e = f
  <2>. SUFFICES ASSUME NEW e \in W, NEW f \in W, RankOn(S, e) = RankOn(S, f)
                PROVE  e = f
    OBVIOUS
  <2>1. e \in S /\ f \in S /\ e \in Entry /\ f \in Entry
    BY <1>1
  <2>2. ~ Before(e, f) /\ ~ Before(f, e)
    BY <2>1, RankOrder
  <2>3. SameKey(e, f)
    BY <2>1, <2>2, BeforeIsOrder
  <2>. QED BY <2>1, <2>3 DEF KeysApart
<1>5. n <= L
  <2>1. (\A e \in W : rank[e] \in 1 .. L) /\ \A e, f \in W : rank[e] = rank[f] => e = f
    BY <1>3, <1>4
  <2>. HIDE DEF rank, W, L
  <2>. QED BY <1>2, <2>1, Numbered
<1>6. ASSUME NEW e \in W
      PROVE  RankOn(S, e) \in 1 .. n
  <2>. DEFINE E == {g \in S : Before(g, e)}
  <2>1. E \subseteq W \ {e}
    <3>. SUFFICES ASSUME NEW g \in S, Before(g, e)
                  PROVE  g \in W /\ g # e
      OBVIOUS
    <3>1. g # e
      BY <1>1, BeforeIsOrder
    <3>2. RankOn(S, g) \in Nat /\ RankOn(S, g) < RankOn(S, e) /\ RankOn(S, e) \in 1 .. L
      BY <1>1, <1>3, RankOrder
    <3>. QED BY <1>2, <3>1, <3>2 DEF Eligible
  <2>2. IsFiniteSet(W \ {e}) /\ Cardinality(W \ {e}) = n - 1
    BY <1>1, FS_RemoveElement
  <2>3. IsFiniteSet(E) /\ Cardinality(E) <= n - 1
    <3>. HIDE DEF E, W
    <3>1. IsFiniteSet(E) /\ Cardinality(E) <= Cardinality(W \ {e})
      BY <2>1, <2>2, FS_Subset
    <3>. QED BY <2>2, <3>1
  <2>4. Cardinality(E) \in Nat
    BY <2>3, FS_CardinalityType
  <2>. QED BY <1>2, <2>3, <2>4 DEF RankOn
<1>. QED BY <1>1, <1>2, <1>4, <1>5, <1>6

\* A summary allocates amounts, and no more than the pool it divides; the record
\* it leaves of a player is one of its allocations.
LEMMA SummaryAmounts ==
  ASSUME NEW S \in SUBSET Entry, IsFiniteSet(S), KeysApart(S), NEW total \in Nat
  PROVE  /\ Summary(S, total) \subseteq Allocation
         /\ Distributed(Summary(S, total)) \in Nat
         /\ Distributed(Summary(S, total)) <= total
         /\ \A p \in Player : AllocationOf(Summary(S, total), p) \in Allocation \cup {NULL}
<1>. DEFINE W == Eligible(S)
            n == Cardinality(W)
            of(e) == [player |-> e.player, game |-> e.game, rank |-> RankOn(S, e),
                      amount |-> RankReward(total, RankOn(S, e), n)]
            sum == Summary(S, total)
            R == 1 .. n
            reward == [k \in R |-> RankReward(total, k, n)]
<1>1. /\ IsFiniteSet(W) /\ W \subseteq S /\ n \in 0 .. Len(PayoutBps)
      /\ \A e \in W : RankOn(S, e) \in R
      /\ \A e, f \in W : RankOn(S, e) = RankOn(S, f) => e = f
  BY EligibleRanks
<1>2. sum = {of(e) : e \in W}
  BY DEF Summary
<1>3. ASSUME NEW e \in W
      PROVE  of(e) \in Allocation /\ of(e).rank \in R /\ of(e).amount = reward[of(e).rank]
  <2>1. n \in 1 .. Len(PayoutBps)
    <3>1. n # 0
      <4>1. RankOn(S, e) \in 1 .. n
        BY <1>1
      <4>. HIDE DEF n
      <4>. QED BY <4>1
    <3>. HIDE DEF n
    <3>. QED BY <1>1, <3>1, PayoutShape
  <2>2. RankReward(total, RankOn(S, e), n) \in Nat
    BY <1>1, <2>1, RankRewards
  <2>3. RankOn(S, e) \in Nat /\ RankOn(S, e) \in R
    BY <1>1
  <2>4. e.player \in Player /\ e.game \in GameId
    BY <1>1 DEF Entry
  <2>. HIDE DEF W, n
  <2>. QED BY <2>2, <2>3, <2>4 DEF Allocation
<1>4. sum \subseteq Allocation
  BY <1>2, <1>3
<1>5. IsFiniteSet(sum)
  <2>. DEFINE h == [e \in W |-> of(e)]
  <2>1. sum = {h[e] : e \in W}
    BY <1>2
  <2>. HIDE DEF h, sum, W
  <2>. QED BY <1>1, <2>1, ValuesFinite
<1>6. \A a \in sum : a.rank \in R /\ a.amount = reward[a.rank]
  BY <1>2, <1>3
<1>7. \A a, b \in sum : a.rank = b.rank => a = b
  <2>. SUFFICES ASSUME NEW e \in W, NEW f \in W, of(e).rank = of(f).rank
                PROVE  of(e) = of(f)
    BY <1>2
  <2>1. RankOn(S, e) = RankOn(S, f)
    OBVIOUS
  <2>2. e = f
    BY <1>1, <2>1
  <2>. QED BY <2>2
<1>8. Distributed(sum) \in Nat /\ Distributed(sum) <= total
  <2>. DEFINE amount == [a \in sum |-> a.amount]
              rank == [a \in sum |-> a.rank]
              h == [k \in R |-> SumOver(amount, Group(rank, sum, k))]
  <2>1. \A a \in sum : amount[a] \in Nat
    BY <1>4 DEF Allocation
  <2>2. SumOver(amount, sum) \in Nat
    <3>. HIDE DEF amount, sum
    <3>. QED BY <1>5, <2>1, SumNat
  <2>3. IsFiniteSet(R)
    BY <1>1, FS_Interval
  <2>4. SumOver(h, R) = SumOver(amount, sum)
    <3>1. \A a \in sum : amount[a] \in Int
      BY <2>1
    <3>2. \A a \in sum : rank[a] \in R
      BY <1>6
    <3>3. \A k \in R : h[k] = SumOver(amount, Group(rank, sum, k))
      OBVIOUS
    <3>. HIDE DEF amount, rank, h, sum, R
    <3>. QED BY <1>5, <2>3, <3>1, <3>2, <3>3, SumGroups
  <2>5. CASE n = 0
    <3>1. R = {}
      BY <2>5
    <3>2. SumOver(h, R) = 0
      <4>. HIDE DEF h, R
      <4>. QED BY <3>1, SumEmpty
    <3>. QED BY <2>2, <2>4, <3>2 DEF Distributed
  <2>6. CASE n # 0
    <3>1. n \in 1 .. Len(PayoutBps)
      <4>. HIDE DEF n
      <4>. QED BY <1>1, <2>6, PayoutShape
    <3>2. (\A k \in R : reward[k] \in Nat) /\ SumOver(reward, R) = total
      BY <3>1, RankRewards
    <3>3. \A k \in R : h[k] \in Int /\ reward[k] \in Int /\ h[k] <= reward[k]
      <4>. SUFFICES ASSUME NEW k \in R
                    PROVE  h[k] \in Int /\ reward[k] \in Int /\ h[k] <= reward[k]
        OBVIOUS
      <4>. DEFINE G == Group(rank, sum, k)
      <4>0. h[k] = SumOver(amount, G) /\ reward[k] \in Nat
        BY <3>2
      <4>1. CASE G = {}
        <5>1. SumOver(amount, G) = 0
          <6>. HIDE DEF amount, G
          <6>. QED BY <4>1, SumEmpty
        <5>. HIDE DEF h, reward, amount, G
        <5>. QED BY <4>0, <5>1
      <4>2. ASSUME NEW a \in G
            PROVE  h[k] = reward[k]
        <5>1. a \in sum /\ rank[a] = k
          BY DEF Group
        <5>2. G = {a}
          BY <1>7, <5>1 DEF Group
        <5>3. amount[a] = reward[k] /\ amount[a] \in Int
          <6>1. amount[a] = a.amount /\ a.rank = k
            BY <5>1
          <6>. HIDE DEF amount, reward, rank, sum, R
          <6>. QED BY <1>6, <2>1, <5>1, <6>1
        <5>4. SumOver(amount, {a}) = amount[a]
          <6>. HIDE DEF amount
          <6>1. IsFiniteSet({a}) /\ \A x \in {a} : amount[x] \in Int
            BY <5>3, FS_Singleton
          <6>2. SumOver(amount, {a}) = amount[a] + SumOver(amount, {a} \ {a})
            BY <6>1, SumRemove
          <6>3. {a} \ {a} = {} /\ SumOver(amount, {}) = 0
            BY SumEmpty
          <6>. QED BY <5>3, <6>2, <6>3
        <5>. HIDE DEF h, reward, amount, G
        <5>. QED BY <4>0, <5>2, <5>3, <5>4
      <4>. HIDE DEF h, reward, amount, G
      <4>. QED BY <4>0, <4>1, <4>2
    <3>4. SumOver(h, R) <= SumOver(reward, R)
      <4>. HIDE DEF h, reward, R
      <4>. QED BY <2>3, <3>3, SumMonotone
    <3>. HIDE DEF h, reward, R, amount
    <3>. QED BY <2>2, <2>4, <3>2, <3>4 DEF Distributed, amount
  <2>. QED BY <2>5, <2>6
<1>9. ASSUME NEW p \in Player
      PROVE  AllocationOf(sum, p) \in Allocation \cup {NULL}
  <2>. DEFINE mine == {a \in sum : a.player = p}
              B == {n - a.rank : a \in mine}
  <2>1. CASE mine = {}
    BY <2>1 DEF AllocationOf
  <2>2. CASE mine # {}
    <3>1. \A a \in mine : a.rank \in Nat /\ n - a.rank \in Nat
      <4>1. n \in Nat
        BY <1>1, PayoutShape
      <4>. HIDE DEF sum, n, reward
      <4>2. \A a \in sum : a.rank \in 1 .. n
        BY <1>6
      <4>3. \A r \in 1 .. n : r \in Nat /\ n - r \in Nat
        BY <4>1
      <4>. QED BY <4>2, <4>3
    <3>2. n \in Nat
      BY <1>1, PayoutShape
    <3>. HIDE DEF mine, n
    <3>3. B \subseteq Nat /\ B # {}
      BY <2>2, <3>1
    <3>4. PICK m \in B : \A k \in B : m <= k
      <4>. HIDE DEF B
      <4>. QED BY <3>3, LeastNat
    <3>5. PICK a \in mine : m = n - a.rank
      BY <3>4
    <3>6. \A b \in mine : a.rank >= b.rank
      <4>. SUFFICES ASSUME NEW b \in mine PROVE a.rank >= b.rank
        OBVIOUS
      <4>1. n - b.rank \in B
        OBVIOUS
      <4>. HIDE DEF B
      <4>2. n - a.rank <= n - b.rank
        BY <3>4, <3>5, <4>1
      <4>3. a.rank \in Nat /\ b.rank \in Nat
        BY <3>1
      <4>. QED BY <3>2, <4>2, <4>3
    <3>7. AllocationOf(sum, p) \in mine
      BY <2>2, <3>5, <3>6 DEF AllocationOf, mine
    <3>. QED BY <1>4, <3>7 DEF mine
  <2>. QED BY <2>1, <2>2
<1>. QED BY <1>4, <1>8, <1>9

-----------------------------------------------------------------------------
(***************************************************************************)
(* Type correctness.  The boards are finite, which their ranks need, and   *)
(* a session that is being played names a contest that exists.             *)
(***************************************************************************)
DailyTypes ==
  DailyRecordsOK /\ \A d \in Date : IsFiniteSet(board[d]) /\ KeysApart(board[d])
WeeklyTypes == WeeklyRecordsOK /\ \A w \in Week : IsFiniteSet(weekBoard[w])
ClassicTypes == ClassicRecordsOK /\ \A m \in Month : IsFiniteSet(monthBoard[m])

PeriodsKnown ==
  \A g \in GameId :
    session[g] # NULL =>
      /\ session[g].mode = "daily" => session[g].period \in Date
      /\ session[g].mode = "weekly" /\ session[g].status = "active" =>
           session[g].period \in Week

TypeInv == StateTypeOK /\ PeriodsKnown /\ DailyTypes /\ WeeklyTypes /\ ClassicTypes

-----------------------------------------------------------------------------
\* What each pool receives of a fee is an amount.
LEMMA SplitTypes ==
  ASSUME NEW fee \in Nat
  PROVE  /\ SplitFee(DailyBps, fee) \in [PoolId -> Nat]
         /\ SplitFee(ClassicBps, fee) \in [PoolId -> Nat]
         /\ SplitFee(WeeklyBps, fee) \in [PoolId -> Nat]
<1>1. \A b \in Nat : BpsAmount(fee, b) \in Nat
  BY DEF BpsAmount, BpsDenominator
<1>2. ASSUME NEW bps, \A i \in DOMAIN bps : bps[i] \in Nat
      PROVE  SplitFee(bps, fee) \in [PoolId -> Nat]
  BY <1>1, <1>2 DEF SplitFee
<1>3. /\ \A i \in DOMAIN DailyBps : DailyBps[i] \in Nat
      /\ \A i \in DOMAIN ClassicBps : ClassicBps[i] \in Nat
      /\ \A i \in DOMAIN WeeklyBps : WeeklyBps[i] \in Nat
  BY DEF DailyBps, ClassicBps, WeeklyBps
<1>. QED BY <1>2, <1>3

LEMMA ChargeTypes ==
  ASSUME StateTypeOK, NEW p \in Player, NEW fee \in Nat, NEW split \in [PoolId -> Nat],
         ChargeEntry(p, fee, split)
  PROVE  /\ account' \in [Player -> Nat] /\ pool' \in [PoolId -> Nat]
         /\ treasury' \in [MirroredPool -> Nat]
<1>1. account' \in [Player -> Nat]
  BY DEF ChargeEntry, StateTypeOK
<1>2. pool' \in [PoolId -> Nat]
  BY DEF ChargeEntry, StateTypeOK
<1>3. MirroredPool \subseteq PoolId
  BY DEF MirroredPool, PoolId
<1>4. treasury' \in [MirroredPool -> Nat]
  BY <1>3 DEF ChargeEntry, StateTypeOK
<1>. QED BY <1>1, <1>2, <1>4

LEMMA PayTypes ==
  ASSUME StateTypeOK, NEW i \in PoolId, NEW p \in Player, NEW amount \in Nat,
         PayFrom(i, p, amount)
  PROVE  account' \in [Player -> Nat] /\ pool' \in [PoolId -> Nat]
BY DEF PayFrom, StateTypeOK

LEMMA CountTypes ==
  ASSUME StateTypeOK, NEW p \in Player
  PROVE  /\ CountGame(p, "daily") \in [Player -> [daily : Nat, classic : Nat, completed : Nat]]
         /\ CountGame(p, "classic") \in [Player -> [daily : Nat, classic : Nat, completed : Nat]]
         /\ CountGame(p, "completed") \in [Player -> [daily : Nat, classic : Nat, completed : Nat]]
BY DEF CountGame, StateTypeOK

LEMMA NewSessionTypes ==
  ASSUME StateTypeOK, PeriodsKnown, NEW p \in Player, NEW g \in GameId, NEW mode \in Mode,
         NEW period \in Nat, NEW expires \in Nat,
         mode = "daily" => period \in Date, mode = "weekly" => period \in Week,
         session' = [session EXCEPT ![g] = NewSession(p, mode, period, expires)]
  PROVE  session' \in [GameId -> SessionRecord \cup {NULL}] /\ PeriodsKnown'
<1>1. NewSession(p, mode, period, expires) \in SessionRecord
  BY DEF NewSession, SessionRecord
<1>2. session' \in [GameId -> SessionRecord \cup {NULL}]
  BY <1>1 DEF StateTypeOK
<1>3. PeriodsKnown'
  <2>. SUFFICES ASSUME NEW h \in GameId, session'[h] # NULL
                PROVE  /\ session'[h].mode = "daily" => session'[h].period \in Date
                       /\ session'[h].mode = "weekly" /\ session'[h].status = "active" =>
                            session'[h].period \in Week
    BY DEF PeriodsKnown
  <2>1. CASE h = g
    BY <2>1 DEF StateTypeOK, NewSession
  <2>2. CASE h # g
    BY <2>2 DEF StateTypeOK, PeriodsKnown
  <2>. QED BY <2>1, <2>2
<1>. QED BY <1>2, <1>3

LEMMA CompletedTypes ==
  ASSUME StateTypeOK, PeriodsKnown, NEW p \in Player, NEW g \in GameId, OwnsActiveSession(p, g),
         session' = [session EXCEPT ![g] = CompletedSession(@)]
  PROVE  session' \in [GameId -> SessionRecord \cup {NULL}] /\ PeriodsKnown'
<1>1. session[g] \in SessionRecord /\ session[g] # NULL
  BY DEF StateTypeOK, OwnsActiveSession
<1>2. CompletedSession(session[g]) \in SessionRecord
  BY <1>1 DEF CompletedSession, SessionRecord
<1>3. session' \in [GameId -> SessionRecord \cup {NULL}]
  BY <1>2 DEF StateTypeOK
<1>4. PeriodsKnown'
  <2>. SUFFICES ASSUME NEW h \in GameId, session'[h] # NULL
                PROVE  /\ session'[h].mode = "daily" => session'[h].period \in Date
                       /\ session'[h].mode = "weekly" /\ session'[h].status = "active" =>
                            session'[h].period \in Week
    BY DEF PeriodsKnown
  <2>1. CASE h = g
    <3>1. session'[h] = CompletedSession(session[g])
      BY <2>1 DEF StateTypeOK
    <3>. QED BY <1>1, <3>1 DEF CompletedSession, PeriodsKnown
  <2>2. CASE h # g
    BY <2>2 DEF StateTypeOK, PeriodsKnown
  <2>. QED BY <2>1, <2>2
<1>. QED BY <1>3, <1>4

\* A step that leaves the records of a mode alone keeps their types.
LEMMA Frames ==
  /\ DailyTypes /\ UNCHANGED dailyVars => DailyTypes'
  /\ WeeklyTypes /\ UNCHANGED weeklyVars => WeeklyTypes'
  /\ ClassicTypes /\ UNCHANGED <<pointsVars, seasonVars>> => ClassicTypes'
  /\ PeriodsKnown /\ UNCHANGED session => PeriodsKnown'
<1>1. ASSUME DailyTypes, UNCHANGED dailyVars
      PROVE  DailyTypes'
  BY <1>1 DEF dailyVars, DailyTypes, DailyRecordsOK
<1>2. ASSUME WeeklyTypes, UNCHANGED weeklyVars
      PROVE  WeeklyTypes'
  BY <1>2 DEF weeklyVars, WeeklyTypes, WeeklyRecordsOK
<1>3. ASSUME ClassicTypes, UNCHANGED <<pointsVars, seasonVars>>
      PROVE  ClassicTypes'
  BY <1>3 DEF pointsVars, seasonVars, ClassicTypes, ClassicRecordsOK
<1>4. ASSUME PeriodsKnown, UNCHANGED session
      PROVE  PeriodsKnown'
  BY <1>4 DEF PeriodsKnown
<1>. QED BY <1>1, <1>2, <1>3, <1>4

LEMMA TypesAtFirst == ArcadeInit => TypeInv
<1>. SUFFICES ASSUME ArcadeInit PROVE TypeInv
  OBVIOUS
<1>1. StateTypeOK /\ PeriodsKnown
  BY StateAssumption DEF ArcadeInit, StateInit, StateTypeOK, PeriodsKnown, PoolId
<1>2. DailyTypes
  BY FS_EmptySet DEF ArcadeInit, DailyRecordsInit, DailyTypes, DailyRecordsOK, NoPrize, KeysApart
<1>3. WeeklyTypes
  BY FS_EmptySet, WeeklyAssumption DEF ArcadeInit, WeeklyRecordsInit, WeeklyTypes, WeeklyRecordsOK
<1>4. ClassicTypes
  <2>1. Len(LoginRewardPoints) \in Nat /\ PointsCap \in Nat
    BY PointsAssumption
  <2>. QED BY <2>1, FS_EmptySet
           DEF ArcadeInit, PointsRecordsInit, SeasonRecordsInit, ClassicTypes, ClassicRecordsOK
<1>. QED BY <1>1, <1>2, <1>3, <1>4 DEF TypeInv

LEMMA StartDailyTypes ==
  ASSUME TypeInv, NEW p \in Player, NEW g \in GameId, NEW d \in Date, NEW fee \in DailyFee,
         StartDailyGame(p, g, d, fee)
  PROVE  StateTypeOK' /\ PeriodsKnown' /\ DailyTypes'
<1>. DEFINE split == SplitFee(DailyBps, fee)
<1>1. fee \in Nat /\ d \in Nat /\ split \in [PoolId -> Nat]
  BY DailyAssumption, SplitTypes
<1>2. /\ session' = [session EXCEPT ![g] = NewSession(p, "daily", d, 0)]
      /\ stats' = CountGame(p, "daily") /\ ChargeEntry(p, fee, split)
      /\ prize' = [prize EXCEPT ![d] = AddDailyPoolEntry(@, fee, split)]
      /\ attempt' = [attempt EXCEPT ![d][p] = g]
      /\ UNCHANGED <<submission, board, rankRow, allocation, claim>>
  BY DEF StartDailyGame
<1>3. session' \in [GameId -> SessionRecord \cup {NULL}] /\ PeriodsKnown'
  <2>1. "daily" \in Mode /\ 0 \in Nat
    BY DEF Mode
  <2>. QED BY <1>1, <1>2, <2>1, NewSessionTypes DEF TypeInv
<1>4. StateTypeOK'
  <2>. HIDE DEF split
  <2>. QED BY <1>1, <1>2, <1>3, ChargeTypes, CountTypes DEF TypeInv, StateTypeOK
<1>5. DailyTypes'
  <2>1. TreasuryPart(split) \in Nat /\ split["DAILY"] \in Nat
    <3>. HIDE DEF split
    <3>. QED BY <1>1 DEF TreasuryPart, PoolId
  <2>2. prize' \in [Date -> [entryCount : Nat, grossFees : Nat, treasuryFees : Nat,
                         rewardPool : Nat, finalized : BOOLEAN, distributed : Nat,
                         leftover : Nat]]
    <3>. HIDE DEF split
    <3>. QED BY <1>1, <1>2, <2>1 DEF TypeInv, DailyTypes, DailyRecordsOK, AddDailyPoolEntry
  <2>3. attempt' \in [Date -> [Player -> GameId \cup {NULL}]]
    BY <1>2 DEF TypeInv, DailyTypes, DailyRecordsOK
  <2>. QED BY <1>2, <2>2, <2>3 DEF TypeInv, DailyTypes, DailyRecordsOK
<1>. QED BY <1>3, <1>4, <1>5

LEMMA SubmitDailyTypes ==
  ASSUME TypeInv, NEW p \in Player, NEW g \in GameId, NEW now \in Time, NEW r \in Result,
         SubmitDailyResult(p, g, now, r)
  PROVE  StateTypeOK' /\ PeriodsKnown' /\ DailyTypes'
<1>. DEFINE d == session[g].period
            entry == [player |-> p, game |-> g, score |-> r.score, maxTile |-> r.maxTile,
                      moveCount |-> r.moveCount, ended |-> now]
            entries == {e \in board[d] : ~SameKey(e, entry)} \cup {entry}
<1>1. /\ OwnsActiveSession(p, g)
      /\ session[g].mode = "daily"
      /\ session' = [session EXCEPT ![g] = CompletedSession(@)]
      /\ stats' = CountGame(p, "completed")
      /\ board' = [board EXCEPT ![d] = entries]
      /\ submission' = [submission EXCEPT ![d][p] = g]
      /\ UNCHANGED <<account, pool, treasury, attempt, prize, rankRow, allocation, claim>>
  BY DEF SubmitDailyResult
<1>2. session' \in [GameId -> SessionRecord \cup {NULL}] /\ PeriodsKnown'
  BY <1>1, CompletedTypes DEF TypeInv
<1>3. StateTypeOK'
  BY <1>1, <1>2, CountTypes DEF TypeInv, StateTypeOK
<1>4. d \in Date
  BY <1>1 DEF TypeInv, PeriodsKnown, OwnsActiveSession
<1>5. entry \in Entry
  BY StateAssumption, DailyAssumption DEF Entry
<1>6. board[d] \in SUBSET Entry /\ IsFiniteSet(board[d]) /\ KeysApart(board[d])
  BY <1>4 DEF TypeInv, DailyTypes, DailyRecordsOK
<1>7. IsFiniteSet(entries)
  <2>1. IsFiniteSet({e \in board[d] : ~SameKey(e, entry)})
    BY <1>6, FS_Subset
  <2>. QED BY <2>1, FS_AddElement
<1>8. KeysApart(entries)
  <2>. SUFFICES ASSUME NEW e \in entries, NEW f \in entries, SameKey(e, f)
                PROVE  e = f
    BY DEF KeysApart
  <2>1. \A x \in Entry : SameKey(entry, x) => SameKey(x, entry)
    BY <1>5 DEF SameKey, Entry
  <2>. HIDE DEF entry
  <2>2. CASE e = entry \/ f = entry
    BY <1>6, <2>1, <2>2
  <2>3. CASE e # entry /\ f # entry
    BY <1>6, <2>3 DEF KeysApart
  <2>. QED BY <2>2, <2>3
<1>9. DailyTypes'
  <2>1. board' \in [Date -> SUBSET Entry]
    BY <1>1, <1>5, <1>6 DEF TypeInv, DailyTypes, DailyRecordsOK
  <2>2. \A c \in Date : IsFiniteSet(board'[c]) /\ KeysApart(board'[c])
    <3>. HIDE DEF entries
    <3>. QED BY <1>1, <1>4, <1>7, <1>8 DEF TypeInv, DailyTypes, DailyRecordsOK
  <2>3. \A c \in Date : IsFiniteSet(board'[c]) /\ KeysApart(board[c])'
    BY <2>2 DEF KeysApart
  <2>4. submission' \in [Date -> [Player -> GameId \cup {NULL}]]
    BY <1>1 DEF TypeInv, DailyTypes, DailyRecordsOK
  <2>. QED BY <1>1, <2>1, <2>3, <2>4 DEF TypeInv, DailyTypes, DailyRecordsOK
<1>. QED BY <1>2, <1>3, <1>9

LEMMA ClaimDailyTypes ==
  ASSUME TypeInv, NEW p \in Player, NEW d \in Date, NEW now \in Time,
         ClaimDailyReward(p, d, now)
  PROVE  StateTypeOK' /\ PeriodsKnown' /\ DailyTypes'
<1>. DEFINE total == prize[d].rewardPool
            summary == Summary(board[d], total)
            final == Finalized(d)
            recorded == final.byPlayer[p] # NULL
            a == IF recorded THEN final.byPlayer[p] ELSE MatchIn(summary, p)
            source == IF pool["DAILY"] >= a.amount THEN "DAILY" ELSE "DAO"
<1>1. /\ a \in Allocation
      /\ total >= a.amount
      /\ PayFrom(source, p, a.amount)
      /\ prize' = [prize EXCEPT ![d] = PaidOut(@, a.amount, Distributed(summary))]
      /\ rankRow' = [rankRow EXCEPT
                       ![d] = IF recorded THEN final.rows ELSE PutRows(final.rows, {a})]
      /\ allocation' = [allocation EXCEPT ![d] = [final.byPlayer EXCEPT ![p] = a]]
      /\ claim' = [claim EXCEPT ![d][p] = a]
      /\ UNCHANGED <<treasury, session, stats, attempt, submission, board>>
  BY DEF ClaimDailyReward, CoversReward
<1>2. /\ board[d] \in SUBSET Entry /\ IsFiniteSet(board[d]) /\ KeysApart(board[d])
      /\ total \in Nat /\ rankRow[d] \subseteq Allocation
      /\ allocation[d] \in [Player -> Allocation \cup {NULL}]
  BY DEF TypeInv, DailyTypes, DailyRecordsOK
<1>3. /\ summary \subseteq Allocation
      /\ Distributed(summary) \in Nat /\ Distributed(summary) <= total
      /\ \A q \in Player : AllocationOf(summary, q) \in Allocation \cup {NULL}
  <2>. HIDE DEF total
  <2>. QED BY <1>2, SummaryAmounts
<1>4. /\ final.rows \subseteq Allocation
      /\ final.byPlayer \in [Player -> Allocation \cup {NULL}]
  <2>1. CASE prize[d].finalized
    BY <1>2, <2>1 DEF Finalized
  <2>2. CASE ~ prize[d].finalized
    <3>1. final = [rows |-> PutRows(rankRow[d], summary),
                   byPlayer |-> [q \in Player |-> IF AllocationOf(summary, q) = NULL
                                                  THEN allocation[d][q]
                                                  ELSE AllocationOf(summary, q)]]
      BY <2>2 DEF Finalized
    <3>. HIDE DEF summary, final
    <3>. QED BY <1>2, <1>3, <3>1 DEF PutRows
  <2>. QED BY <2>1, <2>2
<1>5. a.amount \in Nat /\ source \in PoolId
  BY <1>1 DEF Allocation, PoolId
<1>. HIDE DEF total, summary, final, recorded, a, source
<1>6. StateTypeOK'
  BY <1>1, <1>5, PayTypes DEF TypeInv, StateTypeOK
<1>7. PeriodsKnown'
  BY <1>1, Frames DEF TypeInv
<1>8. prize' \in [Date -> [entryCount : Nat, grossFees : Nat, treasuryFees : Nat,
                           rewardPool : Nat, finalized : BOOLEAN, distributed : Nat,
                           leftover : Nat]]
  <2>. DEFINE record == PaidOut(prize[d], a.amount, Distributed(summary))
  <2>1. prize[d].rewardPool - a.amount \in Nat /\ prize[d].rewardPool - Distributed(summary) \in Nat
    BY <1>1, <1>2, <1>3, <1>5 DEF total
  <2>2. record \in [entryCount : Nat, grossFees : Nat, treasuryFees : Nat,
                    rewardPool : Nat, finalized : BOOLEAN, distributed : Nat, leftover : Nat]
    BY <1>3, <2>1 DEF PaidOut, TypeInv, DailyTypes, DailyRecordsOK
  <2>3. prize' = [prize EXCEPT ![d] = record]
    BY <1>1
  <2>. HIDE DEF record
  <2>. QED BY <2>2, <2>3 DEF TypeInv, DailyTypes, DailyRecordsOK
<1>9. rankRow' \in [Date -> SUBSET Allocation]
  <2>1. PutRows(final.rows, {a}) \subseteq Allocation
    BY <1>1, <1>4 DEF PutRows
  <2>. QED BY <1>1, <1>4, <2>1 DEF TypeInv, DailyTypes, DailyRecordsOK
<1>10. /\ allocation' \in [Date -> [Player -> Allocation \cup {NULL}]]
       /\ claim' \in [Date -> [Player -> Allocation \cup {NULL}]]
  BY <1>1, <1>4 DEF TypeInv, DailyTypes, DailyRecordsOK
<1>11. DailyTypes'
  BY <1>1, <1>8, <1>9, <1>10 DEF TypeInv, DailyTypes, DailyRecordsOK
<1>. QED BY <1>6, <1>7, <1>11

\* The day, the week and the month of a time.
LEMMA TimeTypes ==
  ASSUME NEW now \in Time
  PROVE  /\ now \in Nat
         /\ DateOf(now) \in Day /\ DateOf(now) \in Nat
         /\ WeekOf(now) \in Week /\ WeekOf(now) \in Nat
         /\ MonthOf(now) \in Month
<1>1. now \in Nat /\ now >= EpochOffset /\ EpochOffset \in Nat
  BY StateAssumption, WeeklyAssumption
<1>2. DateOf(now) \in Nat
  <2>1. DayLength \in Nat \ {0}
    BY StateAssumption
  <2>. QED BY <1>1, <2>1 DEF DateOf
<1>3. WeekOf(now) \in Nat
  <2>. DEFINE k == now - EpochOffset
  <2>1. WeekLength \in Nat \ {0} /\ k \in Nat
    BY <1>1, WeeklyAssumption
  <2>2. WeekOf(now) = k \div WeekLength
    BY DEF WeekOf
  <2>. HIDE DEF k
  <2>. QED BY <2>1, <2>2
<1>. QED BY <1>1, <1>2, <1>3 DEF Day, Week, Month

LEMMA StartWeeklyTypes ==
  ASSUME TypeInv, NEW p \in Player, NEW g \in GameId, NEW now \in Time,
         StartWeeklyGame(p, g, now)
  PROVE  StateTypeOK' /\ PeriodsKnown' /\ WeeklyTypes'
<1>. DEFINE split == SplitFee(WeeklyBps, WeeklyFee)
            d == DateOf(now)
            w == WeekOf(now)
<1>1. /\ WeeklyFee \in Nat /\ Duration \in Nat /\ RunsPerDay \in Nat /\ now \in Nat
      /\ split \in [PoolId -> Nat]
      /\ d \in Day /\ w \in Week /\ w \in Nat
  BY WeeklyAssumption, SplitTypes, TimeTypes
<1>. HIDE DEF split, d, w
<1>2. /\ runs[d][p] < RunsPerDay
      /\ session' = [session EXCEPT ![g] = NewSession(p, "weekly", w, now + Duration)]
      /\ stats' = CountGame(p, "daily") /\ ChargeEntry(p, WeeklyFee, split)
      /\ weekMeta' = [weekMeta EXCEPT ![w] = [entryCount |-> @.entryCount + 1,
                                              grossFees |-> @.grossFees + WeeklyFee,
                                              prizePool |-> @.prizePool + split["WEEKLY"]]]
      /\ runs' = [runs EXCEPT ![d][p] = @ + 1]
      /\ UNCHANGED <<weekScore, weekBoard, weekClaim, weekAllocation>>
  BY DEF StartWeeklyGame, RunsRemain, split, d, w
<1>3. session' \in [GameId -> SessionRecord \cup {NULL}] /\ PeriodsKnown'
  <2>1. "weekly" \in Mode /\ now + Duration \in Nat
    BY <1>1 DEF Mode
  <2>. QED BY <1>1, <1>2, <2>1, NewSessionTypes DEF TypeInv
<1>4. StateTypeOK'
  BY <1>1, <1>2, <1>3, ChargeTypes, CountTypes DEF TypeInv, StateTypeOK
<1>5. WeeklyTypes'
  <2>1. split["WEEKLY"] \in Nat
    BY <1>1 DEF PoolId
  <2>2. weekMeta' \in [Week -> [entryCount : Nat, grossFees : Nat, prizePool : Nat]]
    BY <1>1, <1>2, <2>1 DEF TypeInv, WeeklyTypes, WeeklyRecordsOK
  <2>3. runs[d][p] + 1 \in 0 .. RunsPerDay
    <3>1. runs[d][p] \in 0 .. RunsPerDay
      BY <1>1 DEF TypeInv, WeeklyTypes, WeeklyRecordsOK
    <3>. QED BY <1>1, <1>2, <3>1
  <2>4. runs' \in [Day -> [Player -> 0 .. RunsPerDay]]
    BY <1>1, <1>2, <2>3 DEF TypeInv, WeeklyTypes, WeeklyRecordsOK
  <2>. QED BY <1>2, <2>2, <2>4 DEF TypeInv, WeeklyTypes, WeeklyRecordsOK
<1>. QED BY <1>3, <1>4, <1>5

LEMMA ScoreAfterTypes ==
  ASSUME NEW record \in [total : Nat, best : Nat, runs : Nat, updated : Nat] \cup {NULL},
         NEW score \in Nat, NEW now \in Nat
  PROVE  ScoreAfter(record, score, now) \in [total : Nat, best : Nat, runs : Nat, updated : Nat]
<1>1. CASE record = NULL
  BY <1>1 DEF ScoreAfter
<1>2. CASE record # NULL
  <2>. DEFINE best == record.best
              top == Max({best, score})
  <2>1. best \in Nat /\ record.total + score \in Nat /\ record.runs + 1 \in Nat
    BY <1>2
  <2>2. ScoreAfter(record, score, now) =
          [total |-> record.total + score, best |-> top, runs |-> record.runs + 1, updated |-> now]
    BY <1>2 DEF ScoreAfter
  <2>. HIDE DEF best
  <2>3. top \in Nat
    <3>1. best \in Int
      BY <2>1
    <3>. QED BY <3>1, MaxNat, Zenon
  <2>. HIDE DEF top
  <2>. QED BY <2>1, <2>2, <2>3
<1>. QED BY <1>1, <1>2

LEMMA SubmitWeeklyTypes ==
  ASSUME TypeInv, NEW p \in Player, NEW g \in GameId, NEW now \in Time, NEW score \in RunScore,
         SubmitWeeklyResult(p, g, now, score)
  PROVE  StateTypeOK' /\ PeriodsKnown' /\ WeeklyTypes'
<1>. DEFINE w == session[g].period
            new == ScoreAfter(weekScore[w][p], score, now)
            entry == [player |-> p, score |-> new.total, game |-> g, ended |-> now]
            entries == BoardAfter(weekBoard[w], entry, PreviousTotal(w, p))
<1>1. /\ OwnsActiveSession(p, g)
      /\ session[g].mode = "weekly"
      /\ session' = [session EXCEPT ![g] = CompletedSession(@)]
      /\ stats' = CountGame(p, "completed")
      /\ weekScore' = [weekScore EXCEPT ![w][p] = new]
      /\ weekBoard' = [weekBoard EXCEPT ![w] = entries]
      /\ UNCHANGED <<account, pool, treasury, runs, weekMeta, weekClaim, weekAllocation>>
  BY DEF SubmitWeeklyResult
<1>2. session' \in [GameId -> SessionRecord \cup {NULL}] /\ PeriodsKnown'
  BY <1>1, CompletedTypes DEF TypeInv
<1>3. StateTypeOK'
  BY <1>1, <1>2, CountTypes DEF TypeInv, StateTypeOK
<1>4. w \in Week
  BY <1>1 DEF TypeInv, PeriodsKnown, OwnsActiveSession
<1>5. score \in Nat /\ now \in Nat
  BY WeeklyAssumption, TimeTypes
<1>6. new \in [total : Nat, best : Nat, runs : Nat, updated : Nat]
  <2>1. weekScore[w][p] \in [total : Nat, best : Nat, runs : Nat, updated : Nat] \cup {NULL}
    BY <1>4 DEF TypeInv, WeeklyTypes, WeeklyRecordsOK
  <2>. QED BY <1>5, <2>1, ScoreAfterTypes
<1>. HIDE DEF new
<1>7. entry \in WeekEntry
  BY <1>5, <1>6 DEF WeekEntry
<1>8. weekBoard[w] \in SUBSET WeekEntry /\ IsFiniteSet(weekBoard[w])
  BY <1>4 DEF TypeInv, WeeklyTypes, WeeklyRecordsOK
<1>9. entries \subseteq weekBoard[w] \cup {entry}
  BY DEF BoardAfter
<1>10. IsFiniteSet(entries)
  <2>. HIDE DEF entries, entry
  <2>1. IsFiniteSet(weekBoard[w] \cup {entry})
    BY <1>8, FS_AddElement
  <2>. QED BY <1>9, <2>1, FS_Subset
<1>11. WeeklyTypes'
  <2>. HIDE DEF entries, entry
  <2>1. weekBoard' \in [Week -> SUBSET WeekEntry] /\ \A v \in Week : IsFiniteSet(weekBoard'[v])
    BY <1>1, <1>4, <1>7, <1>8, <1>9, <1>10 DEF TypeInv, WeeklyTypes, WeeklyRecordsOK
  <2>2. weekScore' \in [Week -> [Player -> [total : Nat, best : Nat, runs : Nat, updated : Nat]
                                             \cup {NULL}]]
    BY <1>1, <1>4, <1>6 DEF TypeInv, WeeklyTypes, WeeklyRecordsOK
  <2>. QED BY <1>1, <2>1, <2>2 DEF TypeInv, WeeklyTypes, WeeklyRecordsOK
<1>. QED BY <1>2, <1>3, <1>11

\* What a claim is paid, if anything, is an amount.
LEMMA FoundReward ==
  ASSUME NEW c \in RewardConfig, NEW n \in Nat, NEW amount \in Nat, NEW ranks,
         ranks \cap RewardedRanks(c, n) # {}
  PROVE  LET rank == Min(ranks \cap RewardedRanks(c, n))
         IN rank \in Nat /\ Rewards(c, n, amount)[rank] \in Nat
<1>. DEFINE found == ranks \cap RewardedRanks(c, n)
<1>1. found \subseteq Nat
  BY RewardsNat
<1>2. Min(found) \in found
  <2>. HIDE DEF found
  <2>1. found # {}
    BY DEF found
  <2>. QED BY <1>1, <2>1, MinOfNats
<1>3. Min(found) \in RewardedRanks(c, n)
  BY <1>2
<1>. HIDE DEF found
<1>4. Min(found) \in Nat /\ Rewards(c, n, amount)[Min(found)] \in Nat
  BY <1>3, RewardsNat
<1>. QED BY <1>4 DEF found

\* What a claim of a week pays and records.
LEMMA WeeklyClaimPays ==
  ASSUME TypeInv, NEW p \in Player, NEW w \in Week, NEW now \in Time,
         ClaimWeeklyReward(p, w, now)
  PROVE  \E rank \in Nat, amount \in Nat :
           /\ weekClaim[w][p] = NULL
           /\ PayFrom("WEEKLY", p, amount)
           /\ weekClaim' = [weekClaim EXCEPT ![w][p] = [rank |-> rank, amount |-> amount]]
           /\ weekAllocation' = [weekAllocation EXCEPT
                                   ![w] = @ \cup {[rank |-> rank, player |-> p, amount |-> amount]}]
           /\ UNCHANGED <<treasury, session, stats, runs, weekMeta, weekScore, weekBoard>>
<1>. DEFINE n == Cardinality(ReadEntries(w))
            ranks == RanksFound(p, w)
            rank == Min(ranks \cap RewardedRanks(WeeklyConfig, n))
            amount == Rewards(WeeklyConfig, n, pool["WEEKLY"])[rank]
<1>1. /\ ranks \cap RewardedRanks(WeeklyConfig, n) # {}
      /\ weekClaim[w][p] = NULL
      /\ PayFrom("WEEKLY", p, amount)
      /\ weekClaim' = [weekClaim EXCEPT ![w][p] = [rank |-> rank, amount |-> amount]]
      /\ weekAllocation' = [weekAllocation EXCEPT
                              ![w] = @ \cup {[rank |-> rank, player |-> p, amount |-> amount]}]
      /\ UNCHANGED <<treasury, session, stats, runs, weekMeta, weekScore, weekBoard>>
  BY DEF ClaimWeeklyReward, WeekUnclaimed
<1>2. n \in Nat
  <2>1. IsFiniteSet(weekBoard[w])
    BY DEF TypeInv, WeeklyTypes
  <2>2. IsFiniteSet(ReadEntries(w))
    BY <2>1, FS_Subset DEF ReadEntries
  <2>. QED BY <2>2, FS_CardinalityType
<1>3. pool["WEEKLY"] \in Nat
  BY DEF TypeInv, StateTypeOK, PoolId
<1>4. rank \in Nat /\ amount \in Nat
  <2>1. WeeklyConfig \in RewardConfig
    BY WeeklyAssumption
  <2>. HIDE DEF n, ranks
  <2>. QED BY <1>1, <1>2, <1>3, <2>1, FoundReward
<1>. HIDE DEF n, ranks, rank, amount
<1>. QED BY <1>1, <1>4

LEMMA ClaimWeeklyTypes ==
  ASSUME TypeInv, NEW p \in Player, NEW w \in Week, NEW now \in Time,
         ClaimWeeklyReward(p, w, now)
  PROVE  StateTypeOK' /\ PeriodsKnown' /\ WeeklyTypes'
<1>1. PICK rank \in Nat, amount \in Nat :
        /\ PayFrom("WEEKLY", p, amount)
        /\ weekClaim' = [weekClaim EXCEPT ![w][p] = [rank |-> rank, amount |-> amount]]
        /\ weekAllocation' = [weekAllocation EXCEPT
                                ![w] = @ \cup {[rank |-> rank, player |-> p, amount |-> amount]}]
        /\ UNCHANGED <<treasury, session, stats, runs, weekMeta, weekScore, weekBoard>>
  BY WeeklyClaimPays
<1>2. StateTypeOK'
  BY <1>1, PayTypes DEF TypeInv, StateTypeOK, PoolId
<1>3. PeriodsKnown'
  BY <1>1, Frames DEF TypeInv
<1>4. WeeklyTypes'
  <2>1. weekClaim' \in [Week -> [Player -> [rank : Nat, amount : Nat] \cup {NULL}]]
    BY <1>1 DEF TypeInv, WeeklyTypes, WeeklyRecordsOK
  <2>2. weekAllocation' \in [Week -> SUBSET [rank : Nat, player : Player, amount : Nat]]
    BY <1>1 DEF TypeInv, WeeklyTypes, WeeklyRecordsOK
  <2>. QED BY <1>1, <2>1, <2>2 DEF TypeInv, WeeklyTypes, WeeklyRecordsOK
<1>. QED BY <1>2, <1>3, <1>4

PointsRecord ==
  [balance : Nat, earned : Nat, streak : 0 .. Len(LoginRewardPoints),
   lastLogin : Day \cup {NULL}, bonusDate : Day \cup {NULL}]

LEMMA StartClassicTypes ==
  ASSUME TypeInv, NEW p \in Player, NEW g \in GameId, NEW fee \in ClassicFee,
         StartClassicGame(p, g, fee)
  PROVE  StateTypeOK' /\ PeriodsKnown' /\ ClassicTypes'
<1>. DEFINE split == SplitFee(ClassicBps, fee)
<1>1. fee \in Nat /\ split \in [PoolId -> Nat]
  BY SeasonAssumption, SplitTypes
<1>2. /\ session' = [session EXCEPT ![g] = NewSession(p, "classic", 0, 0)]
      /\ stats' = CountGame(p, "classic") /\ ChargeEntry(p, fee, split)
      /\ UNCHANGED <<pointsVars, seasonVars>>
  BY DEF StartClassicGame
<1>. HIDE DEF split
<1>3. session' \in [GameId -> SessionRecord \cup {NULL}] /\ PeriodsKnown'
  <2>1. "classic" \in Mode /\ 0 \in Nat
    BY DEF Mode
  <2>. QED BY <1>2, <2>1, NewSessionTypes DEF TypeInv
<1>4. StateTypeOK'
  BY <1>1, <1>2, <1>3, ChargeTypes, CountTypes DEF TypeInv, StateTypeOK
<1>. QED BY <1>2, <1>3, <1>4, Frames DEF TypeInv

\* What a game earns, within what the day's cap leaves.
LEMMA CappedNat ==
  ASSUME ClassicTypes, NEW p \in Player, NEW d \in Day, NEW score \in Nat
  PROVE  /\ CappedPoints(p, d, score) \in Nat
         /\ ledger[d][p] \in Nat
         /\ ledger[d][p] + CappedPoints(p, d, score) <= PointsCap
<1>. DEFINE game == GamePoints(score)
            left == PointsCap - ledger[d][p]
            room == Max({0, left})
<1>1. PointsCap \in Nat /\ ledger[d][p] \in 0 .. PointsCap
  BY PointsAssumption DEF ClassicTypes, ClassicRecordsOK
<1>2. left \in Nat
  BY <1>1
<1>3. game \in Nat
  <2>. DEFINE worth == score \div 24
  <2>1. 1000 \in Nat /\ worth \in Nat
    OBVIOUS
  <2>2. game = IF score < 64 THEN 0 ELSE Min({1000, worth})
    BY DEF GamePoints
  <2>. DEFINE most == 1000
  <2>. HIDE DEF worth, game
  <2>3. Min({most, worth}) \in Nat
    <3>1. most \in Nat
      OBVIOUS
    <3>. HIDE DEF most
    <3>. QED BY <2>1, <3>1, MinNat, Zenon
  <2>. QED BY <2>2, <2>3
<1>4. room = left
  <2>1. 0 \in Int /\ left \in Int
    BY <1>2
  <2>. DEFINE none == 0
  <2>2. (Max({none, left}) = none /\ left <= none) \/ (Max({none, left}) = left /\ none <= left)
    <3>1. none \in Int /\ left \in Int
      BY <2>1
    <3>. HIDE DEF none, left
    <3>. QED BY <3>1, MaxOfTwo, Zenon
  <2>. QED BY <1>2, <2>2
<1>5. CappedPoints(p, d, score) = Min({game, room})
  BY DEF CappedPoints
<1>. HIDE DEF game, room
<1>6. Min({game, room}) \in Nat /\ Min({game, room}) <= room
  <2>1. room \in Nat
    BY <1>2, <1>4
  <2>. QED BY <1>3, <2>1, MinNat, Zenon
<1>. QED BY <1>1, <1>2, <1>4, <1>5, <1>6

LEMMA EarnedNat ==
  ASSUME ClassicTypes, NEW p \in Player, NEW d \in Day, NEW score \in Nat
  PROVE  EarnedPoints(p, d, score) \in Nat
<1>. DEFINE c == CappedPoints(p, d, score)
            bonus == BonusBps(p, d)
<1>1. c \in Nat /\ bonus \in Nat
  BY CappedNat, PointsAssumption DEF BonusBps
<1>2. EarnedPoints(p, d, score) = c + BpsAmount(c, bonus)
  BY DEF EarnedPoints
<1>. HIDE DEF c, bonus
<1>3. BpsAmount(c, bonus) \in Nat
  <2>1. c * bonus \in Nat
    BY <1>1
  <2>. QED BY <2>1 DEF BpsAmount, BpsDenominator
<1>. QED BY <1>1, <1>2, <1>3

\* The points after a game.
LEMMA EarnAfter ==
  ASSUME points \in [Player -> PointsRecord], NEW p \in Player, NEW x \in Nat,
         points' = [points EXCEPT ![p] = Credited(@, x)]
  PROVE  /\ points' \in [Player -> PointsRecord]
         /\ points'[p] = Credited(points[p], x)
         /\ \A q \in Player : q # p => points'[q] = points[q]
<1>1. Credited(points[p], x) \in PointsRecord
  BY DEF PointsRecord, Credited
<1>. QED BY <1>1

LEMMA SubmitClassicTypes ==
  ASSUME TypeInv, NEW p \in Player, NEW g \in GameId, NEW now \in Time, NEW score \in ClassicScore,
         SubmitClassicResult(p, g, now, score)
  PROVE  StateTypeOK' /\ PeriodsKnown' /\ ClassicTypes'
<1>. DEFINE d == DateOf(now)
            m == MonthOf(now)
            entry == [player |-> p, score |-> score, game |-> g, ended |-> now]
            new == EntryAfter(monthEntry[m][p], g, score)
            shown == [entry EXCEPT !.score = new.score]
            entries == MonthBoardAfter(monthBoard[m], shown, monthEntry[m][p])
<1>1. /\ OwnsActiveSession(p, g)
      /\ new.score <= MaxTotal
      /\ session' = [session EXCEPT ![g] = CompletedSession(@)]
      /\ stats' = CountGame(p, "completed")
      /\ EarnClassicPoints(p, now, score)
      /\ classicBoard' = Put(classicBoard, entry)
      /\ monthEntry' = [monthEntry EXCEPT ![m][p] = new]
      /\ monthBoard' = [monthBoard EXCEPT ![m] = entries]
      /\ UNCHANGED <<account, pool, treasury, monthClaim, monthAllocation>>
  BY DEF SubmitClassicResult
<1>2. score \in Nat /\ now \in Nat /\ MaxTotal \in Nat /\ d \in Day /\ m \in Month
  BY SeasonAssumption, TimeTypes
<1>3. session' \in [GameId -> SessionRecord \cup {NULL}] /\ PeriodsKnown'
  BY <1>1, CompletedTypes DEF TypeInv
<1>4. StateTypeOK'
  BY <1>1, <1>3, CountTypes DEF TypeInv, StateTypeOK
<1>5. new \in [score : 0 .. MaxTotal, game : GameId \cup {NULL}]
  <2>. DEFINE record == monthEntry[m][p]
  <2>1. record \in [score : 0 .. MaxTotal, game : GameId \cup {NULL}] \cup {NULL}
    BY <1>2 DEF TypeInv, ClassicTypes, ClassicRecordsOK
  <2>2. new = [score |-> score + IF record = NULL THEN 0 ELSE record.score, game |-> StoredGame(g)]
    BY DEF EntryAfter
  <2>. HIDE DEF record, new
  <2>3. (IF record = NULL THEN 0 ELSE record.score) \in Nat
    BY <1>2, <2>1
  <2>. QED BY <1>1, <1>2, <2>2, <2>3 DEF StoredGame
<1>6. entry \in BoardEntry /\ shown \in BoardEntry
  <2>1. new.score \in Nat
    BY <1>2, <1>5
  <2>. HIDE DEF new
  <2>. QED BY <1>2, <2>1 DEF BoardEntry
<1>7. classicBoard' \subseteq BoardEntry
  <2>. HIDE DEF entry
  <2>. QED BY <1>1, <1>6 DEF Put, TypeInv, ClassicTypes, ClassicRecordsOK
<1>8. monthBoard[m] \in SUBSET BoardEntry /\ IsFiniteSet(monthBoard[m])
  BY <1>2 DEF TypeInv, ClassicTypes, ClassicRecordsOK
<1>9. entries \subseteq monthBoard[m] \cup {shown}
  BY DEF MonthBoardAfter, Put
<1>10. IsFiniteSet(entries)
  <2>. HIDE DEF entries, shown
  <2>1. IsFiniteSet(monthBoard[m] \cup {shown})
    BY <1>8, FS_AddElement
  <2>. QED BY <1>9, <2>1, FS_Subset
<1>11. points' \in [Player -> PointsRecord] /\ ledger' \in [Day -> [Player -> 0 .. PointsCap]]
  <2>. DEFINE capped == CappedPoints(p, d, score)
              x == EarnedPoints(p, d, score)
  <2>1. /\ points' = [points EXCEPT ![p] = Credited(@, x)]
        /\ ledger' = [ledger EXCEPT ![d][p] = @ + capped]
    BY <1>1 DEF EarnClassicPoints
  <2>2. /\ capped \in Nat /\ x \in Nat /\ ledger[d][p] \in Nat
        /\ ledger[d][p] + capped <= PointsCap
    BY <1>2, CappedNat, EarnedNat DEF TypeInv
  <2>. HIDE DEF capped, x, d
  <2>3. points \in [Player -> PointsRecord]
    BY DEF TypeInv, ClassicTypes, ClassicRecordsOK, PointsRecord
  <2>4. points' \in [Player -> PointsRecord]
    BY <2>1, <2>2, <2>3, EarnAfter
  <2>5. ledger[d][p] + capped \in 0 .. PointsCap
    BY <2>2, PointsAssumption
  <2>6. ledger' \in [Day -> [Player -> 0 .. PointsCap]]
    BY <1>2, <2>1, <2>5 DEF TypeInv, ClassicTypes, ClassicRecordsOK
  <2>. QED BY <2>4, <2>6
<1>12. ClassicTypes'
  <2>. HIDE DEF entries, shown, entry, new, m
  <2>1. monthBoard' \in [Month -> SUBSET BoardEntry] /\ \A v \in Month : IsFiniteSet(monthBoard'[v])
    BY <1>1, <1>2, <1>6, <1>8, <1>9, <1>10 DEF TypeInv, ClassicTypes, ClassicRecordsOK
  <2>2. monthEntry' \in [Month -> [Player -> [score : 0 .. MaxTotal, game : GameId \cup {NULL}]
                                              \cup {NULL}]]
    BY <1>1, <1>2, <1>5 DEF TypeInv, ClassicTypes, ClassicRecordsOK
  <2>3. UNCHANGED <<loginClaim, redemption>>
    BY <1>1 DEF EarnClassicPoints
  <2>. QED BY <1>1, <1>7, <1>11, <2>1, <2>2, <2>3
           DEF TypeInv, ClassicTypes, ClassicRecordsOK, PointsRecord
<1>. QED BY <1>3, <1>4, <1>12

\* What a claim of a month pays and records.
LEMMA MonthlyClaimPays ==
  ASSUME TypeInv, NEW p \in Player, NEW m \in Month, NEW now \in Time,
         ClaimMonthlyReward(p, m, now)
  PROVE  \E rank \in Nat, amount \in Nat :
           /\ monthClaim[m][p] = NULL
           /\ PayFrom("MONTHLY", p, amount)
           /\ monthClaim' = [monthClaim EXCEPT ![m][p] = [rank |-> rank, amount |-> amount]]
           /\ monthAllocation' = [monthAllocation EXCEPT
                                    ![m] = @ \cup {[rank |-> rank, player |-> p, amount |-> amount]}]
           /\ UNCHANGED <<treasury, session, stats, pointsVars, classicBoard, monthEntry, monthBoard>>
<1>. DEFINE n == Cardinality(MonthRead(m))
            ranks == MonthRanksFound(p, m)
            rank == Min(ranks \cap RewardedRanks(MonthlyConfig, n))
            amount == Rewards(MonthlyConfig, n, pool["MONTHLY"])[rank]
<1>1. /\ ranks \cap RewardedRanks(MonthlyConfig, n) # {}
      /\ monthClaim[m][p] = NULL
      /\ PayFrom("MONTHLY", p, amount)
      /\ monthClaim' = [monthClaim EXCEPT ![m][p] = [rank |-> rank, amount |-> amount]]
      /\ monthAllocation' = [monthAllocation EXCEPT
                               ![m] = @ \cup {[rank |-> rank, player |-> p, amount |-> amount]}]
      /\ UNCHANGED <<treasury, session, stats, pointsVars, classicBoard, monthEntry, monthBoard>>
  BY DEF ClaimMonthlyReward, MonthUnclaimed
<1>2. n \in Nat
  <2>1. IsFiniteSet(monthBoard[m])
    BY DEF TypeInv, ClassicTypes
  <2>2. IsFiniteSet(MonthRead(m))
    BY <2>1, FS_Subset DEF MonthRead
  <2>. QED BY <2>2, FS_CardinalityType
<1>3. pool["MONTHLY"] \in Nat
  BY DEF TypeInv, StateTypeOK, PoolId
<1>4. rank \in Nat /\ amount \in Nat
  <2>1. MonthlyConfig \in RewardConfig
    BY SeasonAssumption
  <2>. HIDE DEF n, ranks
  <2>. QED BY <1>1, <1>2, <1>3, <2>1, FoundReward
<1>. HIDE DEF n, ranks, rank, amount
<1>. QED BY <1>1, <1>4

LEMMA ClaimMonthlyTypes ==
  ASSUME TypeInv, NEW p \in Player, NEW m \in Month, NEW now \in Time,
         ClaimMonthlyReward(p, m, now)
  PROVE  StateTypeOK' /\ PeriodsKnown' /\ ClassicTypes'
<1>1. PICK rank \in Nat, amount \in Nat :
        /\ PayFrom("MONTHLY", p, amount)
        /\ monthClaim' = [monthClaim EXCEPT ![m][p] = [rank |-> rank, amount |-> amount]]
        /\ monthAllocation' = [monthAllocation EXCEPT
                                 ![m] = @ \cup {[rank |-> rank, player |-> p, amount |-> amount]}]
        /\ UNCHANGED <<treasury, session, stats, pointsVars, classicBoard, monthEntry, monthBoard>>
  BY MonthlyClaimPays
<1>2. StateTypeOK'
  BY <1>1, PayTypes DEF TypeInv, StateTypeOK, PoolId
<1>3. PeriodsKnown'
  BY <1>1, Frames DEF TypeInv
<1>4. ClassicTypes'
  <2>1. monthClaim' \in [Month -> [Player -> [rank : Nat, amount : Nat] \cup {NULL}]]
    BY <1>1 DEF TypeInv, ClassicTypes, ClassicRecordsOK
  <2>2. monthAllocation' \in [Month -> SUBSET [rank : Nat, player : Player, amount : Nat]]
    BY <1>1 DEF TypeInv, ClassicTypes, ClassicRecordsOK
  <2>. QED BY <1>1, <2>1, <2>2 DEF TypeInv, ClassicTypes, ClassicRecordsOK, pointsVars
<1>. QED BY <1>2, <1>3, <1>4

LEMMA StreakShape ==
  ASSUME ClassicTypes, NEW p \in Player, NEW d \in Day
  PROVE  /\ NextStreak(p, d) \in 1 .. Len(LoginRewardPoints)
         /\ LoginRewardPoints[NextStreak(p, d)] \in Nat
         /\ Len(LoginRewardPoints) \in Nat
<1>1. LoginRewardPoints \in Seq(Nat) /\ Len(LoginRewardPoints) > 0
  BY PointsAssumption
<1>2. Len(LoginRewardPoints) \in Nat /\ \A k \in 1 .. Len(LoginRewardPoints) : LoginRewardPoints[k] \in Nat
  BY <1>1
<1>3. points[p].streak \in 0 .. Len(LoginRewardPoints)
  BY DEF ClassicTypes, ClassicRecordsOK
<1>4. NextStreak(p, d) \in 1 .. Len(LoginRewardPoints)
  BY <1>1, <1>2, <1>3 DEF NextStreak
<1>. QED BY <1>2, <1>4

LEMMA LoginTypes ==
  ASSUME TypeInv, NEW p \in Player, NEW now \in Time, ClaimDailyLoginReward(p, now),
         UNCHANGED seasonVars
  PROVE  StateTypeOK' /\ PeriodsKnown' /\ ClassicTypes'
<1>. DEFINE d == DateOf(now)
            streak == NextStreak(p, d)
            reward == LoginRewardPoints[streak]
            bonus == IF streak >= Len(LoginRewardPoints) THEN LoginBonusBps ELSE 0
            new == [balance |-> points[p].balance + reward, earned |-> points[p].earned + reward,
                    streak |-> streak, lastLogin |-> d,
                    bonusDate |-> IF bonus > 0 THEN d ELSE NULL]
<1>1. /\ points' = [points EXCEPT ![p] = new]
      /\ loginClaim' = [loginClaim EXCEPT
                          ![d][p] = [streak |-> streak, reward |-> reward, bonus |-> bonus]]
      /\ UNCHANGED <<stateVars, ledger, redemption>>
  BY DEF ClaimDailyLoginReward
<1>2. /\ d \in Day /\ streak \in 1 .. Len(LoginRewardPoints) /\ reward \in Nat
      /\ Len(LoginRewardPoints) \in Nat /\ bonus \in Nat
  BY TimeTypes, StreakShape, PointsAssumption DEF TypeInv
<1>. HIDE DEF d, streak, reward, bonus
<1>3. points[p] \in PointsRecord
  BY DEF TypeInv, ClassicTypes, ClassicRecordsOK, PointsRecord
<1>4. new \in PointsRecord
  BY <1>2, <1>3 DEF PointsRecord
<1>5. points' \in [Player -> PointsRecord]
  <2>. HIDE DEF new
  <2>. QED BY <1>1, <1>4 DEF TypeInv, ClassicTypes, ClassicRecordsOK, PointsRecord
<1>6. [streak |-> streak, reward |-> reward, bonus |-> bonus]
        \in [streak : Nat, reward : Nat, bonus : Nat]
  BY <1>2
<1>7. loginClaim' \in [Day -> [Player -> [streak : Nat, reward : Nat, bonus : Nat] \cup {NULL}]]
  BY <1>1, <1>2, <1>6 DEF TypeInv, ClassicTypes, ClassicRecordsOK
<1>8. ClassicTypes'
  BY <1>1, <1>5, <1>7 DEF TypeInv, ClassicTypes, ClassicRecordsOK, PointsRecord, seasonVars
<1>9. StateTypeOK' /\ PeriodsKnown'
  BY <1>1, Frames DEF TypeInv, StateTypeOK, stateVars
<1>. QED BY <1>8, <1>9

LEMMA RedeemNat ==
  ASSUME NEW burn \in Nat
  PROVE  RedeemPayout(burn) \in Nat
<1>1. RateCnpy \in Nat /\ RatePoints \in Nat \ {0}
  BY PointsAssumption
<1>2. burn * RateCnpy \in Nat
  BY <1>1
<1>. QED BY <1>1, <1>2 DEF RedeemPayout

LEMMA RedeemTypes ==
  ASSUME TypeInv, NEW p \in Player, NEW burn \in Burn, NEW now \in Time,
         RedeemClassicPoints(p, burn, now), UNCHANGED seasonVars
  PROVE  StateTypeOK' /\ PeriodsKnown' /\ ClassicTypes'
<1>. DEFINE payout == RedeemPayout(burn)
            source == IF pool["SHOP"] >= payout THEN "SHOP" ELSE "DAO"
<1>1. /\ burn <= points[p].balance
      /\ treasury["SHOP"] >= payout
      /\ PayFrom(source, p, payout)
      /\ treasury' = [treasury EXCEPT !["SHOP"] = @ - payout]
      /\ points' = [points EXCEPT ![p].balance = @ - burn]
      /\ redemption' = {r \in redemption : r.player # p \/ r.time # now \/ r.burned # burn}
                         \cup {[player |-> p, time |-> now, burned |-> burn, payout |-> payout]}
      /\ UNCHANGED <<session, stats, ledger, loginClaim>>
  BY DEF RedeemClassicPoints, RedemptionValid, MirrorAfterRedemption
<1>2. burn \in Nat /\ payout \in Nat /\ source \in PoolId
  BY PointsAssumption, RedeemNat DEF PoolId
<1>. HIDE DEF payout, source
<1>3. treasury' \in [MirroredPool -> Nat]
  BY <1>1, <1>2 DEF TypeInv, StateTypeOK, MirroredPool
<1>4. StateTypeOK'
  BY <1>1, <1>2, <1>3, PayTypes DEF TypeInv, StateTypeOK
<1>5. PeriodsKnown'
  BY <1>1, Frames DEF TypeInv
<1>6. points' \in [Player -> PointsRecord]
  <2>1. points \in [Player -> PointsRecord]
    BY DEF TypeInv, ClassicTypes, ClassicRecordsOK, PointsRecord
  <2>2. points[p].balance - burn \in Nat /\ points[p] \in PointsRecord
    <3>1. points[p].balance \in Nat
      BY <2>1 DEF PointsRecord
    <3>. QED BY <1>1, <1>2, <2>1, <3>1
  <2>. DEFINE left == points[p].balance - burn
              new == [points[p] EXCEPT !.balance = left]
  <2>3. points' = [points EXCEPT ![p] = new]
    BY <1>1
  <2>4. new \in PointsRecord
    <3>. HIDE DEF left
    <3>. QED BY <2>2 DEF PointsRecord, left
  <2>. HIDE DEF new
  <2>. QED BY <2>1, <2>3, <2>4
<1>7. redemption' \subseteq [player : Player, time : Time, burned : Nat, payout : Nat]
  BY <1>1, <1>2 DEF TypeInv, ClassicTypes, ClassicRecordsOK
<1>8. ClassicTypes'
  BY <1>1, <1>6, <1>7 DEF TypeInv, ClassicTypes, ClassicRecordsOK, PointsRecord, seasonVars
<1>. QED BY <1>4, <1>5, <1>8

LEMMA AdminTypes ==
  ASSUME TypeInv, AdminNext
  PROVE  StateTypeOK' /\ PeriodsKnown'
<1>1. ASSUME NEW from \in Player, NEW to \in Player, NEW amount \in Amount, NEW fee \in SendFee,
             MessageSend(from, to, amount, fee)
      PROVE  StateTypeOK' /\ UNCHANGED session
  <2>1. amount \in Nat /\ fee \in Nat
    BY AdminAssumption
  <2>2. \A a \in Player : account[a] \in Nat
    BY DEF TypeInv, StateTypeOK
  <2>3. account' \in [Player -> Nat]
    <3>1. account[from] - amount - fee \in Nat /\ account[to] + amount \in Nat
      <4>1. account[from] \in Nat /\ account[to] \in Nat
        BY <2>2
      <4>. QED BY <1>1, <2>1, <4>1 DEF MessageSend
    <3>. QED BY <1>1, <2>2, <3>1 DEF MessageSend, AfterSend
  <2>4. pool' \in [PoolId -> Nat]
    <3>1. pool["FEE"] + fee \in Nat
      BY <2>1 DEF TypeInv, StateTypeOK, PoolId
    <3>. QED BY <1>1, <3>1 DEF MessageSend, TypeInv, StateTypeOK
  <2>. QED BY <1>1, <2>3, <2>4 DEF MessageSend, TypeInv, StateTypeOK
<1>2. ASSUME NEW i \in PoolId, NEW j \in PoolId, NEW amount \in Amount, PoolTransfer(i, j, amount)
      PROVE  StateTypeOK' /\ UNCHANGED session
  <2>1. amount \in Nat
    BY AdminAssumption
  <2>2. pool' \in [PoolId -> Nat]
    BY <1>2, <2>1 DEF PoolTransfer, TypeInv, StateTypeOK
  <2>. QED BY <1>2, <2>2 DEF PoolTransfer, TypeInv, StateTypeOK
<1>3. ASSUME NEW p \in Player, NEW amount \in Amount, PoolDeposit(p, amount)
      PROVE  StateTypeOK' /\ UNCHANGED session
  <2>1. amount \in Nat
    BY AdminAssumption
  <2>2. account' \in [Player -> Nat] /\ pool' \in [PoolId -> Nat]
    <3>1. pool["RESERVE"] + amount \in Nat
      BY <2>1 DEF TypeInv, StateTypeOK, PoolId
    <3>2. account[p] - amount \in Nat
      BY <1>3, <2>1 DEF PoolDeposit, TypeInv, StateTypeOK
    <3>3. account' \in [Player -> Nat]
      BY <1>3, <3>2 DEF PoolDeposit, TypeInv, StateTypeOK
    <3>4. pool' \in [PoolId -> Nat]
      BY <1>3, <3>1 DEF PoolDeposit, TypeInv, StateTypeOK
    <3>. QED BY <3>3, <3>4
  <2>. QED BY <1>3, <2>2 DEF PoolDeposit, TypeInv, StateTypeOK
<1>4. ASSUME NEW i \in PoolId, NEW p \in Player, NEW amount \in Amount, PoolWithdrawal(i, p, amount)
      PROVE  StateTypeOK' /\ UNCHANGED session
  <2>1. amount \in Nat
    BY AdminAssumption
  <2>. QED BY <1>4, <2>1, PayTypes DEF PoolWithdrawal, TypeInv, StateTypeOK
<1>. QED BY <1>1, <1>2, <1>3, <1>4, Frames DEF AdminNext, TypeInv

LEMMA DailyStepTypes ==
  ASSUME TypeInv, DailyNext
  PROVE  StateTypeOK' /\ PeriodsKnown' /\ DailyTypes'
BY StartDailyTypes, SubmitDailyTypes, ClaimDailyTypes DEF DailyNext

LEMMA WeeklyStepTypes ==
  ASSUME TypeInv, WeeklyNext
  PROVE  StateTypeOK' /\ PeriodsKnown' /\ WeeklyTypes'
BY StartWeeklyTypes, SubmitWeeklyTypes, ClaimWeeklyTypes DEF WeeklyNext

LEMMA ClassicStepTypes ==
  ASSUME TypeInv, ClassicNext
  PROVE  StateTypeOK' /\ PeriodsKnown' /\ ClassicTypes'
<1>1. CASE SeasonNext
  BY <1>1, StartClassicTypes, SubmitClassicTypes, ClaimMonthlyTypes DEF SeasonNext
<1>2. CASE PointsNext /\ UNCHANGED seasonVars
  BY <1>2, LoginTypes, RedeemTypes DEF PointsNext
<1>. QED BY <1>1, <1>2 DEF ClassicNext

\* Every message keeps every record in its type.
LEMMA TypesStep ==
  ASSUME TypeInv, [ArcadeNext]_arcadeVars
  PROVE  TypeInv'
<1>1. CASE DailyNext /\ UNCHANGED <<weeklyVars, pointsVars, seasonVars>>
  BY <1>1, DailyStepTypes, Frames DEF TypeInv
<1>2. CASE WeeklyNext /\ UNCHANGED <<dailyVars, pointsVars, seasonVars>>
  BY <1>2, WeeklyStepTypes, Frames DEF TypeInv
<1>3. CASE ClassicNext /\ UNCHANGED <<dailyVars, weeklyVars>>
  BY <1>3, ClassicStepTypes, Frames DEF TypeInv
<1>4. CASE AdminNext /\ UNCHANGED <<dailyVars, weeklyVars, pointsVars, seasonVars>>
  BY <1>4, AdminTypes, Frames DEF TypeInv
<1>5. CASE UNCHANGED arcadeVars
  <2>1. UNCHANGED <<dailyVars, weeklyVars, pointsVars, seasonVars>> /\ UNCHANGED session
    BY <1>5 DEF arcadeVars, stateVars
  <2>2. StateTypeOK'
    BY <1>5 DEF arcadeVars, stateVars, TypeInv, StateTypeOK
  <2>. QED BY <2>1, <2>2, Frames DEF TypeInv
<1>. QED BY <1>1, <1>2, <1>3, <1>4, <1>5 DEF ArcadeNext, GameNext

\* Whatever messages interleave, every record of every mode keeps its shape: no
\* account, pool or mirror is ever negative, no day's finalization hands out more
\* than its pool, and the caps of runs and points hold.
THEOREM ArcadeAlwaysTyped == ArcadeSpec => []ArcadeTypeOK
<1>1. ArcadeInit => TypeInv
  BY TypesAtFirst
<1>2. TypeInv /\ [ArcadeNext]_arcadeVars => TypeInv'
  BY TypesStep
<1>3. TypeInv => ArcadeTypeOK
  BY DEF TypeInv, DailyTypes, WeeklyTypes, ClassicTypes, ArcadeTypeOK,
         DailyTypeOK, WeeklyTypeOK, ClassicTypeOK
<1>. QED BY <1>1, <1>2, <1>3, PTL DEF ArcadeSpec

\* The messages that change the records of classic mode, and those that change
\* the records of a week.
LEMMA ClassicSteps ==
  ASSUME [ArcadeNext]_arcadeVars
  PROVE  \/ UNCHANGED <<pointsVars, seasonVars>>
         \/ \E p \in Player, g \in GameId, now \in Time, score \in ClassicScore :
              SubmitClassicResult(p, g, now, score)
         \/ \E p \in Player, m \in Month, now \in Time : ClaimMonthlyReward(p, m, now)
         \/ /\ UNCHANGED seasonVars
            /\ \/ \E p \in Player, now \in Time : ClaimDailyLoginReward(p, now)
               \/ \E p \in Player, burn \in Burn, now \in Time : RedeemClassicPoints(p, burn, now)
<1>1. ASSUME NEW p \in Player, NEW g \in GameId, NEW fee \in ClassicFee, StartClassicGame(p, g, fee)
      PROVE  UNCHANGED <<pointsVars, seasonVars>>
  BY <1>1 DEF StartClassicGame
<1>2. UNCHANGED arcadeVars => UNCHANGED <<pointsVars, seasonVars>>
  BY DEF arcadeVars
<1>. QED
  BY <1>1, <1>2, Zenon DEF ArcadeNext, GameNext, ClassicNext, SeasonNext, PointsNext

LEMMA WeeklySteps ==
  ASSUME [ArcadeNext]_arcadeVars
  PROVE  UNCHANGED weeklyVars \/ WeeklyNext
<1>1. UNCHANGED arcadeVars => UNCHANGED weeklyVars
  BY DEF arcadeVars
<1>. QED BY <1>1, Zenon DEF ArcadeNext, GameNext

-----------------------------------------------------------------------------
(***************************************************************************)
(* Login streaks: a claim is written once, after the claim it continues.   *)
(***************************************************************************)

\* The last login of a player is claimed, on the day of the streak it records.
LastLoginClaimed ==
  \A p \in Player :
    points[p].lastLogin # NULL =>
      /\ loginClaim[points[p].lastLogin][p] # NULL
      /\ loginClaim[points[p].lastLogin][p].streak = points[p].streak

LEMMA LoginStep ==
  ASSUME TypeInv, LastLoginClaimed, StreakWitnessed, NEW p \in Player, NEW now \in Time,
         ClaimDailyLoginReward(p, now)
  PROVE  LastLoginClaimed' /\ StreakWitnessed'
<1>. DEFINE d == DateOf(now)
            streak == NextStreak(p, d)
            reward == LoginRewardPoints[streak]
            bonus == IF streak >= Len(LoginRewardPoints) THEN LoginBonusBps ELSE 0
            new == [balance |-> points[p].balance + reward, earned |-> points[p].earned + reward,
                    streak |-> streak, lastLogin |-> d,
                    bonusDate |-> IF bonus > 0 THEN d ELSE NULL]
            receipt == [streak |-> streak, reward |-> reward, bonus |-> bonus]
<1>1. /\ loginClaim[d][p] = NULL
      /\ points' = [points EXCEPT ![p] = new]
      /\ loginClaim' = [loginClaim EXCEPT ![d][p] = receipt]
  BY DEF ClaimDailyLoginReward
<1>2. /\ d \in Day /\ d \in Nat /\ streak \in 1 .. Len(LoginRewardPoints) /\ reward \in Nat
      /\ Len(LoginRewardPoints) \in Nat /\ bonus \in Nat
  BY TimeTypes, StreakShape, PointsAssumption DEF TypeInv
<1>3. receipt # NULL /\ receipt.streak = streak
  BY <1>2, PointsAssumption
<1>4. new.lastLogin = d /\ new.streak = streak
  OBVIOUS
<1>5. streak > 1 => /\ points[p].lastLogin = d - 1 /\ d - 1 \in Day
                    /\ loginClaim[d - 1][p] # NULL
                    /\ loginClaim[d - 1][p].streak = streak - 1
  <2>. SUFFICES ASSUME streak > 1
                PROVE  /\ points[p].lastLogin = d - 1 /\ d - 1 \in Day
                       /\ loginClaim[d - 1][p] # NULL
                       /\ loginClaim[d - 1][p].streak = streak - 1
    OBVIOUS
  <2>1. points[p].lastLogin = d - 1 /\ streak = points[p].streak + 1
    BY DEF NextStreak
  <2>2. d - 1 \in Int /\ d - 1 # NULL
    BY <1>2, StateAssumption
  <2>3. points[p].lastLogin \in Day \cup {NULL} /\ points[p].streak \in Nat
    BY <1>2 DEF TypeInv, ClassicTypes, ClassicRecordsOK
  <2>. HIDE DEF d, streak
  <2>. QED BY <2>1, <2>2, <2>3 DEF LastLoginClaimed
<1>. HIDE DEF d, streak, reward, bonus, new, receipt
<1>6. /\ \A q \in Player : points'[q] = IF q = p THEN new ELSE points[q]
      /\ \A c \in Day, q \in Player :
           loginClaim'[c][q] = IF c = d /\ q = p THEN receipt ELSE loginClaim[c][q]
  BY <1>1, <1>2 DEF TypeInv, ClassicTypes, ClassicRecordsOK
<1>7. LastLoginClaimed'
  <2>. SUFFICES ASSUME NEW q \in Player, points'[q].lastLogin # NULL
                PROVE  /\ loginClaim'[points'[q].lastLogin][q] # NULL
                       /\ loginClaim'[points'[q].lastLogin][q].streak = points'[q].streak
    BY DEF LastLoginClaimed
  <2>1. CASE q = p
    BY <1>2, <1>3, <1>4, <1>6, <2>1
  <2>2. CASE q # p
    <3>1. points[q].lastLogin \in Day /\ points'[q] = points[q]
      BY <1>6, <2>2 DEF TypeInv, ClassicTypes, ClassicRecordsOK
    <3>. QED BY <1>6, <2>2, <3>1 DEF LastLoginClaimed
  <2>. QED BY <2>1, <2>2
<1>8. StreakWitnessed'
  <2>. SUFFICES ASSUME NEW c \in Day, NEW q \in Player, loginClaim'[c][q] # NULL,
                       loginClaim'[c][q].streak > 1
                PROVE  /\ c - 1 \in Day
                       /\ loginClaim'[c - 1][q] # NULL
                       /\ loginClaim'[c - 1][q].streak = loginClaim'[c][q].streak - 1
    BY DEF StreakWitnessed
  <2>1. CASE c = d /\ q = p
    <3>1. d - 1 # d
      BY <1>2
    <3>. QED BY <1>3, <1>5, <1>6, <2>1, <3>1
  <2>2. CASE ~ (c = d /\ q = p)
    <3>1. loginClaim'[c][q] = loginClaim[c][q]
      BY <1>6, <2>2
    <3>2. /\ c - 1 \in Day /\ loginClaim[c - 1][q] # NULL
          /\ loginClaim[c - 1][q].streak = loginClaim[c][q].streak - 1
      BY <3>1 DEF StreakWitnessed
    <3>3. loginClaim'[c - 1][q] = loginClaim[c - 1][q]
      BY <1>1, <1>6, <3>2
    <3>. QED BY <3>1, <3>2, <3>3
  <2>. QED BY <2>1, <2>2
<1>. QED BY <1>7, <1>8

LEMMA StreakStep ==
  ASSUME TypeInv, LastLoginClaimed, StreakWitnessed, [ArcadeNext]_arcadeVars
  PROVE  LastLoginClaimed' /\ StreakWitnessed'
<1>1. ASSUME UNCHANGED loginClaim,
             \A p \in Player : /\ points'[p].lastLogin = points[p].lastLogin
                               /\ points'[p].streak = points[p].streak
      PROVE  LastLoginClaimed' /\ StreakWitnessed'
  BY <1>1 DEF LastLoginClaimed, StreakWitnessed
<1>2. points \in [Player -> PointsRecord]
  BY DEF TypeInv, ClassicTypes, ClassicRecordsOK, PointsRecord
<1>3. ASSUME NEW p \in Player, NEW g \in GameId, NEW now \in Time, NEW score \in ClassicScore,
             SubmitClassicResult(p, g, now, score)
      PROVE  LastLoginClaimed' /\ StreakWitnessed'
  <2>1. /\ points' = [points EXCEPT ![p] = Credited(@, EarnedPoints(p, DateOf(now), score))]
        /\ UNCHANGED loginClaim
    BY <1>3 DEF SubmitClassicResult, EarnClassicPoints
  <2>2. \A q \in Player : /\ points'[q].lastLogin = points[q].lastLogin
                          /\ points'[q].streak = points[q].streak
    BY <1>2, <2>1 DEF Credited
  <2>. QED BY <1>1, <2>1, <2>2
<1>4. ASSUME NEW p \in Player, NEW burn \in Burn, NEW now \in Time,
             RedeemClassicPoints(p, burn, now)
      PROVE  LastLoginClaimed' /\ StreakWitnessed'
  <2>1. points' = [points EXCEPT ![p].balance = @ - burn] /\ UNCHANGED loginClaim
    BY <1>4 DEF RedeemClassicPoints
  <2>2. \A q \in Player : /\ points'[q].lastLogin = points[q].lastLogin
                          /\ points'[q].streak = points[q].streak
    BY <1>2, <2>1 DEF PointsRecord
  <2>. QED BY <1>1, <2>1, <2>2
<1>5. ASSUME UNCHANGED <<points, loginClaim>>
      PROVE  LastLoginClaimed' /\ StreakWitnessed'
  BY <1>1, <1>5
<1>6. ASSUME NEW p \in Player, NEW m \in Month, NEW now \in Time, ClaimMonthlyReward(p, m, now)
      PROVE  UNCHANGED <<points, loginClaim>>
  BY <1>6 DEF ClaimMonthlyReward, pointsVars
<1>7. UNCHANGED <<pointsVars, seasonVars>> => UNCHANGED <<points, loginClaim>>
  BY DEF pointsVars
<1>. QED BY <1>3, <1>4, <1>5, <1>6, <1>7, LoginStep, ClassicSteps

\* Whatever dates their senders choose, a claim on a later day of a streak follows
\* a claim of the day before, one day earlier in the streak.
THEOREM StreaksAlwaysWitnessed == ArcadeSpec => []StreakWitnessed
<1>1. ArcadeInit => TypeInv /\ LastLoginClaimed /\ StreakWitnessed
  <2>1. ArcadeInit => LastLoginClaimed /\ StreakWitnessed
    BY DEF ArcadeInit, PointsRecordsInit, LastLoginClaimed, StreakWitnessed
  <2>. QED BY <2>1, TypesAtFirst
<1>2. /\ TypeInv /\ LastLoginClaimed /\ StreakWitnessed /\ [ArcadeNext]_arcadeVars
      => TypeInv' /\ LastLoginClaimed' /\ StreakWitnessed'
  BY TypesStep, StreakStep
<1>. QED BY <1>1, <1>2, PTL DEF ArcadeSpec

-----------------------------------------------------------------------------
(***************************************************************************)
(* The boards of weeks and months show what the records of players say.    *)
(***************************************************************************)

LEMMA MonthEntryStep ==
  ASSUME TypeInv, EntriesReachable,
         NEW p \in Player, NEW g \in GameId, NEW now \in Time, NEW score \in ClassicScore,
         SubmitClassicResult(p, g, now, score)
  PROVE  EntriesReachable'
<1>. DEFINE m == MonthOf(now)
            record == monthEntry[m][p]
            new == EntryAfter(record, g, score)
            result == [player |-> p, score |-> score, game |-> g, ended |-> now]
            shown == [result EXCEPT !.score = new.score]
            entries == MonthBoardAfter(monthBoard[m], shown, record)
<1>1. /\ monthEntry' = [monthEntry EXCEPT ![m][p] = new]
      /\ monthBoard' = [monthBoard EXCEPT ![m] = entries]
  BY DEF SubmitClassicResult
<1>2. m \in Month
  BY TimeTypes
<1>3. new = [score |-> new.score, game |-> StoredGame(g)]
  BY DEF EntryAfter
<1>4. /\ monthBoard[m] \subseteq BoardEntry
      /\ record \in [score : 0 .. MaxTotal, game : GameId \cup {NULL}] \cup {NULL}
  BY <1>2 DEF TypeInv, ClassicTypes, ClassicRecordsOK
<1>5. ASSUME NEW e \in entries, e.game \in FullGameId
      PROVE  /\ e.player \in Player
             /\ IF e.player = p THEN new = [score |-> e.score, game |-> e.game]
                ELSE monthEntry[m][e.player] = [score |-> e.score, game |-> e.game]
  <2>1. CASE e = shown
    <3>1. StoredGame(g) = g
      BY <1>5, <2>1 DEF StoredGame
    <3>2. shown.player = p /\ shown.score = new.score /\ shown.game = g
      OBVIOUS
    <3>. HIDE DEF new, shown
    <3>. QED BY <1>3, <2>1, <3>1, <3>2
  <2>2. CASE e # shown
    <3>1. /\ e \in monthBoard[m]
          /\ record # NULL => ~(e.score = record.score /\ e.game = record.game)
      BY <2>2 DEF MonthBoardAfter, Put
    <3>2. e.player \in Player /\ e.score \in Nat /\ e.game \in GameId
      BY <1>4, <3>1 DEF BoardEntry
    <3>3. monthEntry[m][e.player] = [score |-> e.score, game |-> e.game]
      BY <1>2, <1>5, <3>1 DEF EntriesReachable
    <3>4. [score |-> e.score, game |-> e.game] # NULL
      BY <3>2, SeasonAssumption
    <3>5. e.player # p
      BY <3>1, <3>3, <3>4
    <3>. QED BY <3>2, <3>3, <3>5
  <2>. QED BY <2>1, <2>2
<1>. HIDE DEF m, new, record, shown, entries
<1>6. /\ monthBoard'[m] = entries /\ \A c \in Month : c # m => monthBoard'[c] = monthBoard[c]
      /\ \A c \in Month, q \in Player :
           monthEntry'[c][q] = IF c = m /\ q = p THEN new ELSE monthEntry[c][q]
  BY <1>1, <1>2 DEF TypeInv, ClassicTypes, ClassicRecordsOK
<1>. SUFFICES ASSUME NEW c \in Month, NEW e \in monthBoard'[c], e.game \in FullGameId
              PROVE  monthEntry'[c][e.player] = [score |-> e.score, game |-> e.game]
  BY DEF EntriesReachable
<1>7. CASE c = m
  BY <1>2, <1>5, <1>6, <1>7
<1>8. CASE c # m
  <2>1. e \in monthBoard[c] /\ e.player \in Player
    BY <1>6, <1>8 DEF TypeInv, ClassicTypes, ClassicRecordsOK, BoardEntry
  <2>. QED BY <1>6, <1>8, <2>1 DEF EntriesReachable
<1>. QED BY <1>7, <1>8

LEMMA ReachableStep ==
  ASSUME TypeInv, EntriesReachable, [ArcadeNext]_arcadeVars
  PROVE  EntriesReachable'
<1>1. ASSUME UNCHANGED <<monthEntry, monthBoard>>
      PROVE  EntriesReachable'
  BY <1>1 DEF EntriesReachable
<1>2. ASSUME NEW p \in Player, NEW m \in Month, NEW now \in Time, ClaimMonthlyReward(p, m, now)
      PROVE  UNCHANGED <<monthEntry, monthBoard>>
  BY <1>2 DEF ClaimMonthlyReward
<1>3. UNCHANGED seasonVars => UNCHANGED <<monthEntry, monthBoard>>
  BY DEF seasonVars
<1>. QED BY <1>1, <1>2, <1>3, MonthEntryStep, ClassicSteps

\* The entry a month's board shows of a player is the one the player's record leads
\* to, unless its game id does not fill the slot of the record.
THEOREM EntriesAlwaysReachable == ArcadeSpec => []EntriesReachable
<1>1. ArcadeInit => TypeInv /\ EntriesReachable
  <2>1. ArcadeInit => EntriesReachable
    BY DEF ArcadeInit, SeasonRecordsInit, EntriesReachable
  <2>. QED BY <2>1, TypesAtFirst
<1>2. TypeInv /\ EntriesReachable /\ [ArcadeNext]_arcadeVars => TypeInv' /\ EntriesReachable'
  BY TypesStep, ReachableStep
<1>. QED BY <1>1, <1>2, PTL DEF ArcadeSpec

LEMMA TotalsStep ==
  ASSUME TypeInv, BoardShowsTotals,
         NEW p \in Player, NEW g \in GameId, NEW now \in Time, NEW score \in RunScore,
         SubmitWeeklyResult(p, g, now, score)
  PROVE  BoardShowsTotals'
<1>. DEFINE w == session[g].period
            record == weekScore[w][p]
            new == ScoreAfter(record, score, now)
            previous == PreviousTotal(w, p)
            entry == [player |-> p, score |-> new.total, game |-> g, ended |-> now]
            entries == BoardAfter(weekBoard[w], entry, previous)
<1>1. /\ OwnsActiveSession(p, g)
      /\ session[g].mode = "weekly"
      /\ weekScore' = [weekScore EXCEPT ![w][p] = new]
      /\ weekBoard' = [weekBoard EXCEPT ![w] = entries]
  BY DEF SubmitWeeklyResult
<1>2. w \in Week
  BY <1>1 DEF TypeInv, PeriodsKnown, OwnsActiveSession
<1>3. new # NULL
  <2>1. record \in [total : Nat, best : Nat, runs : Nat, updated : Nat] \cup {NULL}
    BY <1>2 DEF TypeInv, WeeklyTypes, WeeklyRecordsOK
  <2>2. score \in Nat /\ now \in Nat
    BY WeeklyAssumption, TimeTypes
  <2>. HIDE DEF record
  <2>3. new \in [total : Nat, best : Nat, runs : Nat, updated : Nat]
    BY <2>1, <2>2, ScoreAfterTypes
  <2>. QED BY <2>3, WeeklyAssumption
<1>. HIDE DEF new
<1>4. weekBoard[w] \subseteq WeekEntry /\ record = weekScore[w][p]
  BY <1>2 DEF TypeInv, WeeklyTypes, WeeklyRecordsOK
<1>5. ASSUME NEW e \in entries
      PROVE  /\ e.player \in Player
             /\ IF e.player = p THEN e.score > 0 => e.score = new.total
                ELSE /\ weekScore[w][e.player] # NULL
                     /\ e.score > 0 => e.score = weekScore[w][e.player].total
  <2>1. CASE e = entry
    BY <2>1
  <2>2. CASE e # entry
    <3>1. e \in weekBoard[w] /\ ~(previous > 0 /\ e.player = p /\ e.score = previous)
      BY <2>2 DEF BoardAfter
    <3>2. /\ e.player \in Player /\ weekScore[w][e.player] # NULL
          /\ e.score > 0 => e.score = weekScore[w][e.player].total
      BY <1>2, <1>4, <3>1 DEF BoardShowsTotals, WeekEntry
    <3>3. e.player = p => previous = record.total
      BY <3>2 DEF PreviousTotal
    <3>. QED BY <3>1, <3>2, <3>3
  <2>. QED BY <2>1, <2>2
<1>. HIDE DEF w, record, entry, entries, previous
<1>6. /\ weekBoard'[w] = entries /\ \A c \in Week : c # w => weekBoard'[c] = weekBoard[c]
      /\ \A c \in Week, q \in Player :
           weekScore'[c][q] = IF c = w /\ q = p THEN new ELSE weekScore[c][q]
  BY <1>1, <1>2 DEF TypeInv, WeeklyTypes, WeeklyRecordsOK
<1>. SUFFICES ASSUME NEW c \in Week, NEW e \in weekBoard'[c]
              PROVE  /\ weekScore'[c][e.player] # NULL
                     /\ e.score > 0 => e.score = weekScore'[c][e.player].total
  BY DEF BoardShowsTotals
<1>7. CASE c = w
  BY <1>2, <1>3, <1>5, <1>6, <1>7
<1>8. CASE c # w
  <2>1. e \in weekBoard[c] /\ e.player \in Player
    BY <1>6, <1>8 DEF TypeInv, WeeklyTypes, WeeklyRecordsOK, WeekEntry
  <2>. QED BY <1>6, <1>8, <2>1 DEF BoardShowsTotals
<1>. QED BY <1>7, <1>8

LEMMA BoardStep ==
  ASSUME TypeInv, BoardShowsTotals, [ArcadeNext]_arcadeVars
  PROVE  BoardShowsTotals'
<1>1. ASSUME UNCHANGED <<weekScore, weekBoard>>
      PROVE  BoardShowsTotals'
  BY <1>1 DEF BoardShowsTotals
<1>2. ASSUME NEW p \in Player, NEW g \in GameId, NEW now \in Time, StartWeeklyGame(p, g, now)
      PROVE  UNCHANGED <<weekScore, weekBoard>>
  BY <1>2 DEF StartWeeklyGame
<1>3. ASSUME NEW p \in Player, NEW w \in Week, NEW now \in Time, ClaimWeeklyReward(p, w, now)
      PROVE  UNCHANGED <<weekScore, weekBoard>>
  BY <1>3 DEF ClaimWeeklyReward
<1>4. UNCHANGED weeklyVars => UNCHANGED <<weekScore, weekBoard>>
  BY DEF weeklyVars
<1>. QED BY <1>1, <1>2, <1>3, <1>4, TotalsStep, WeeklySteps DEF WeeklyNext

\* A week's board shows no score that is not the whole week's total of its player,
\* but for zero.
THEOREM BoardAlwaysShowsTotals == ArcadeSpec => []BoardShowsTotals
<1>1. ArcadeInit => TypeInv /\ BoardShowsTotals
  <2>1. ArcadeInit => BoardShowsTotals
    BY DEF ArcadeInit, WeeklyRecordsInit, BoardShowsTotals
  <2>. QED BY <2>1, TypesAtFirst
<1>2. TypeInv /\ BoardShowsTotals /\ [ArcadeNext]_arcadeVars => TypeInv' /\ BoardShowsTotals'
  BY TypesStep, BoardStep
<1>. QED BY <1>1, <1>2, PTL DEF ArcadeSpec

-----------------------------------------------------------------------------
(***************************************************************************)
(* The games that count: a game being played is one that was paid for.     *)
(***************************************************************************)

\* The games that p is playing in classic mode, and for week w.
OpenClassic(p) ==
  {g \in GameId : /\ session[g] # NULL
                  /\ session[g].owner = p
                  /\ session[g].mode = "classic"
                  /\ session[g].status = "active"}

OpenRuns(w, p) ==
  {g \in GameId : /\ session[g] # NULL
                  /\ session[g].owner = p
                  /\ session[g].mode = "weekly"
                  /\ session[g].status = "active"
                  /\ session[g].period = w}

\* The messages that start and end games, and what all the others leave alone.
LEMMA GameSteps ==
  ASSUME [ArcadeNext]_arcadeVars
  PROVE  \/ /\ UNCHANGED <<weeklyVars, pointsVars, seasonVars>>
            /\ \/ \E p \in Player, g \in GameId, d \in Date, fee \in DailyFee :
                    StartDailyGame(p, g, d, fee)
               \/ \E p \in Player, g \in GameId, now \in Time, r \in Result :
                    SubmitDailyResult(p, g, now, r)
         \/ /\ UNCHANGED <<dailyVars, pointsVars, seasonVars>>
            /\ \/ \E p \in Player, g \in GameId, now \in Time : StartWeeklyGame(p, g, now)
               \/ \E p \in Player, g \in GameId, now \in Time, score \in RunScore :
                    SubmitWeeklyResult(p, g, now, score)
         \/ /\ UNCHANGED <<dailyVars, weeklyVars>>
            /\ \/ \E p \in Player, g \in GameId, fee \in ClassicFee : StartClassicGame(p, g, fee)
               \/ \E p \in Player, g \in GameId, now \in Time, score \in ClassicScore :
                    SubmitClassicResult(p, g, now, score)
         \/ UNCHANGED <<session, stats, runs, weekScore, classicBoard>>
<1>1. ASSUME NEW p \in Player, NEW d \in Date, NEW now \in Time, ClaimDailyReward(p, d, now),
             UNCHANGED <<weeklyVars, pointsVars, seasonVars>>
      PROVE  UNCHANGED <<session, stats, runs, weekScore, classicBoard>>
  BY <1>1 DEF ClaimDailyReward, weeklyVars, seasonVars
<1>2. ASSUME NEW p \in Player, NEW w \in Week, NEW now \in Time, ClaimWeeklyReward(p, w, now),
             UNCHANGED <<dailyVars, pointsVars, seasonVars>>
      PROVE  UNCHANGED <<session, stats, runs, weekScore, classicBoard>>
  BY <1>2 DEF ClaimWeeklyReward, seasonVars
<1>3. ASSUME NEW p \in Player, NEW m \in Month, NEW now \in Time, ClaimMonthlyReward(p, m, now),
             UNCHANGED <<dailyVars, weeklyVars>>
      PROVE  UNCHANGED <<session, stats, runs, weekScore, classicBoard>>
  BY <1>3 DEF ClaimMonthlyReward, weeklyVars
<1>4. ASSUME NEW p \in Player, NEW now \in Time, ClaimDailyLoginReward(p, now),
             UNCHANGED seasonVars, UNCHANGED <<dailyVars, weeklyVars>>
      PROVE  UNCHANGED <<session, stats, runs, weekScore, classicBoard>>
  BY <1>4 DEF ClaimDailyLoginReward, weeklyVars, seasonVars, stateVars
<1>5. ASSUME NEW p \in Player, NEW burn \in Burn, NEW now \in Time,
             RedeemClassicPoints(p, burn, now),
             UNCHANGED seasonVars, UNCHANGED <<dailyVars, weeklyVars>>
      PROVE  UNCHANGED <<session, stats, runs, weekScore, classicBoard>>
  BY <1>5 DEF RedeemClassicPoints, weeklyVars, seasonVars
<1>6. ASSUME AdminNext, UNCHANGED <<dailyVars, weeklyVars, pointsVars, seasonVars>>
      PROVE  UNCHANGED <<session, stats, runs, weekScore, classicBoard>>
  <2>1. UNCHANGED <<session, stats>>
    BY <1>6 DEF AdminNext, MessageSend, PoolTransfer, PoolDeposit, PoolWithdrawal
  <2>. QED BY <1>6, <2>1 DEF weeklyVars, seasonVars
<1>7. UNCHANGED arcadeVars => UNCHANGED <<session, stats, runs, weekScore, classicBoard>>
  BY DEF arcadeVars, stateVars, weeklyVars, seasonVars
<1>8. CASE DailyNext /\ UNCHANGED <<weeklyVars, pointsVars, seasonVars>>
  BY <1>1, <1>8, Zenon DEF DailyNext
<1>9. CASE WeeklyNext /\ UNCHANGED <<dailyVars, pointsVars, seasonVars>>
  BY <1>2, <1>9, Zenon DEF WeeklyNext
<1>10. CASE ClassicNext /\ UNCHANGED <<dailyVars, weeklyVars>>
  BY <1>3, <1>4, <1>5, <1>10, Zenon DEF ClassicNext, SeasonNext, PointsNext
<1>. QED BY <1>6, <1>7, <1>8, <1>9, <1>10, Zenon DEF ArcadeNext, GameNext

\* A start opens at most the one game, a submission closes it.
LEMMA OpenAfterStart ==
  ASSUME StateTypeOK, NEW p \in Player, NEW g \in GameId, NEW mode, NEW period, NEW expires,
         session' = [session EXCEPT ![g] = NewSession(p, mode, period, expires)]
  PROVE  /\ \A q \in Player :
              OpenClassic(q)' \subseteq
                OpenClassic(q) \cup IF q = p /\ mode = "classic" THEN {g} ELSE {}
         /\ \A w \in Week, q \in Player :
              OpenRuns(w, q)' \subseteq
                OpenRuns(w, q) \cup IF q = p /\ mode = "weekly" /\ period = w THEN {g} ELSE {}
<1>1. \A h \in GameId : session'[h] = IF h = g THEN NewSession(p, mode, period, expires)
                                      ELSE session[h]
  BY DEF StateTypeOK
<1>. QED BY <1>1 DEF OpenClassic, OpenRuns, NewSession

LEMMA OpenAfterSubmit ==
  ASSUME StateTypeOK, NEW p \in Player, NEW g \in GameId,
         session' = [session EXCEPT ![g] = CompletedSession(@)]
  PROVE  /\ \A q \in Player : OpenClassic(q)' \subseteq OpenClassic(q) \ {g}
         /\ \A w \in Week, q \in Player : OpenRuns(w, q)' \subseteq OpenRuns(w, q) \ {g}
<1>1. \A h \in GameId : session'[h] = IF h = g THEN CompletedSession(session[g]) ELSE session[h]
  BY DEF StateTypeOK
<1>. QED BY <1>1 DEF OpenClassic, OpenRuns, CompletedSession

\* The size of a set that gains or loses one element at most.
LEMMA SizeGrows ==
  ASSUME NEW S, IsFiniteSet(S), NEW x, NEW T, T \subseteq S \cup {x}
  PROVE  IsFiniteSet(T) /\ Cardinality(T) \in Nat /\ Cardinality(S) \in Nat
         /\ Cardinality(T) <= Cardinality(S) + 1
<1>1. IsFiniteSet(S \cup {x}) /\ Cardinality(S) \in Nat /\ Cardinality(S \cup {x}) \in Nat
  BY FS_AddElement, FS_CardinalityType
<1>2. Cardinality(S \cup {x}) <= Cardinality(S) + 1
  BY <1>1, FS_AddElement
<1>3. IsFiniteSet(T) /\ Cardinality(T) <= Cardinality(S \cup {x})
  BY <1>1, FS_Subset
<1>4. Cardinality(T) \in Nat
  BY <1>3, FS_CardinalityType
<1>. QED BY <1>1, <1>2, <1>3, <1>4

LEMMA SizeShrinks ==
  ASSUME NEW S, IsFiniteSet(S), NEW T
  PROVE  /\ Cardinality(S) \in Nat
         /\ T \subseteq S => /\ IsFiniteSet(T) /\ Cardinality(T) \in Nat
                             /\ Cardinality(T) <= Cardinality(S)
         /\ \A x \in S : T \subseteq S \ {x} =>
              /\ IsFiniteSet(T) /\ Cardinality(T) \in Nat
              /\ Cardinality(T) <= Cardinality(S) - 1
<1>1. Cardinality(S) \in Nat
  BY FS_CardinalityType
<1>2. ASSUME NEW U, IsFiniteSet(U), T \subseteq U
      PROVE  IsFiniteSet(T) /\ Cardinality(T) \in Nat /\ Cardinality(T) <= Cardinality(U)
  <2>1. IsFiniteSet(T) /\ Cardinality(T) <= Cardinality(U)
    BY <1>2, FS_Subset
  <2>. QED BY <2>1, FS_CardinalityType
<1>3. \A x \in S : IsFiniteSet(S \ {x}) /\ Cardinality(S \ {x}) = Cardinality(S) - 1
  BY FS_RemoveElement
<1>. QED BY <1>1, <1>2, <1>3

-----------------------------------------------------------------------------
(***************************************************************************)
(* Results on the all-time board.                                          *)
(***************************************************************************)
ResultsOf(p) == {e \in classicBoard : e.player = p}

\* A game that is being played has been paid for and has no result yet.
ResultsBacked ==
  \A p \in Player :
    /\ IsFiniteSet(OpenClassic(p)) /\ IsFiniteSet(ResultsOf(p))
    /\ Cardinality(ResultsOf(p)) + Cardinality(OpenClassic(p)) <= stats[p].classic

LEMMA BackedStep ==
  ASSUME TypeInv, ResultsBacked, [ArcadeNext]_arcadeVars
  PROVE  ResultsBacked'
<1>0. /\ StateTypeOK /\ \A q \in Player : stats[q].classic \in Nat
      /\ stats \in [Player -> [daily : Nat, classic : Nat, completed : Nat]]
  BY DEF TypeInv, StateTypeOK
<1>1. ASSUME \A q \in Player : OpenClassic(q)' \subseteq OpenClassic(q),
             UNCHANGED classicBoard,
             \A q \in Player : stats'[q].classic = stats[q].classic
      PROVE  ResultsBacked'
  <2>. SUFFICES ASSUME NEW q \in Player
                PROVE  /\ IsFiniteSet(OpenClassic(q)') /\ IsFiniteSet(ResultsOf(q)')
                       /\ Cardinality(ResultsOf(q)') + Cardinality(OpenClassic(q)')
                            <= stats'[q].classic
    BY DEF ResultsBacked, ResultsOf, OpenClassic
  <2>1. ResultsOf(q)' = ResultsOf(q)
    BY <1>1 DEF ResultsOf
  <2>2. /\ IsFiniteSet(OpenClassic(q)) /\ IsFiniteSet(ResultsOf(q))
        /\ Cardinality(ResultsOf(q)) + Cardinality(OpenClassic(q)) <= stats[q].classic
    BY DEF ResultsBacked
  <2>3. /\ IsFiniteSet(OpenClassic(q)') /\ Cardinality(OpenClassic(q)') \in Nat
        /\ Cardinality(OpenClassic(q)') <= Cardinality(OpenClassic(q))
        /\ Cardinality(OpenClassic(q)) \in Nat /\ Cardinality(ResultsOf(q)) \in Nat
    BY <1>1, <2>2, SizeShrinks
  <2>. QED BY <1>0, <1>1, <2>1, <2>2, <2>3
<1>2. ASSUME NEW p \in Player, NEW g \in GameId, NEW mode, NEW period, NEW expires,
             mode # "classic",
             session' = [session EXCEPT ![g] = NewSession(p, mode, period, expires)],
             UNCHANGED classicBoard,
             \A q \in Player : stats'[q].classic = stats[q].classic
      PROVE  ResultsBacked'
  <2>1. \A q \in Player :
          OpenClassic(q)' \subseteq
            OpenClassic(q) \cup IF q = p /\ mode = "classic" THEN {g} ELSE {}
    BY <1>0, <1>2, OpenAfterStart, Zenon
  <2>2. \A q \in Player : OpenClassic(q)' \subseteq OpenClassic(q)
    BY <1>2, <2>1
  <2>. QED BY <1>1, <1>2, <2>2
<1>3. ASSUME NEW p \in Player, NEW g \in GameId, NEW d \in Date, NEW fee \in DailyFee,
             StartDailyGame(p, g, d, fee), UNCHANGED seasonVars
      PROVE  ResultsBacked'
  <2>1. /\ session' = [session EXCEPT ![g] = NewSession(p, "daily", d, 0)]
        /\ UNCHANGED classicBoard
    BY <1>3 DEF StartDailyGame, seasonVars
  <2>2. \A q \in Player : stats'[q].classic = stats[q].classic
    BY <1>0, <1>3 DEF StartDailyGame, CountGame
  <2>. QED BY <1>2, <2>1, <2>2
<1>4. ASSUME NEW p \in Player, NEW g \in GameId, NEW now \in Time,
             StartWeeklyGame(p, g, now), UNCHANGED seasonVars
      PROVE  ResultsBacked'
  <2>1. /\ session' = [session EXCEPT ![g] =
                         NewSession(p, "weekly", WeekOf(now), now + Duration)]
        /\ UNCHANGED classicBoard
    BY <1>4 DEF StartWeeklyGame, seasonVars
  <2>2. \A q \in Player : stats'[q].classic = stats[q].classic
    BY <1>0, <1>4 DEF StartWeeklyGame, CountGame
  <2>. QED BY <1>2, <2>1, <2>2
<1>5. ASSUME NEW p \in Player, NEW g \in GameId, UNCHANGED classicBoard,
             session' = [session EXCEPT ![g] = CompletedSession(@)],
             stats' = CountGame(p, "completed")
      PROVE  ResultsBacked'
  <2>1. \A q \in Player : OpenClassic(q)' \subseteq OpenClassic(q)
    BY <1>0, <1>5, OpenAfterSubmit
  <2>2. \A q \in Player : stats'[q].classic = stats[q].classic
    BY <1>0, <1>5 DEF CountGame
  <2>. QED BY <1>1, <1>5, <2>1, <2>2
<1>6. ASSUME NEW p \in Player, NEW g \in GameId, NEW now \in Time, NEW r \in Result,
             SubmitDailyResult(p, g, now, r), UNCHANGED seasonVars
      PROVE  ResultsBacked'
  BY <1>5, <1>6 DEF SubmitDailyResult, seasonVars
<1>7. ASSUME NEW p \in Player, NEW g \in GameId, NEW now \in Time, NEW score \in RunScore,
             SubmitWeeklyResult(p, g, now, score), UNCHANGED seasonVars
      PROVE  ResultsBacked'
  BY <1>5, <1>7 DEF SubmitWeeklyResult, seasonVars
<1>8. ASSUME NEW p \in Player, NEW g \in GameId, NEW fee \in ClassicFee,
             StartClassicGame(p, g, fee)
      PROVE  ResultsBacked'
  <2>1. /\ session' = [session EXCEPT ![g] = NewSession(p, "classic", 0, 0)]
        /\ stats' = CountGame(p, "classic")
        /\ UNCHANGED classicBoard
    BY <1>8 DEF StartClassicGame, seasonVars
  <2>2. \A q \in Player : stats'[q].classic = stats[q].classic + IF q = p THEN 1 ELSE 0
    BY <1>0, <2>1 DEF CountGame
  <2>3. \A q \in Player : OpenClassic(q)' \subseteq OpenClassic(q) \cup IF q = p THEN {g} ELSE {}
    BY <1>0, <2>1, OpenAfterStart
  <2>. SUFFICES ASSUME NEW q \in Player
                PROVE  /\ IsFiniteSet(OpenClassic(q)') /\ IsFiniteSet(ResultsOf(q)')
                       /\ Cardinality(ResultsOf(q)') + Cardinality(OpenClassic(q)')
                            <= stats'[q].classic
    BY DEF ResultsBacked, ResultsOf, OpenClassic
  <2>4. ResultsOf(q)' = ResultsOf(q)
    BY <2>1 DEF ResultsOf
  <2>5. /\ IsFiniteSet(OpenClassic(q)) /\ IsFiniteSet(ResultsOf(q))
        /\ Cardinality(ResultsOf(q)) + Cardinality(OpenClassic(q)) <= stats[q].classic
    BY DEF ResultsBacked
  <2>6. Cardinality(ResultsOf(q)) \in Nat
    BY <2>5, SizeShrinks
  <2>7. CASE q = p
    <3>1. OpenClassic(q)' \subseteq OpenClassic(q) \cup {g}
      BY <2>3, <2>7
    <3>2. /\ IsFiniteSet(OpenClassic(q)') /\ Cardinality(OpenClassic(q)') \in Nat
          /\ Cardinality(OpenClassic(q)) \in Nat
          /\ Cardinality(OpenClassic(q)') <= Cardinality(OpenClassic(q)) + 1
      BY <2>5, <3>1, SizeGrows
    <3>3. stats'[q].classic = stats[q].classic + 1
      BY <2>2, <2>7
    <3>. QED BY <1>0, <2>4, <2>5, <2>6, <3>2, <3>3
  <2>8. CASE q # p
    <3>1. OpenClassic(q)' \subseteq OpenClassic(q)
      BY <2>3, <2>8
    <3>2. /\ IsFiniteSet(OpenClassic(q)') /\ Cardinality(OpenClassic(q)') \in Nat
          /\ Cardinality(OpenClassic(q)) \in Nat
          /\ Cardinality(OpenClassic(q)') <= Cardinality(OpenClassic(q))
      BY <2>5, <3>1, SizeShrinks
    <3>3. stats'[q].classic = stats[q].classic
      BY <1>0, <2>2, <2>8
    <3>. QED BY <1>0, <2>4, <2>5, <2>6, <3>2, <3>3
  <2>. QED BY <2>7, <2>8
<1>9. ASSUME NEW p \in Player, NEW g \in GameId, NEW now \in Time, NEW score \in ClassicScore,
             SubmitClassicResult(p, g, now, score)
      PROVE  ResultsBacked'
  <2>. DEFINE entry == [player |-> p, score |-> score, game |-> g, ended |-> now]
  <2>1. /\ OwnsActiveSession(p, g) /\ session[g].mode = "classic"
        /\ session' = [session EXCEPT ![g] = CompletedSession(@)]
        /\ stats' = CountGame(p, "completed")
        /\ classicBoard' = Put(classicBoard, entry)
    BY <1>9 DEF SubmitClassicResult
  <2>2. \A q \in Player : stats'[q].classic = stats[q].classic
    BY <1>0, <2>1 DEF CountGame
  <2>3. \A q \in Player : OpenClassic(q)' \subseteq OpenClassic(q) \ {g}
    BY <1>0, <2>1, OpenAfterSubmit
  <2>4. g \in OpenClassic(p)
    BY <2>1 DEF OpenClassic, OwnsActiveSession
  <2>5. /\ \A q \in Player : q # p => ResultsOf(q)' \subseteq ResultsOf(q)
        /\ ResultsOf(p)' \subseteq ResultsOf(p) \cup {entry}
    <3>1. entry.player = p
      OBVIOUS
    <3>. HIDE DEF entry
    <3>. QED BY <2>1, <3>1 DEF ResultsOf, Put
  <2>. HIDE DEF entry
  <2>. SUFFICES ASSUME NEW q \in Player
                PROVE  /\ IsFiniteSet(OpenClassic(q)') /\ IsFiniteSet(ResultsOf(q)')
                       /\ Cardinality(ResultsOf(q)') + Cardinality(OpenClassic(q)')
                            <= stats'[q].classic
    BY DEF ResultsBacked, ResultsOf, OpenClassic
  <2>6. /\ IsFiniteSet(OpenClassic(q)) /\ IsFiniteSet(ResultsOf(q))
        /\ Cardinality(ResultsOf(q)) + Cardinality(OpenClassic(q)) <= stats[q].classic
    BY DEF ResultsBacked
  <2>7. CASE q = p
    <3>1. /\ OpenClassic(q)' \subseteq OpenClassic(q) \ {g} /\ g \in OpenClassic(q)
          /\ ResultsOf(q)' \subseteq ResultsOf(q) \cup {entry}
      BY <2>3, <2>4, <2>5, <2>7
    <3>2. /\ IsFiniteSet(OpenClassic(q)') /\ Cardinality(OpenClassic(q)') \in Nat
          /\ Cardinality(OpenClassic(q)) \in Nat
          /\ Cardinality(OpenClassic(q)') <= Cardinality(OpenClassic(q)) - 1
      BY <2>6, <3>1, SizeShrinks
    <3>3. /\ IsFiniteSet(ResultsOf(q)') /\ Cardinality(ResultsOf(q)') \in Nat
          /\ Cardinality(ResultsOf(q)) \in Nat
          /\ Cardinality(ResultsOf(q)') <= Cardinality(ResultsOf(q)) + 1
      BY <2>6, <3>1, SizeGrows
    <3>. QED BY <1>0, <2>2, <2>6, <3>2, <3>3
  <2>8. CASE q # p
    <3>1. OpenClassic(q)' \subseteq OpenClassic(q) /\ ResultsOf(q)' \subseteq ResultsOf(q)
      BY <2>3, <2>5, <2>8
    <3>2. /\ IsFiniteSet(OpenClassic(q)') /\ Cardinality(OpenClassic(q)') \in Nat
          /\ Cardinality(OpenClassic(q)) \in Nat
          /\ Cardinality(OpenClassic(q)') <= Cardinality(OpenClassic(q))
      BY <2>6, <3>1, SizeShrinks
    <3>3. /\ IsFiniteSet(ResultsOf(q)') /\ Cardinality(ResultsOf(q)') \in Nat
          /\ Cardinality(ResultsOf(q)) \in Nat
          /\ Cardinality(ResultsOf(q)') <= Cardinality(ResultsOf(q))
      BY <2>6, <3>1, SizeShrinks
    <3>. QED BY <1>0, <2>2, <2>6, <3>2, <3>3
  <2>. QED BY <2>7, <2>8
<1>10. ASSUME UNCHANGED <<session, stats, classicBoard>>
       PROVE  ResultsBacked'
  BY <1>10 DEF ResultsBacked, ResultsOf, OpenClassic
<1>. QED BY <1>3, <1>4, <1>6, <1>7, <1>8, <1>9, <1>10, GameSteps

\* A player has no more results on the all-time board than games paid for, although
\* a started game may take over the session of another one.
THEOREM BoardResultsAlwaysPaid == ArcadeSpec => []BoardResultsPaid
<1>1. ArcadeInit => TypeInv /\ ResultsBacked
  <2>1. ArcadeInit => ResultsBacked
    <3>. SUFFICES ASSUME ArcadeInit, NEW p \in Player
                  PROVE  /\ IsFiniteSet(OpenClassic(p)) /\ IsFiniteSet(ResultsOf(p))
                         /\ Cardinality(ResultsOf(p)) + Cardinality(OpenClassic(p))
                              <= stats[p].classic
      BY DEF ResultsBacked
    <3>1. OpenClassic(p) = {} /\ ResultsOf(p) = {} /\ stats[p].classic = 0
      BY DEF ArcadeInit, StateInit, SeasonRecordsInit, OpenClassic, ResultsOf
    <3>. QED BY <3>1, FS_EmptySet
  <2>. QED BY <2>1, TypesAtFirst
<1>2. TypeInv /\ ResultsBacked /\ [ArcadeNext]_arcadeVars => TypeInv' /\ ResultsBacked'
  BY TypesStep, BackedStep
<1>3. TypeInv /\ ResultsBacked => BoardResultsPaid
  <2>. SUFFICES ASSUME TypeInv, ResultsBacked, NEW p \in Player
                PROVE  Cardinality(ResultsOf(p)) <= stats[p].classic
    BY DEF BoardResultsPaid, ResultsOf
  <2>1. /\ IsFiniteSet(OpenClassic(p)) /\ IsFiniteSet(ResultsOf(p))
        /\ Cardinality(ResultsOf(p)) + Cardinality(OpenClassic(p)) <= stats[p].classic
    BY DEF ResultsBacked
  <2>2. Cardinality(ResultsOf(p)) \in Nat /\ Cardinality(OpenClassic(p)) \in Nat
    BY <2>1, FS_CardinalityType
  <2>3. stats[p].classic \in Nat
    BY DEF TypeInv, StateTypeOK
  <2>. QED BY <2>1, <2>2, <2>3
<1>. QED BY <1>1, <1>2, <1>3, PTL DEF ArcadeSpec

-----------------------------------------------------------------------------
(***************************************************************************)
(* The runs that count for a week, which the days of that week paid for.   *)
(***************************************************************************)

\* A quotient is the one number with a remainder less than the divisor.
LEMMA QuotientIs ==
  ASSUME NEW b \in Nat, b > 0, NEW q \in Nat, NEW r \in Nat, r < b, NEW a, a = q * b + r
  PROVE  a \div b = q
<1>. DEFINE c == a \div b
<1>1. a \in Nat
  BY DEF c
<1>2. /\ c \in Int /\ c * b <= a /\ a < c * b + b
  BY <1>1
<1>. HIDE DEF c
<1>3. ~ (c < q)
  <2>. SUFFICES ASSUME c < q PROVE FALSE
    OBVIOUS
  <2>1. PICK k \in Nat : q = c + 1 + k
    BY <1>2
  <2>2. q * b = c * b + b + k * b /\ k * b \in Nat /\ c * b \in Int
    BY <1>2, <2>1
  <2>. QED BY <1>2, <2>2
<1>4. ~ (q < c)
  <2>. SUFFICES ASSUME q < c PROVE FALSE
    OBVIOUS
  <2>1. PICK k \in Nat : c = q + 1 + k
    BY <1>2
  <2>2. c * b = q * b + b + k * b /\ k * b \in Nat /\ q * b \in Nat
    BY <1>2, <2>1
  <2>. QED BY <1>2, <2>2
<1>. QED BY <1>2, <1>3, <1>4 DEF c

\* A day lies in one week: a time is of the week of its day.
LEMMA DayOfWeek ==
  ASSUME NEW now \in Time
  PROVE  DateOf(now) \in DaysOf(WeekOf(now))
<1>. DEFINE d == now \div DayLength
            r == now % DayLength
            k == WeekLength \div DayLength
            j == EpochOffset \div DayLength
            q == (d - j) \div k
            s == (d - j) % k
<1>1. /\ now \in Nat /\ DayLength \in Nat /\ DayLength > 0 /\ now >= EpochOffset
      /\ WeekLength \in Nat /\ WeekLength > 0 /\ EpochOffset \in Nat
      /\ WeekLength % DayLength = 0 /\ EpochOffset % DayLength = 0
  BY StateAssumption, WeeklyAssumption
<1>2. /\ d \in Nat /\ r \in Nat /\ r < DayLength /\ now = d * DayLength + r
  BY <1>1
<1>3. /\ k \in Nat /\ WeekLength = k * DayLength
  BY <1>1
<1>4. /\ j \in Nat /\ EpochOffset = j * DayLength
  BY <1>1
<1>5. DateOf(now) = d /\ WeekOf(now) = (now - EpochOffset) \div WeekLength
      /\ WeekOf(d * DayLength) = (d * DayLength - EpochOffset) \div WeekLength
  BY DEF DateOf, WeekOf
<1>. HIDE DEF d, r, k, j
<1>6. k > 0
  BY <1>1, <1>3
<1>7. d - j \in Nat
  <2>. SUFFICES ASSUME j > d PROVE FALSE
    BY <1>2, <1>4
  <2>1. PICK e \in Nat : j = d + 1 + e
    BY <1>2, <1>4
  <2>2. j * DayLength = d * DayLength + DayLength + e * DayLength
        /\ e * DayLength \in Nat /\ d * DayLength \in Nat
    BY <1>1, <1>2, <2>1
  <2>. QED BY <1>1, <1>2, <1>4, <2>2
<1>8. q \in Nat /\ s \in Nat /\ s < k /\ d - j = q * k + s
  BY <1>3, <1>6, <1>7
<1>. HIDE DEF q, s
<1>9. /\ (d - j) * DayLength = q * WeekLength + s * DayLength
      /\ (d - j) * DayLength = d * DayLength - EpochOffset
      /\ s * DayLength \in Nat /\ s * DayLength + DayLength <= WeekLength
  <2>1. (d - j) * DayLength = (q * k) * DayLength + s * DayLength
    BY <1>1, <1>3, <1>8
  <2>2. (q * k) * DayLength = q * (k * DayLength)
    BY <1>1, <1>3, <1>8
  <2>3. (d - j) * DayLength = d * DayLength - j * DayLength
    BY <1>1, <1>2, <1>4
  <2>4. PICK e \in Nat : k = s + 1 + e
    BY <1>3, <1>8
  <2>5. k * DayLength = s * DayLength + DayLength + e * DayLength
        /\ e * DayLength \in Nat /\ s * DayLength \in Nat
    BY <1>1, <1>8, <2>4
  <2>6. q * (k * DayLength) = q * WeekLength
    BY <1>3, Zenon
  <2>7. (d - j) * DayLength = q * WeekLength + s * DayLength
    BY <2>1, <2>2, <2>6, Zenon
  <2>8. (d - j) * DayLength = d * DayLength - EpochOffset
    BY <1>4, <2>3, Zenon
  <2>9. s * DayLength + DayLength <= WeekLength
    BY <1>1, <1>3, <2>5
  <2>. QED BY <2>5, <2>7, <2>8, <2>9, Zenon
<1>10. /\ s * DayLength \in Nat /\ s * DayLength < WeekLength
       /\ s * DayLength + r \in Nat /\ s * DayLength + r < WeekLength
       /\ d * DayLength - EpochOffset = q * WeekLength + s * DayLength
       /\ now - EpochOffset = q * WeekLength + (s * DayLength + r)
  <2>. DEFINE u == s * DayLength
              v == q * WeekLength
              c == d * DayLength
  <2>1. u \in Nat /\ v \in Nat /\ c \in Nat /\ now = c + r /\ c - EpochOffset = v + u
        /\ u + DayLength <= WeekLength
    <3>1. q * WeekLength \in Nat /\ d * DayLength \in Nat
      BY <1>1, <1>2, <1>8
    <3>. QED BY <1>2, <1>9, <3>1, Zenon
  <2>. HIDE DEF u, v, c
  <2>2. /\ u \in Nat /\ u < WeekLength /\ u + r \in Nat /\ u + r < WeekLength
        /\ c - EpochOffset = v + u /\ now - EpochOffset = v + (u + r)
    BY <1>1, <1>2, <2>1
  <2>. QED BY <2>2, Zenon DEF u, v, c
<1>11. ASSUME NEW t \in Nat, t < WeekLength, NEW a, a = q * WeekLength + t
       PROVE  a \div WeekLength = q
  BY <1>1, <1>8, <1>11, QuotientIs, Zenon
<1>12. /\ (d * DayLength - EpochOffset) \div WeekLength = q
       /\ (now - EpochOffset) \div WeekLength = q
  BY <1>10, <1>11, Zenon
<1>13. d \in Day
  BY <1>5 DEF Day
<1>. QED BY <1>5, <1>12, <1>13 DEF DaysOf

\* The runs of a player that count for a week, and those paid on its days.
Counted(w, p) == IF weekScore[w][p] = NULL THEN 0 ELSE weekScore[w][p].runs
PaidRuns(w, p) == SumOver([d \in Day |-> runs[d][p]], DaysOf(w))

LEMMA DaysFinite == IsFiniteSet(Day) /\ \A w : IsFiniteSet(DaysOf(w)) /\ DaysOf(w) \subseteq Day
<1>. DEFINE f == [t \in Time |-> DateOf(t)]
<1>1. IsFiniteSet({f[t] : t \in Time})
  BY StateAssumption, ValuesFinite
<1>2. Day = {f[t] : t \in Time}
  BY DEF Day
<1>. HIDE DEF f
<1>3. IsFiniteSet(Day) /\ \A w : DaysOf(w) \subseteq Day
  BY <1>1, <1>2 DEF DaysOf
<1>. QED BY <1>3, FS_Subset

LEMMA RunsTypes ==
  ASSUME TypeInv, NEW w \in Week, NEW p \in Player
  PROVE  Counted(w, p) \in Nat /\ PaidRuns(w, p) \in Nat
<1>1. Counted(w, p) \in Nat
  BY DEF TypeInv, WeeklyTypes, WeeklyRecordsOK, Counted
<1>. DEFINE f == [d \in Day |-> runs[d][p]]
            S == DaysOf(w)
<1>2. \A d \in Day : f[d] \in Nat
  BY WeeklyAssumption DEF TypeInv, WeeklyTypes, WeeklyRecordsOK
<1>3. IsFiniteSet(S) /\ \A d \in S : f[d] \in Nat
  BY <1>2, DaysFinite
<1>. HIDE DEF f, S
<1>4. SumOver(f, S) \in Nat
  BY <1>3, SumNat
<1>. QED BY <1>1, <1>4 DEF PaidRuns, f, S

\* A start pays one more run of the week it starts in.
LEMMA PaidAfterStart ==
  ASSUME TypeInv, NEW p \in Player, NEW now \in Time,
         runs' = [runs EXCEPT ![DateOf(now)][p] = @ + 1]
  PROVE  \A w \in Week, q \in Player :
           /\ PaidRuns(w, q)' >= PaidRuns(w, q)
           /\ PaidRuns(w, q)' \in Int
           /\ q = p /\ w = WeekOf(now) => PaidRuns(w, q)' = PaidRuns(w, q) + 1
<1>. SUFFICES ASSUME NEW w \in Week, NEW q \in Player
              PROVE  /\ PaidRuns(w, q)' >= PaidRuns(w, q)
                     /\ PaidRuns(w, q)' \in Int
                     /\ q = p /\ w = WeekOf(now) => PaidRuns(w, q)' = PaidRuns(w, q) + 1
  OBVIOUS
<1>. DEFINE d == DateOf(now)
            S == DaysOf(w)
            f == [c \in Day |-> runs[c][q]]
            h == [c \in Day |-> runs'[c][q]]
<1>1. PaidRuns(w, q) = SumOver(f, S) /\ PaidRuns(w, q)' = SumOver(h, S)
  BY DEF PaidRuns
<1>2. d \in Day
  BY TimeTypes
<1>3. \A c \in Day : /\ runs[c][q] \in Nat
                     /\ runs'[c][q] = IF c = d /\ q = p THEN runs[c][q] + 1 ELSE runs[c][q]
  BY <1>2, WeeklyAssumption DEF TypeInv, WeeklyTypes, WeeklyRecordsOK
<1>4. \A c \in Day : f[c] \in Nat /\ h[c] = IF c = d /\ q = p THEN f[c] + 1 ELSE f[c]
  BY <1>3
<1>5. IsFiniteSet(S) /\ S \subseteq Day
  BY DaysFinite
<1>6. q = p /\ w = WeekOf(now) => d \in S
  BY DayOfWeek
<1>. HIDE DEF d, S, f, h
<1>7. \A c \in S : f[c] \in Int /\ h[c] \in Int /\ f[c] <= h[c]
  BY <1>4, <1>5
<1>8. SumOver(h, S) >= SumOver(f, S) /\ SumOver(h, S) \in Int /\ SumOver(f, S) \in Int
  <2>1. SumOver(f, S) <= SumOver(h, S)
    BY <1>5, <1>7, SumMonotone
  <2>2. SumOver(f, S) \in Int /\ SumOver(h, S) \in Int
    BY <1>5, <1>7, SumInt
  <2>. QED BY <2>1, <2>2
<1>9. ASSUME q = p, d \in S
      PROVE  SumOver(h, S) = SumOver(f, S) + 1
  <2>1. (\A c \in S \ {d} : h[c] = f[c]) /\ h[d] = f[d] + 1 /\ f[d] \in Int
    BY <1>4, <1>5, <1>7, <1>9
  <2>2. (\A c \in S : f[c] \in Int) /\ (\A c \in S : h[c] \in Int)
    BY <1>7
  <2>3. SumOver(h, S) = SumOver(f, S) - f[d] + h[d]
    BY <1>5, <1>9, <2>1, <2>2, SumUpdate
  <2>. QED BY <1>8, <2>1, <2>3
<1>. QED BY <1>1, <1>6, <1>8, <1>9

\* A run that is being played is paid for and does not count yet.
RunsBacked ==
  \A w \in Week, p \in Player :
    /\ IsFiniteSet(OpenRuns(w, p))
    /\ Counted(w, p) + Cardinality(OpenRuns(w, p)) <= PaidRuns(w, p)

LEMMA RunsStep ==
  ASSUME TypeInv, RunsBacked, [ArcadeNext]_arcadeVars
  PROVE  RunsBacked'
<1>0. StateTypeOK /\ \A w \in Week, q \in Player : Counted(w, q) \in Nat /\ PaidRuns(w, q) \in Nat
  BY RunsTypes DEF TypeInv
<1>1. ASSUME \A w \in Week, q \in Player : OpenRuns(w, q)' \subseteq OpenRuns(w, q),
             UNCHANGED <<runs, weekScore>>
      PROVE  RunsBacked'
  <2>. SUFFICES ASSUME NEW w \in Week, NEW q \in Player
                PROVE  /\ IsFiniteSet(OpenRuns(w, q)')
                       /\ Counted(w, q)' + Cardinality(OpenRuns(w, q)') <= PaidRuns(w, q)'
    BY DEF RunsBacked, OpenRuns, Counted, PaidRuns
  <2>1. Counted(w, q)' = Counted(w, q) /\ PaidRuns(w, q)' = PaidRuns(w, q)
    BY <1>1 DEF Counted, PaidRuns
  <2>2. /\ IsFiniteSet(OpenRuns(w, q))
        /\ Counted(w, q) + Cardinality(OpenRuns(w, q)) <= PaidRuns(w, q)
    BY DEF RunsBacked
  <2>3. /\ IsFiniteSet(OpenRuns(w, q)') /\ Cardinality(OpenRuns(w, q)') \in Nat
        /\ Cardinality(OpenRuns(w, q)') <= Cardinality(OpenRuns(w, q))
        /\ Cardinality(OpenRuns(w, q)) \in Nat
    BY <1>1, <2>2, SizeShrinks
  <2>. QED BY <1>0, <2>1, <2>2, <2>3
<1>2. ASSUME NEW p \in Player, NEW g \in GameId, NEW mode, NEW period, NEW expires,
             mode # "weekly",
             session' = [session EXCEPT ![g] = NewSession(p, mode, period, expires)],
             UNCHANGED <<runs, weekScore>>
      PROVE  RunsBacked'
  <2>1. \A w \in Week, q \in Player :
          OpenRuns(w, q)' \subseteq
            OpenRuns(w, q) \cup IF q = p /\ mode = "weekly" /\ period = w THEN {g} ELSE {}
    BY <1>0, <1>2, OpenAfterStart, Zenon
  <2>2. \A w \in Week, q \in Player : OpenRuns(w, q)' \subseteq OpenRuns(w, q)
    BY <1>2, <2>1
  <2>. QED BY <1>1, <1>2, <2>2
<1>3. ASSUME NEW p \in Player, NEW g \in GameId, UNCHANGED <<runs, weekScore>>,
             session' = [session EXCEPT ![g] = CompletedSession(@)]
      PROVE  RunsBacked'
  <2>1. \A w \in Week, q \in Player : OpenRuns(w, q)' \subseteq OpenRuns(w, q)
    BY <1>0, <1>3, OpenAfterSubmit
  <2>. QED BY <1>1, <1>3, <2>1
<1>4. ASSUME NEW p \in Player, NEW g \in GameId, NEW d \in Date, NEW fee \in DailyFee,
             StartDailyGame(p, g, d, fee), UNCHANGED weeklyVars
      PROVE  RunsBacked'
  <2>1. /\ session' = [session EXCEPT ![g] = NewSession(p, "daily", d, 0)]
        /\ UNCHANGED <<runs, weekScore>>
    BY <1>4 DEF StartDailyGame, weeklyVars
  <2>. QED BY <1>2, <2>1
<1>5. ASSUME NEW p \in Player, NEW g \in GameId, NEW now \in Time, NEW r \in Result,
             SubmitDailyResult(p, g, now, r), UNCHANGED weeklyVars
      PROVE  RunsBacked'
  BY <1>3, <1>5 DEF SubmitDailyResult, weeklyVars
<1>6. ASSUME NEW p \in Player, NEW g \in GameId, NEW fee \in ClassicFee,
             StartClassicGame(p, g, fee), UNCHANGED weeklyVars
      PROVE  RunsBacked'
  <2>1. /\ session' = [session EXCEPT ![g] = NewSession(p, "classic", 0, 0)]
        /\ UNCHANGED <<runs, weekScore>>
    BY <1>6 DEF StartClassicGame, weeklyVars
  <2>. QED BY <1>2, <2>1
<1>7. ASSUME NEW p \in Player, NEW g \in GameId, NEW now \in Time, NEW score \in ClassicScore,
             SubmitClassicResult(p, g, now, score), UNCHANGED weeklyVars
      PROVE  RunsBacked'
  BY <1>3, <1>7 DEF SubmitClassicResult, weeklyVars
<1>8. ASSUME NEW p \in Player, NEW g \in GameId, NEW now \in Time, StartWeeklyGame(p, g, now)
      PROVE  RunsBacked'
  <2>1. /\ session' = [session EXCEPT ![g] =
                         NewSession(p, "weekly", WeekOf(now), now + Duration)]
        /\ runs' = [runs EXCEPT ![DateOf(now)][p] = @ + 1]
        /\ UNCHANGED weekScore
    BY <1>8 DEF StartWeeklyGame
  <2>2. \A w \in Week, q \in Player :
          OpenRuns(w, q)' \subseteq
            OpenRuns(w, q) \cup IF q = p /\ WeekOf(now) = w THEN {g} ELSE {}
    <3>. DEFINE mode == "weekly"
                period == WeekOf(now)
                expires == now + Duration
    <3>1. session' = [session EXCEPT ![g] = NewSession(p, mode, period, expires)]
      BY <2>1
    <3>. HIDE DEF mode, period, expires
    <3>2. \A w \in Week, q \in Player :
            OpenRuns(w, q)' \subseteq
              OpenRuns(w, q) \cup IF q = p /\ mode = "weekly" /\ period = w THEN {g} ELSE {}
      BY <1>0, <3>1, OpenAfterStart
    <3>. QED BY <3>2 DEF mode, period
  <2>3. \A w \in Week, q \in Player :
          /\ PaidRuns(w, q)' >= PaidRuns(w, q)
          /\ PaidRuns(w, q)' \in Int
          /\ q = p /\ w = WeekOf(now) => PaidRuns(w, q)' = PaidRuns(w, q) + 1
    BY <2>1, PaidAfterStart, Zenon
  <2>. SUFFICES ASSUME NEW w \in Week, NEW q \in Player
                PROVE  /\ IsFiniteSet(OpenRuns(w, q)')
                       /\ Counted(w, q)' + Cardinality(OpenRuns(w, q)') <= PaidRuns(w, q)'
    BY DEF RunsBacked, OpenRuns, Counted, PaidRuns
  <2>4. Counted(w, q)' = Counted(w, q)
    BY <2>1 DEF Counted
  <2>5. /\ IsFiniteSet(OpenRuns(w, q))
        /\ Counted(w, q) + Cardinality(OpenRuns(w, q)) <= PaidRuns(w, q)
    BY DEF RunsBacked
  <2>6. CASE q = p /\ w = WeekOf(now)
    <3>1. OpenRuns(w, q)' \subseteq OpenRuns(w, q) \cup {g}
      BY <2>2, <2>6
    <3>2. /\ IsFiniteSet(OpenRuns(w, q)') /\ Cardinality(OpenRuns(w, q)') \in Nat
          /\ Cardinality(OpenRuns(w, q)) \in Nat
          /\ Cardinality(OpenRuns(w, q)') <= Cardinality(OpenRuns(w, q)) + 1
      BY <2>5, <3>1, SizeGrows
    <3>. QED BY <1>0, <2>3, <2>4, <2>5, <2>6, <3>2
  <2>7. CASE ~ (q = p /\ w = WeekOf(now))
    <3>1. OpenRuns(w, q)' \subseteq OpenRuns(w, q)
      BY <2>2, <2>7
    <3>2. /\ IsFiniteSet(OpenRuns(w, q)') /\ Cardinality(OpenRuns(w, q)') \in Nat
          /\ Cardinality(OpenRuns(w, q)) \in Nat
          /\ Cardinality(OpenRuns(w, q)') <= Cardinality(OpenRuns(w, q))
      BY <2>5, <3>1, SizeShrinks
    <3>. QED BY <1>0, <2>3, <2>4, <2>5, <3>2
  <2>. QED BY <2>6, <2>7
<1>9. ASSUME NEW p \in Player, NEW g \in GameId, NEW now \in Time, NEW score \in RunScore,
             SubmitWeeklyResult(p, g, now, score)
      PROVE  RunsBacked'
  <2>. DEFINE v == session[g].period
              record == weekScore[v][p]
              new == ScoreAfter(record, score, now)
  <2>1. /\ OwnsActiveSession(p, g) /\ session[g].mode = "weekly"
        /\ session' = [session EXCEPT ![g] = CompletedSession(@)]
        /\ weekScore' = [weekScore EXCEPT ![v][p] = new]
        /\ UNCHANGED runs
    BY <1>9 DEF SubmitWeeklyResult
  <2>2. v \in Week /\ g \in OpenRuns(v, p)
    BY <2>1 DEF OpenRuns, OwnsActiveSession, TypeInv, PeriodsKnown
  <2>3. record \in [total : Nat, best : Nat, runs : Nat, updated : Nat] \cup {NULL}
    BY <2>2 DEF TypeInv, WeeklyTypes, WeeklyRecordsOK
  <2>4. record = weekScore[v][p] /\ score \in Nat /\ now \in Nat
    BY WeeklyAssumption, TimeTypes
  <2>5. /\ new # NULL
        /\ new.runs = (IF record = NULL THEN 0 ELSE record.runs) + 1
    <3>. HIDE DEF record
    <3>1. new \in [total : Nat, best : Nat, runs : Nat, updated : Nat]
      BY <2>3, <2>4, ScoreAfterTypes
    <3>2. new.runs = (IF record = NULL THEN 0 ELSE record.runs) + 1
      BY DEF ScoreAfter
    <3>. QED BY <3>1, <3>2, WeeklyAssumption
  <2>. HIDE DEF v, record, new
  <2>6. \A w \in Week, q \in Player :
          Counted(w, q)' = IF w = v /\ q = p THEN Counted(w, q) + 1 ELSE Counted(w, q)
    <3>1. \A w \in Week, q \in Player :
            weekScore'[w][q] = IF w = v /\ q = p THEN new ELSE weekScore[w][q]
      BY <2>1, <2>2 DEF TypeInv, WeeklyTypes, WeeklyRecordsOK
    <3>. QED BY <2>4, <2>5, <3>1 DEF Counted
  <2>7. \A w \in Week, q \in Player : OpenRuns(w, q)' \subseteq OpenRuns(w, q) \ {g}
    BY <1>0, <2>1, OpenAfterSubmit
  <2>. SUFFICES ASSUME NEW w \in Week, NEW q \in Player
                PROVE  /\ IsFiniteSet(OpenRuns(w, q)')
                       /\ Counted(w, q)' + Cardinality(OpenRuns(w, q)') <= PaidRuns(w, q)'
    BY DEF RunsBacked, OpenRuns, Counted, PaidRuns
  <2>8. PaidRuns(w, q)' = PaidRuns(w, q)
    BY <2>1 DEF PaidRuns
  <2>9. /\ IsFiniteSet(OpenRuns(w, q))
        /\ Counted(w, q) + Cardinality(OpenRuns(w, q)) <= PaidRuns(w, q)
    BY DEF RunsBacked
  <2>10. CASE w = v /\ q = p
    <3>1. OpenRuns(w, q)' \subseteq OpenRuns(w, q) \ {g} /\ g \in OpenRuns(w, q)
      BY <2>2, <2>7, <2>10
    <3>2. /\ IsFiniteSet(OpenRuns(w, q)') /\ Cardinality(OpenRuns(w, q)') \in Nat
          /\ Cardinality(OpenRuns(w, q)) \in Nat
          /\ Cardinality(OpenRuns(w, q)') <= Cardinality(OpenRuns(w, q)) - 1
      BY <2>9, <3>1, SizeShrinks
    <3>3. Counted(w, q)' = Counted(w, q) + 1
      BY <2>6, <2>10
    <3>. QED BY <1>0, <2>8, <2>9, <3>2, <3>3
  <2>11. CASE ~ (w = v /\ q = p)
    <3>1. OpenRuns(w, q)' \subseteq OpenRuns(w, q)
      BY <2>7
    <3>2. /\ IsFiniteSet(OpenRuns(w, q)') /\ Cardinality(OpenRuns(w, q)') \in Nat
          /\ Cardinality(OpenRuns(w, q)) \in Nat
          /\ Cardinality(OpenRuns(w, q)') <= Cardinality(OpenRuns(w, q))
      BY <2>9, <3>1, SizeShrinks
    <3>3. Counted(w, q)' = Counted(w, q)
      BY <2>6, <2>11
    <3>. QED BY <1>0, <2>8, <2>9, <3>2, <3>3
  <2>. QED BY <2>10, <2>11
<1>10. ASSUME UNCHANGED <<session, runs, weekScore>>
       PROVE  RunsBacked'
  BY <1>10 DEF RunsBacked, OpenRuns, Counted, PaidRuns
<1>. QED BY <1>4, <1>5, <1>6, <1>7, <1>8, <1>9, <1>10, GameSteps, Zenon

\* Whatever games take over each other's sessions, the runs that count for a week,
\* with those still being played, were paid for on the days of that week.
THEOREM RunsAlwaysPaid == ArcadeSpec => []CountedRunsPaid
<1>1. ArcadeInit => TypeInv /\ RunsBacked
  <2>1. ArcadeInit => RunsBacked
    <3>. SUFFICES ASSUME ArcadeInit, NEW w \in Week, NEW p \in Player
                  PROVE  /\ IsFiniteSet(OpenRuns(w, p))
                         /\ Counted(w, p) + Cardinality(OpenRuns(w, p)) <= PaidRuns(w, p)
      BY DEF RunsBacked
    <3>1. OpenRuns(w, p) = {} /\ Counted(w, p) = 0
      BY DEF ArcadeInit, StateInit, WeeklyRecordsInit, OpenRuns, Counted
    <3>2. PaidRuns(w, p) \in Nat
      BY TypesAtFirst, RunsTypes
    <3>. QED BY <3>1, <3>2, FS_EmptySet
  <2>. QED BY <2>1, TypesAtFirst
<1>2. TypeInv /\ RunsBacked /\ [ArcadeNext]_arcadeVars => TypeInv' /\ RunsBacked'
  BY TypesStep, RunsStep
<1>3. RunsBacked => CountedRunsPaid
  BY DEF RunsBacked, CountedRunsPaid, Counted, OpenRuns, PaidRuns
<1>. QED BY <1>1, <1>2, <1>3, PTL DEF ArcadeSpec

-----------------------------------------------------------------------------
(***************************************************************************)
(* The points a player ever earned.                                        *)
(***************************************************************************)

\* The summands of what explains them, by day.
LedgerPart(p) == [d \in Day |-> ledger[d][p]]
LoginPart(p) == [d \in Day |-> IF loginClaim[d][p] = NULL THEN 0 ELSE loginClaim[d][p].reward]
BonusPart(p) ==
  [d \in Day |-> IF loginClaim[d][p] = NULL THEN 0
                 ELSE BpsAmount(ledger[d][p], loginClaim[d][p].bonus)]

\* A bonus that is in force was won with the claim of its day.
BonusClaimed ==
  \A p \in Player :
    points[p].bonusDate # NULL =>
      /\ loginClaim[points[p].bonusDate][p] # NULL
      /\ loginClaim[points[p].bonusDate][p].bonus = LoginBonusBps

\* A share of points is an amount, and the shares of two parts of them are no more
\* than the share of both.
LEMMA SharesAdd ==
  ASSUME NEW a \in Nat, NEW c \in Nat, NEW b \in Nat
  PROVE  /\ BpsAmount(a, b) \in Nat /\ BpsAmount(a + c, b) \in Nat
         /\ BpsAmount(a, b) + BpsAmount(c, b) <= BpsAmount(a + c, b)
         /\ BpsAmount(c, 0) = 0
<1>. DEFINE x == a * b
            y == c * b
<1>1. x \in Nat /\ y \in Nat /\ (a + c) * b = x + y
  OBVIOUS
<1>2. /\ BpsAmount(a, b) = x \div BpsDenominator /\ BpsAmount(c, b) = y \div BpsDenominator
      /\ BpsAmount(a + c, b) = (x + y) \div BpsDenominator
      /\ BpsAmount(c, 0) = 0 \div BpsDenominator
  <2>1. BpsAmount(a + c, b) = ((a + c) * b) \div BpsDenominator
    BY DEF BpsAmount
  <2>2. BpsAmount(c, 0) = 0 \div BpsDenominator
    <3>1. c * 0 = 0
      OBVIOUS
    <3>. QED BY <3>1, Zenon DEF BpsAmount
  <2>3. BpsAmount(a, b) = x \div BpsDenominator /\ BpsAmount(c, b) = y \div BpsDenominator
    BY DEF BpsAmount
  <2>. HIDE DEF x, y
  <2>4. BpsAmount(a + c, b) = (x + y) \div BpsDenominator
    BY <1>1, <2>1, Zenon
  <2>. QED BY <2>2, <2>3, <2>4, Zenon
<1>. HIDE DEF x, y
<1>3. /\ x \div BpsDenominator \in Nat /\ y \div BpsDenominator \in Nat
      /\ (x + y) \div BpsDenominator \in Nat
      /\ x \div BpsDenominator + y \div BpsDenominator <= (x + y) \div BpsDenominator
      /\ 0 \div BpsDenominator = 0
  BY <1>1 DEF BpsDenominator
<1>. QED BY <1>2, <1>3

LEMMA SumMoves ==
  ASSUME NEW f, NEW h, NEW d \in Day, \A c \in Day : f[c] \in Nat, \A c \in Day : h[c] \in Nat,
         \A c \in Day \ {d} : h[c] = f[c]
  PROVE  /\ SumOver(f, Day) \in Nat /\ SumOver(h, Day) \in Nat
         /\ SumOver(h, Day) = SumOver(f, Day) - f[d] + h[d]
<1>1. IsFiniteSet(Day)
  BY DaysFinite
<1>2. SumOver(f, Day) \in Nat /\ SumOver(h, Day) \in Nat
  BY <1>1, SumNat
<1>3. (\A c \in Day : f[c] \in Int) /\ (\A c \in Day : h[c] \in Int)
  OBVIOUS
<1>4. SumOver(h, Day) = SumOver(f, Day) - f[d] + h[d]
  BY <1>1, <1>3, SumUpdate
<1>. QED BY <1>2, <1>4

LEMMA PartsTypes ==
  ASSUME TypeInv, NEW p \in Player, NEW d \in Day
  PROVE  /\ LedgerPart(p)[d] \in Nat /\ LoginPart(p)[d] \in Nat /\ BonusPart(p)[d] \in Nat
<1>1. ledger[d][p] \in Nat
  BY PointsAssumption DEF TypeInv, ClassicTypes, ClassicRecordsOK
<1>2. loginClaim[d][p] \in [streak : Nat, reward : Nat, bonus : Nat] \cup {NULL}
  BY DEF TypeInv, ClassicTypes, ClassicRecordsOK
<1>3. ASSUME loginClaim[d][p] # NULL
      PROVE  BpsAmount(ledger[d][p], loginClaim[d][p].bonus) \in Nat
  BY <1>1, <1>2, <1>3, SharesAdd
<1>. QED BY <1>1, <1>2, <1>3 DEF LedgerPart, LoginPart, BonusPart

LEMMA PartsTypesAfter ==
  ASSUME TypeInv', NEW p \in Player, NEW d \in Day
  PROVE  /\ LedgerPart(p)'[d] \in Nat /\ LoginPart(p)'[d] \in Nat /\ BonusPart(p)'[d] \in Nat
<1>1. ledger'[d][p] \in Nat
  BY PointsAssumption DEF TypeInv, ClassicTypes, ClassicRecordsOK
<1>2. loginClaim'[d][p] \in [streak : Nat, reward : Nat, bonus : Nat] \cup {NULL}
  BY DEF TypeInv, ClassicTypes, ClassicRecordsOK
<1>3. ASSUME loginClaim'[d][p] # NULL
      PROVE  BpsAmount(ledger'[d][p], loginClaim'[d][p].bonus) \in Nat
  BY <1>1, <1>2, <1>3, SharesAdd
<1>. QED BY <1>1, <1>2, <1>3 DEF LedgerPart, LoginPart, BonusPart

Explained(p) ==
  /\ LedgerOf(p) + LoginPointsOf(p) <= points[p].earned
  /\ points[p].earned <= LedgerOf(p) + LoginPointsOf(p) + BonusAllowed(p)

\* What is earned on a day, by a game or a login, is explained by that day.
LEMMA ExplainedAfter ==
  ASSUME TypeInv, TypeInv', NEW p \in Player, NEW d \in Day, Explained(p),
         NEW game \in Nat, NEW login \in Nat, NEW bonus \in Nat,
         \A c \in Day \ {d} : /\ LedgerPart(p)'[c] = LedgerPart(p)[c]
                              /\ LoginPart(p)'[c] = LoginPart(p)[c]
                              /\ BonusPart(p)'[c] = BonusPart(p)[c],
         LedgerPart(p)'[d] = LedgerPart(p)[d] + game,
         LoginPart(p)'[d] = LoginPart(p)[d] + login,
         BonusPart(p)'[d] >= BonusPart(p)[d] + bonus,
         points'[p].earned = points[p].earned + game + login + bonus
  PROVE  Explained(p)'
<1>. DEFINE f1 == LedgerPart(p)
            h1 == LedgerPart(p)'
            f2 == LoginPart(p)
            h2 == LoginPart(p)'
            f3 == BonusPart(p)
            h3 == BonusPart(p)'
<1>1. \A c \in Day : /\ f1[c] \in Nat /\ h1[c] \in Nat /\ f2[c] \in Nat /\ h2[c] \in Nat
                     /\ f3[c] \in Nat /\ h3[c] \in Nat
  <2>1. \A c \in Day : f1[c] \in Nat /\ f2[c] \in Nat /\ f3[c] \in Nat
    BY PartsTypes
  <2>2. \A c \in Day : h1[c] \in Nat /\ h2[c] \in Nat /\ h3[c] \in Nat
    BY PartsTypesAfter
  <2>. HIDE DEF f1, h1, f2, h2, f3, h3
  <2>. QED BY <2>1, <2>2
<1>2. /\ LedgerOf(p) = SumOver(f1, Day) /\ LedgerOf(p)' = SumOver(h1, Day)
      /\ LoginPointsOf(p) = SumOver(f2, Day) /\ LoginPointsOf(p)' = SumOver(h2, Day)
      /\ BonusAllowed(p) = SumOver(f3, Day) /\ BonusAllowed(p)' = SumOver(h3, Day)
  BY DEF LedgerOf, LoginPointsOf, BonusAllowed, LedgerPart, LoginPart, BonusPart
<1>3. /\ \A c \in Day \ {d} : h1[c] = f1[c] /\ h2[c] = f2[c] /\ h3[c] = f3[c]
      /\ h1[d] = f1[d] + game /\ h2[d] = f2[d] + login /\ h3[d] >= f3[d] + bonus
  OBVIOUS
<1>4. points[p].earned \in Nat
  BY DEF TypeInv, ClassicTypes, ClassicRecordsOK
<1>5. /\ SumOver(f1, Day) + SumOver(f2, Day) <= points[p].earned
      /\ points[p].earned <= SumOver(f1, Day) + SumOver(f2, Day) + SumOver(f3, Day)
  BY <1>2 DEF Explained
<1>. HIDE DEF f1, h1, f2, h2, f3, h3
<1>6. /\ SumOver(f1, Day) \in Nat /\ SumOver(h1, Day) \in Nat
      /\ SumOver(h1, Day) = SumOver(f1, Day) - f1[d] + h1[d]
  BY <1>1, <1>3, SumMoves
<1>7. /\ SumOver(f2, Day) \in Nat /\ SumOver(h2, Day) \in Nat
      /\ SumOver(h2, Day) = SumOver(f2, Day) - f2[d] + h2[d]
  BY <1>1, <1>3, SumMoves
<1>8. /\ SumOver(f3, Day) \in Nat /\ SumOver(h3, Day) \in Nat
      /\ SumOver(h3, Day) = SumOver(f3, Day) - f3[d] + h3[d]
  BY <1>1, <1>3, SumMoves
<1>9. /\ f1[d] \in Nat /\ f2[d] \in Nat /\ f3[d] \in Nat
      /\ h1[d] \in Nat /\ h2[d] \in Nat /\ h3[d] \in Nat
  BY <1>1
<1>10. /\ SumOver(h1, Day) + SumOver(h2, Day) <= points'[p].earned
       /\ points'[p].earned <= SumOver(h1, Day) + SumOver(h2, Day) + SumOver(h3, Day)
  BY <1>3, <1>4, <1>5, <1>6, <1>7, <1>8, <1>9
<1>. QED BY <1>2, <1>10 DEF Explained

LEMMA ExplainedFrame ==
  ASSUME BonusClaimed, \A p \in Player : Explained(p),
         UNCHANGED <<ledger, loginClaim>>,
         \A p \in Player : /\ points'[p].earned = points[p].earned
                           /\ points'[p].bonusDate = points[p].bonusDate
  PROVE  BonusClaimed' /\ \A p \in Player : Explained(p)'
<1>1. BonusClaimed'
  BY DEF BonusClaimed
<1>2. ASSUME NEW p \in Player
      PROVE  Explained(p)'
  <2>1. LedgerOf(p)' = LedgerOf(p) /\ LoginPointsOf(p)' = LoginPointsOf(p)
        /\ BonusAllowed(p)' = BonusAllowed(p)
    BY DEF LedgerOf, LoginPointsOf, BonusAllowed
  <2>. QED BY <2>1 DEF Explained
<1>. QED BY <1>1, <1>2

LEMMA EarnExplained ==
  ASSUME TypeInv, TypeInv', BonusClaimed, \A p \in Player : Explained(p),
         NEW p \in Player, NEW g \in GameId, NEW now \in Time, NEW score \in ClassicScore,
         SubmitClassicResult(p, g, now, score)
  PROVE  BonusClaimed' /\ \A q \in Player : Explained(q)'
<1>. DEFINE d == DateOf(now)
            game == CappedPoints(p, d, score)
            rate == BonusBps(p, d)
            bonus == BpsAmount(game, rate)
            more == EarnedPoints(p, d, score)
<1>1. /\ points' = [points EXCEPT ![p] = Credited(@, more)]
      /\ ledger' = [ledger EXCEPT ![d][p] = @ + game]
      /\ loginClaim' = loginClaim
  BY DEF SubmitClassicResult, EarnClassicPoints
<1>2. d \in Day /\ score \in Nat /\ ClassicTypes
  BY TimeTypes, SeasonAssumption DEF TypeInv
<1>3. /\ game \in Nat /\ rate \in Nat /\ more = game + bonus
      /\ rate = IF points[p].bonusDate = d THEN LoginBonusBps ELSE 0
  <2>1. game \in Nat
    BY <1>2, CappedNat
  <2>2. rate \in Nat /\ rate = IF points[p].bonusDate = d THEN LoginBonusBps ELSE 0
    BY PointsAssumption DEF BonusBps
  <2>. QED BY <2>1, <2>2 DEF EarnedPoints
<1>. HIDE DEF d, game, rate, more
<1>4. bonus \in Nat
  BY <1>3, SharesAdd
<1>5. points \in [Player -> PointsRecord]
  BY DEF TypeInv, ClassicTypes, ClassicRecordsOK, PointsRecord
<1>6. \A q \in Player : /\ points'[q].bonusDate = points[q].bonusDate
                        /\ points'[q].earned = points[q].earned + IF q = p THEN more ELSE 0
  <2>1. \A q \in Player : points'[q] = IF q = p THEN Credited(points[p], more) ELSE points[q]
    BY <1>1, <1>5
  <2>2. \A q \in Player : points[q].earned \in Nat
    BY <1>5 DEF PointsRecord
  <2>. QED BY <2>1, <2>2 DEF Credited
<1>7. /\ \A c \in Day, q \in Player :
           ledger'[c][q] = IF c = d /\ q = p THEN ledger[c][q] + game ELSE ledger[c][q]
      /\ \A c \in Day, q \in Player : ledger[c][q] \in Nat
  BY <1>1, <1>2, PointsAssumption DEF ClassicTypes, ClassicRecordsOK
<1>8. BonusClaimed'
  BY <1>1, <1>6 DEF BonusClaimed
<1>9. ASSUME NEW q \in Player, q # p
      PROVE  Explained(q)'
  <2>1. \A c \in Day : ledger'[c][q] = ledger[c][q]
    BY <1>7, <1>9
  <2>2. LedgerOf(q)' = LedgerOf(q) /\ LoginPointsOf(q)' = LoginPointsOf(q)
        /\ BonusAllowed(q)' = BonusAllowed(q)
    BY <1>1, <2>1 DEF LedgerOf, LoginPointsOf, BonusAllowed
  <2>3. points'[q].earned = points[q].earned
    BY <1>5, <1>6, <1>9 DEF PointsRecord
  <2>. QED BY <2>2, <2>3 DEF Explained
<1>10. Explained(p)'
  <2>. DEFINE zero == 0
  <2>1. \A c \in Day \ {d} : /\ LedgerPart(p)'[c] = LedgerPart(p)[c]
                              /\ LoginPart(p)'[c] = LoginPart(p)[c]
                              /\ BonusPart(p)'[c] = BonusPart(p)[c]
    BY <1>1, <1>7 DEF LedgerPart, LoginPart, BonusPart
  <2>2. LedgerPart(p)'[d] = LedgerPart(p)[d] + game
    BY <1>2, <1>7 DEF LedgerPart
  <2>3. LoginPart(p)'[d] = LoginPart(p)[d] + zero
    <3>1. LoginPart(p)'[d] = LoginPart(p)[d]
      BY <1>1 DEF LoginPart
    <3>2. LoginPart(p)[d] \in Nat
      BY <1>2, PartsTypes
    <3>. QED BY <3>1, <3>2
  <2>4. BonusPart(p)'[d] >= BonusPart(p)[d] + bonus
    <3>. DEFINE old == ledger[d][p]
                won == loginClaim[d][p].bonus
    <3>1. old \in Nat /\ ledger'[d][p] = old + game
      BY <1>2, <1>7
    <3>2. loginClaim[d][p] \in [streak : Nat, reward : Nat, bonus : Nat] \cup {NULL}
      BY <1>2 DEF ClassicTypes, ClassicRecordsOK
    <3>3. CASE loginClaim[d][p] = NULL
      <4>1. points[p].bonusDate # d
        <5>1. d # NULL
          BY <1>2, TimeTypes, StateAssumption DEF Day, DateOf
        <5>. QED BY <3>3, <5>1 DEF BonusClaimed
      <4>2. bonus = 0
        <5>1. rate = 0
          BY <1>3, <4>1
        <5>. QED BY <1>3, <5>1, SharesAdd
      <4>3. BonusPart(p)'[d] = 0 /\ BonusPart(p)[d] = 0
        BY <1>1, <1>2, <3>3 DEF BonusPart
      <4>. QED BY <4>2, <4>3
    <3>4. CASE loginClaim[d][p] # NULL
      <4>1. won \in Nat
        BY <3>2, <3>4
      <4>2. /\ BonusPart(p)[d] = BpsAmount(old, won)
            /\ BonusPart(p)'[d] = BpsAmount(old + game, won)
        BY <1>1, <1>2, <3>1, <3>4 DEF BonusPart
      <4>3. /\ BpsAmount(old, won) + BpsAmount(game, won) <= BpsAmount(old + game, won)
            /\ BpsAmount(old, won) \in Nat /\ BpsAmount(old + game, won) \in Nat
            /\ BpsAmount(game, won) \in Nat
            /\ BpsAmount(game, 0) = 0
        <5>. HIDE DEF old, won
        <5>. QED BY <1>3, <3>1, <4>1, SharesAdd
      <4>4. bonus = BpsAmount(game, won) \/ bonus = BpsAmount(game, 0)
        <5>1. points[p].bonusDate = d => won = LoginBonusBps
          <6>1. d # NULL
            BY <1>2, TimeTypes, StateAssumption DEF Day, DateOf
          <6>. QED BY <6>1 DEF BonusClaimed
        <5>. QED BY <1>3, <5>1
      <4>. HIDE DEF old, won, bonus
      <4>. QED BY <4>2, <4>3, <4>4
    <3>. QED BY <3>3, <3>4
  <2>5. points'[p].earned = points[p].earned + game + zero + bonus
    <3>1. points[p].earned \in Nat
      BY <1>5 DEF PointsRecord
    <3>. HIDE DEF bonus
    <3>. QED BY <1>3, <1>4, <1>6, <3>1
  <2>6. zero \in Nat
    OBVIOUS
  <2>. HIDE DEF bonus, zero
  <2>. QED BY <1>2, <1>3, <1>4, <2>1, <2>2, <2>3, <2>4, <2>5, <2>6, ExplainedAfter
<1>. QED BY <1>8, <1>9, <1>10

LEMMA LoginExplained ==
  ASSUME TypeInv, TypeInv', BonusClaimed, \A p \in Player : Explained(p),
         NEW p \in Player, NEW now \in Time, ClaimDailyLoginReward(p, now)
  PROVE  BonusClaimed' /\ \A q \in Player : Explained(q)'
<1>. DEFINE d == DateOf(now)
            streak == NextStreak(p, d)
            reward == LoginRewardPoints[streak]
            bonus == IF streak >= Len(LoginRewardPoints) THEN LoginBonusBps ELSE 0
            new == [balance |-> points[p].balance + reward, earned |-> points[p].earned + reward,
                    streak |-> streak, lastLogin |-> d,
                    bonusDate |-> IF bonus > 0 THEN d ELSE NULL]
            receipt == [streak |-> streak, reward |-> reward, bonus |-> bonus]
<1>1. /\ loginClaim[d][p] = NULL
      /\ points' = [points EXCEPT ![p] = new]
      /\ loginClaim' = [loginClaim EXCEPT ![d][p] = receipt]
      /\ ledger' = ledger
  BY DEF ClaimDailyLoginReward
<1>2. /\ d \in Day /\ streak \in Nat /\ reward \in Nat
      /\ bonus \in Nat /\ (bonus > 0 => bonus = LoginBonusBps)
  BY TimeTypes, StreakShape, PointsAssumption DEF TypeInv
<1>. HIDE DEF d, streak, reward, bonus
<1>3. /\ receipt # NULL /\ receipt.reward = reward /\ receipt.bonus = bonus
      /\ receipt.bonus \in Nat
  BY <1>2, PointsAssumption
<1>4. /\ new.earned = points[p].earned + reward
      /\ new.bonusDate # NULL => new.bonusDate = d /\ bonus = LoginBonusBps
  BY <1>2
<1>. HIDE DEF new, receipt
<1>5. /\ \A q \in Player : points'[q] = IF q = p THEN new ELSE points[q]
      /\ \A c \in Day, q \in Player :
           loginClaim'[c][q] = IF c = d /\ q = p THEN receipt ELSE loginClaim[c][q]
  BY <1>1, <1>2 DEF TypeInv, ClassicTypes, ClassicRecordsOK
<1>6. BonusClaimed'
  <2>. SUFFICES ASSUME NEW q \in Player, points'[q].bonusDate # NULL
                PROVE  /\ loginClaim'[points'[q].bonusDate][q] # NULL
                       /\ loginClaim'[points'[q].bonusDate][q].bonus = LoginBonusBps
    BY DEF BonusClaimed
  <2>1. CASE q = p
    BY <1>2, <1>3, <1>4, <1>5, <2>1
  <2>2. CASE q # p
    <3>1. points[q].bonusDate \in Day /\ points'[q] = points[q]
      BY <1>5, <2>2 DEF TypeInv, ClassicTypes, ClassicRecordsOK
    <3>. QED BY <1>5, <2>2, <3>1 DEF BonusClaimed
  <2>. QED BY <2>1, <2>2
<1>7. ASSUME NEW q \in Player, q # p
      PROVE  Explained(q)'
  <2>1. (\A c \in Day : loginClaim'[c][q] = loginClaim[c][q]) /\ points'[q] = points[q]
    BY <1>5, <1>7
  <2>2. LedgerOf(q)' = LedgerOf(q) /\ LoginPointsOf(q)' = LoginPointsOf(q)
        /\ BonusAllowed(q)' = BonusAllowed(q)
    BY <1>1, <2>1 DEF LedgerOf, LoginPointsOf, BonusAllowed
  <2>. QED BY <2>1, <2>2 DEF Explained
<1>8. Explained(p)'
  <2>. DEFINE zero == 0
  <2>1. \A c \in Day \ {d} : /\ LedgerPart(p)'[c] = LedgerPart(p)[c]
                              /\ LoginPart(p)'[c] = LoginPart(p)[c]
                              /\ BonusPart(p)'[c] = BonusPart(p)[c]
    BY <1>1, <1>5 DEF LedgerPart, LoginPart, BonusPart
  <2>2. /\ LedgerPart(p)[d] \in Nat /\ LoginPart(p)[d] \in Nat /\ BonusPart(p)[d] \in Nat
        /\ LedgerPart(p)'[d] \in Nat /\ LoginPart(p)'[d] \in Nat /\ BonusPart(p)'[d] \in Nat
    BY <1>2, PartsTypes, PartsTypesAfter
  <2>3. LedgerPart(p)'[d] = LedgerPart(p)[d] + zero
    <3>1. LedgerPart(p)'[d] = LedgerPart(p)[d]
      BY <1>1 DEF LedgerPart
    <3>. QED BY <2>2, <3>1
  <2>4. LoginPart(p)'[d] = LoginPart(p)[d] + reward
    <3>1. LoginPart(p)[d] = 0 /\ LoginPart(p)'[d] = reward
      BY <1>1, <1>2, <1>3, <1>5 DEF LoginPart
    <3>. QED BY <1>2, <3>1
  <2>5. BonusPart(p)'[d] >= BonusPart(p)[d] + zero
    <3>1. BonusPart(p)[d] = 0
      BY <1>1, <1>2 DEF BonusPart
    <3>. QED BY <2>2, <3>1
  <2>6. points'[p].earned = points[p].earned + zero + reward + zero
    <3>1. points[p].earned \in Nat
      BY DEF TypeInv, ClassicTypes, ClassicRecordsOK
    <3>. QED BY <1>2, <1>4, <1>5, <3>1
  <2>7. zero \in Nat
    OBVIOUS
  <2>8. Explained(p)
    OBVIOUS
  <2>. HIDE DEF zero
  <2>. QED BY <1>2, <2>1, <2>3, <2>4, <2>5, <2>6, <2>7, <2>8, ExplainedAfter
<1>. QED BY <1>6, <1>7, <1>8

LEMMA EarnedStep ==
  ASSUME TypeInv, TypeInv', BonusClaimed, \A p \in Player : Explained(p),
         [ArcadeNext]_arcadeVars
  PROVE  BonusClaimed' /\ \A p \in Player : Explained(p)'
<1>1. ASSUME UNCHANGED pointsVars
      PROVE  BonusClaimed' /\ \A p \in Player : Explained(p)'
  BY <1>1, ExplainedFrame DEF pointsVars
<1>2. ASSUME NEW p \in Player, NEW m \in Month, NEW now \in Time, ClaimMonthlyReward(p, m, now)
      PROVE  UNCHANGED pointsVars
  BY <1>2 DEF ClaimMonthlyReward
<1>3. ASSUME NEW p \in Player, NEW burn \in Burn, NEW now \in Time,
             RedeemClassicPoints(p, burn, now)
      PROVE  BonusClaimed' /\ \A q \in Player : Explained(q)'
  <2>1. points' = [points EXCEPT ![p].balance = @ - burn] /\ UNCHANGED <<ledger, loginClaim>>
    BY <1>3 DEF RedeemClassicPoints
  <2>2. points \in [Player -> PointsRecord]
    BY DEF TypeInv, ClassicTypes, ClassicRecordsOK, PointsRecord
  <2>3. \A q \in Player : /\ points'[q].earned = points[q].earned
                          /\ points'[q].bonusDate = points[q].bonusDate
    BY <2>1, <2>2 DEF PointsRecord
  <2>. QED BY <2>1, <2>3, ExplainedFrame
<1>. QED BY <1>1, <1>2, <1>3, EarnExplained, LoginExplained, ClassicSteps, Zenon

\* The points a player ever earned are those of games within the daily caps and of
\* logins, with a bonus for the days of full streaks only, in whatever order days
\* are claimed and games submitted.
THEOREM EarnedAlwaysExplained == ArcadeSpec => []EarnedIsExplained
<1>. DEFINE Inv == TypeInv /\ BonusClaimed /\ \A p \in Player : Explained(p)
<1>1. ArcadeInit => Inv
  <2>. SUFFICES ASSUME ArcadeInit, TypeInv PROVE BonusClaimed /\ \A p \in Player : Explained(p)
    BY TypesAtFirst
  <2>1. BonusClaimed
    BY DEF ArcadeInit, PointsRecordsInit, BonusClaimed
  <2>2. ASSUME NEW p \in Player
        PROVE  Explained(p)
    <3>. DEFINE f1 == LedgerPart(p)
                f2 == LoginPart(p)
                f3 == BonusPart(p)
    <3>1. \A d \in Day : f1[d] = 0 /\ f2[d] = 0 /\ f3[d] = 0
      BY DEF ArcadeInit, PointsRecordsInit, LedgerPart, LoginPart, BonusPart
    <3>2. /\ LedgerOf(p) = SumOver(f1, Day) /\ LoginPointsOf(p) = SumOver(f2, Day)
          /\ BonusAllowed(p) = SumOver(f3, Day)
      BY DEF LedgerOf, LoginPointsOf, BonusAllowed, LedgerPart, LoginPart, BonusPart
    <3>3. points[p].earned = 0
      BY DEF ArcadeInit, PointsRecordsInit
    <3>. HIDE DEF f1, f2, f3
    <3>4. SumOver(f1, Day) = 0 /\ SumOver(f2, Day) = 0 /\ SumOver(f3, Day) = 0
      BY <3>1, DaysFinite, SumZero
    <3>. QED BY <3>2, <3>3, <3>4 DEF Explained
  <2>. QED BY <2>1, <2>2
<1>2. Inv /\ [ArcadeNext]_arcadeVars => Inv'
  <2>. SUFFICES ASSUME Inv, [ArcadeNext]_arcadeVars PROVE Inv'
    OBVIOUS
  <2>1. TypeInv'
    BY TypesStep
  <2>2. BonusClaimed' /\ \A p \in Player : Explained(p)'
    BY <2>1, EarnedStep
  <2>. QED BY <2>1, <2>2
<1>3. Inv => EarnedIsExplained
  BY DEF Explained, EarnedIsExplained
<1>. QED BY <1>1, <1>2, <1>3, PTL DEF ArcadeSpec

-----------------------------------------------------------------------------
(***************************************************************************)
(* Money.                                                                  *)
(***************************************************************************)

\* The messages of players that move tokens or prizes, and what all the others
\* leave alone.
GameMoves ==
  \/ /\ UNCHANGED weeklyVars /\ UNCHANGED monthClaim
     /\ \/ \E p \in Player, g \in GameId, d \in Date, fee \in DailyFee :
             StartDailyGame(p, g, d, fee)
        \/ \E p \in Player, d \in Date, now \in Time : ClaimDailyReward(p, d, now)
  \/ /\ UNCHANGED dailyVars /\ UNCHANGED monthClaim
     /\ \/ \E p \in Player, g \in GameId, now \in Time : StartWeeklyGame(p, g, now)
        \/ \E p \in Player, w \in Week, now \in Time : ClaimWeeklyReward(p, w, now)
  \/ /\ UNCHANGED <<dailyVars, weeklyVars>>
     /\ \/ \E p \in Player, g \in GameId, fee \in ClassicFee : StartClassicGame(p, g, fee)
        \/ \E p \in Player, m \in Month, now \in Time : ClaimMonthlyReward(p, m, now)
        \/ /\ UNCHANGED seasonVars
           /\ \E p \in Player, burn \in Burn, now \in Time : RedeemClassicPoints(p, burn, now)
  \/ UNCHANGED <<account, pool, treasury, prize, weekMeta, weekClaim, monthClaim>>

LEMMA PlayerSteps ==
  ASSUME [GameNext]_arcadeVars
  PROVE  GameMoves
<1>1. ASSUME NEW p \in Player, NEW g \in GameId, NEW now \in Time, NEW r \in Result,
             SubmitDailyResult(p, g, now, r), UNCHANGED <<weeklyVars, pointsVars, seasonVars>>
      PROVE  UNCHANGED <<account, pool, treasury, prize, weekMeta, weekClaim, monthClaim>>
  BY <1>1 DEF SubmitDailyResult, weeklyVars, seasonVars
<1>2. ASSUME NEW p \in Player, NEW g \in GameId, NEW now \in Time, NEW score \in RunScore,
             SubmitWeeklyResult(p, g, now, score), UNCHANGED <<dailyVars, pointsVars, seasonVars>>
      PROVE  UNCHANGED <<account, pool, treasury, prize, weekMeta, weekClaim, monthClaim>>
  BY <1>2 DEF SubmitWeeklyResult, dailyVars, seasonVars
<1>3. ASSUME NEW p \in Player, NEW g \in GameId, NEW now \in Time, NEW score \in ClassicScore,
             SubmitClassicResult(p, g, now, score), UNCHANGED <<dailyVars, weeklyVars>>
      PROVE  UNCHANGED <<account, pool, treasury, prize, weekMeta, weekClaim, monthClaim>>
  BY <1>3 DEF SubmitClassicResult, dailyVars, weeklyVars
<1>4. ASSUME NEW p \in Player, NEW now \in Time, ClaimDailyLoginReward(p, now),
             UNCHANGED seasonVars, UNCHANGED <<dailyVars, weeklyVars>>
      PROVE  UNCHANGED <<account, pool, treasury, prize, weekMeta, weekClaim, monthClaim>>
  BY <1>4 DEF ClaimDailyLoginReward, dailyVars, weeklyVars, stateVars, seasonVars
<1>5. UNCHANGED arcadeVars => UNCHANGED <<account, pool, treasury, prize, weekMeta, weekClaim, monthClaim>>
  BY DEF arcadeVars, stateVars, dailyVars, weeklyVars, seasonVars
<1>6. CASE DailyNext /\ UNCHANGED <<weeklyVars, pointsVars, seasonVars>>
  <2>1. UNCHANGED weeklyVars /\ UNCHANGED monthClaim
    BY <1>6 DEF seasonVars
  <2>. QED BY <1>1, <1>6, <2>1, Zenon DEF DailyNext, GameMoves
<1>7. CASE WeeklyNext /\ UNCHANGED <<dailyVars, pointsVars, seasonVars>>
  <2>1. UNCHANGED dailyVars /\ UNCHANGED monthClaim
    BY <1>7 DEF seasonVars
  <2>. QED BY <1>2, <1>7, <2>1, Zenon DEF WeeklyNext, GameMoves
<1>8. CASE ClassicNext /\ UNCHANGED <<dailyVars, weeklyVars>>
  BY <1>3, <1>4, <1>8, Zenon DEF ClassicNext, SeasonNext, PointsNext, GameMoves
<1>. QED BY <1>5, <1>6, <1>7, <1>8, Zenon DEF GameNext, GameMoves

LEMMA MoneySteps ==
  ASSUME [ArcadeNext]_arcadeVars
  PROVE  \/ GameMoves
         \/ AdminNext /\ UNCHANGED <<dailyVars, weeklyVars, pointsVars, seasonVars>>
<1>1. [GameNext]_arcadeVars => GameMoves
  BY PlayerSteps
<1>. QED BY <1>1, Zenon DEF ArcadeNext

LEMMA PoolsFinite == IsFiniteSet(PoolId)
<1>. DEFINE name == <<"FEE", "DAO", "PLATFORM", "RESERVE", "SHOP", "DAILY", "MONTHLY", "WEEKLY">>
            number == [j \in 1 .. 8 |-> name[j]]
<1>1. IsFiniteSet({number[j] : j \in 1 .. 8})
  <2>. DEFINE S == 1 .. 8
  <2>1. IsFiniteSet(S)
    BY 1 \in Int, 8 \in Int, FS_Interval, Zenon
  <2>. HIDE DEF S, number
  <2>2. IsFiniteSet({number[j] : j \in S})
    BY <2>1, ValuesFinite
  <2>. QED BY <2>2 DEF S
<1>2. PoolId = {number[j] : j \in 1 .. 8}
  <2>1. \A j \in 1 .. 8 : number[j] \in PoolId
    BY DEF PoolId
  <2>2. /\ number[1] = "FEE" /\ number[2] = "DAO" /\ number[3] = "PLATFORM"
        /\ number[4] = "RESERVE" /\ number[5] = "SHOP" /\ number[6] = "DAILY"
        /\ number[7] = "MONTHLY" /\ number[8] = "WEEKLY"
    OBVIOUS
  <2>. HIDE DEF number
  <2>3. \A i \in PoolId : \E j \in 1 .. 8 : i = number[j]
    BY <2>2 DEF PoolId
  <2>. QED BY <2>1, <2>3
<1>. QED BY <1>1, <1>2

\* The sum of a function that is zero but at four places.
LEMMA SumOfFour ==
  ASSUME NEW S, IsFiniteSet(S), NEW f, \A x \in S : f[x] \in Int,
         NEW a \in S, NEW b \in S, NEW c \in S, NEW e \in S,
         a # b, a # c, a # e, b # c, b # e, c # e,
         \A x \in S : x # a /\ x # b /\ x # c /\ x # e => f[x] = 0
  PROVE  SumOver(f, S) = f[a] + f[b] + f[c] + f[e]
<1>. DEFINE R1 == S \ {a}
            R2 == R1 \ {b}
            R3 == R2 \ {c}
            R4 == R3 \ {e}
<1>1. /\ IsFiniteSet(R1) /\ IsFiniteSet(R2) /\ IsFiniteSet(R3) /\ IsFiniteSet(R4)
  <2>1. IsFiniteSet(R1)
    BY FS_RemoveElement
  <2>2. IsFiniteSet(R2)
    BY <2>1, FS_RemoveElement
  <2>3. IsFiniteSet(R3)
    BY <2>2, FS_RemoveElement
  <2>. QED BY <2>1, <2>2, <2>3, FS_RemoveElement
<1>2. /\ \A x \in R1 : f[x] \in Int
      /\ \A x \in R2 : f[x] \in Int
      /\ \A x \in R3 : f[x] \in Int
      /\ \A x \in R4 : f[x] = 0
      /\ b \in R1 /\ c \in R2 /\ e \in R3
  OBVIOUS
<1>3. R1 = S \ {a} /\ R2 = R1 \ {b} /\ R3 = R2 \ {c} /\ R4 = R3 \ {e}
  OBVIOUS
<1>. HIDE DEF R1, R2, R3, R4
<1>4. SumOver(f, R1) \in Int /\ SumOver(f, S) = f[a] + SumOver(f, R1)
  BY <1>3, SumRest
<1>5. SumOver(f, R2) \in Int /\ SumOver(f, R1) = f[b] + SumOver(f, R2)
  BY <1>1, <1>2, <1>3, SumRest
<1>6. SumOver(f, R3) \in Int /\ SumOver(f, R2) = f[c] + SumOver(f, R3)
  BY <1>1, <1>2, <1>3, SumRest
<1>7. SumOver(f, R4) \in Int /\ SumOver(f, R3) = f[e] + SumOver(f, R4)
  BY <1>1, <1>2, <1>3, SumRest
<1>8. SumOver(f, R4) = 0
  BY <1>1, <1>2, SumZero
<1>. QED BY <1>4, <1>5, <1>6, <1>7, <1>8

\* A fee covers what the pools receive of it.
LEMMA SplitCovered ==
  ASSUME NEW fee \in Nat
  PROVE  /\ SumOver(SplitFee(DailyBps, fee), PoolId) <= fee
         /\ SumOver(SplitFee(ClassicBps, fee), PoolId) <= fee
         /\ SumOver(SplitFee(WeeklyBps, fee), PoolId) <= fee
<1>1. /\ "PLATFORM" \in PoolId /\ "RESERVE" \in PoolId /\ "SHOP" \in PoolId
      /\ "DAILY" \in PoolId /\ "MONTHLY" \in PoolId /\ "WEEKLY" \in PoolId
  BY DEF PoolId
<1>2. SumOver(SplitFee(DailyBps, fee), PoolId) <= fee
  <2>. DEFINE f == SplitFee(DailyBps, fee)
  <2>1. /\ f["PLATFORM"] + f["RESERVE"] + f["SHOP"] + f["DAILY"] <= fee
        /\ \A x \in PoolId :
             x # "PLATFORM" /\ x # "RESERVE" /\ x # "SHOP" /\ x # "DAILY" => f[x] = 0
    BY DEF SplitFee, DailyBps, PoolId, BpsAmount, BpsDenominator
  <2>2. \A x \in PoolId : f[x] \in Int
    BY SplitTypes
  <2>. HIDE DEF f
  <2>3. SumOver(f, PoolId) = f["PLATFORM"] + f["RESERVE"] + f["SHOP"] + f["DAILY"]
    BY <1>1, <2>1, <2>2, SumOfFour, PoolsFinite
  <2>. QED BY <2>1, <2>3 DEF f
<1>3. SumOver(SplitFee(ClassicBps, fee), PoolId) <= fee
  <2>. DEFINE f == SplitFee(ClassicBps, fee)
  <2>1. /\ f["PLATFORM"] + f["RESERVE"] + f["SHOP"] + f["MONTHLY"] <= fee
        /\ \A x \in PoolId :
             x # "PLATFORM" /\ x # "RESERVE" /\ x # "SHOP" /\ x # "MONTHLY" => f[x] = 0
    BY DEF SplitFee, ClassicBps, PoolId, BpsAmount, BpsDenominator
  <2>2. \A x \in PoolId : f[x] \in Int
    BY SplitTypes
  <2>. HIDE DEF f
  <2>3. SumOver(f, PoolId) = f["PLATFORM"] + f["RESERVE"] + f["SHOP"] + f["MONTHLY"]
    BY <1>1, <2>1, <2>2, SumOfFour, PoolsFinite
  <2>. QED BY <2>1, <2>3 DEF f
<1>4. SumOver(SplitFee(WeeklyBps, fee), PoolId) <= fee
  <2>. DEFINE f == SplitFee(WeeklyBps, fee)
  <2>1. /\ f["PLATFORM"] + f["RESERVE"] + f["SHOP"] + f["WEEKLY"] <= fee
        /\ \A x \in PoolId :
             x # "PLATFORM" /\ x # "RESERVE" /\ x # "SHOP" /\ x # "WEEKLY" => f[x] = 0
    BY DEF SplitFee, WeeklyBps, PoolId, BpsAmount, BpsDenominator
  <2>2. \A x \in PoolId : f[x] \in Int
    BY SplitTypes
  <2>. HIDE DEF f
  <2>3. SumOver(f, PoolId) = f["PLATFORM"] + f["RESERVE"] + f["SHOP"] + f["WEEKLY"]
    BY <1>1, <2>1, <2>2, SumOfFour, PoolsFinite
  <2>. QED BY <2>1, <2>3 DEF f
<1>. QED BY <1>2, <1>3, <1>4

InAccounts == SumOver(account, Player)
InPools == SumOver(pool, PoolId)

LEMMA TotalsAreAmounts ==
  ASSUME StateTypeOK
  PROVE  InAccounts \in Nat /\ InPools \in Nat
<1>1. (\A p \in Player : account[p] \in Nat) /\ (\A i \in PoolId : pool[i] \in Nat)
  BY DEF StateTypeOK
<1>2. IsFiniteSet(Player)
  BY StateAssumption
<1>. QED BY <1>1, <1>2, PoolsFinite, SumNat DEF InAccounts, InPools

\* What one account, or one pool, gains is gained by all together.
LEMMA AccountMoves ==
  ASSUME StateTypeOK, StateTypeOK', NEW p \in Player,
         \A q \in Player \ {p} : account'[q] = account[q]
  PROVE  InAccounts' = InAccounts - account[p] + account'[p]
<1>1. (\A q \in Player : account[q] \in Int) /\ (\A q \in Player : account'[q] \in Int)
  BY DEF StateTypeOK
<1>2. IsFiniteSet(Player)
  BY StateAssumption
<1>3. SumOver(account', Player) = SumOver(account, Player) - account[p] + account'[p]
  BY <1>1, <1>2, SumUpdate
<1>. QED BY <1>3 DEF InAccounts

LEMMA PoolMoves ==
  ASSUME StateTypeOK, StateTypeOK', NEW i \in PoolId,
         \A j \in PoolId \ {i} : pool'[j] = pool[j]
  PROVE  InPools' = InPools - pool[i] + pool'[i]
<1>1. (\A j \in PoolId : pool[j] \in Int) /\ (\A j \in PoolId : pool'[j] \in Int)
  BY DEF StateTypeOK
<1>2. SumOver(pool', PoolId) = SumOver(pool, PoolId) - pool[i] + pool'[i]
  BY <1>1, PoolsFinite, SumUpdate
<1>. QED BY <1>2 DEF InPools

LEMMA ChargeTotals ==
  ASSUME StateTypeOK, StateTypeOK', NEW p \in Player, NEW fee \in Nat,
         NEW split \in [PoolId -> Nat], SumOver(split, PoolId) <= fee,
         ChargeEntry(p, fee, split)
  PROVE  TotalTokens' <= TotalTokens
<1>1. /\ account[p] \in Nat /\ account'[p] = account[p] - fee
      /\ \A q \in Player \ {p} : account'[q] = account[q]
      /\ \A i \in PoolId : pool'[i] = pool[i] + split[i]
      /\ \A i \in PoolId : pool[i] \in Int
      /\ \A i \in PoolId : split[i] \in Nat
  BY DEF ChargeEntry, StateTypeOK
<1>2. InAccounts' = InAccounts - account[p] + account'[p]
  BY <1>1, AccountMoves
<1>3. InPools' = InPools + SumOver(split, PoolId)
  <2>1. \A i \in PoolId : split[i] \in Int
    BY <1>1
  <2>2. SumOver(pool', PoolId) = SumOver(pool, PoolId) + SumOver(split, PoolId)
    BY <1>1, <2>1, PoolsFinite, SumPlus
  <2>. QED BY <2>2 DEF InPools
<1>4. SumOver(split, PoolId) \in Nat
  BY <1>1, PoolsFinite, SumNat
<1>5. InAccounts' + InPools' <= InAccounts + InPools
  BY <1>1, <1>2, <1>3, <1>4, TotalsAreAmounts
<1>. QED BY <1>5 DEF TotalTokens, InAccounts, InPools

LEMMA PayTotals ==
  ASSUME StateTypeOK, StateTypeOK', NEW i \in PoolId, NEW p \in Player, NEW amount \in Nat,
         PayFrom(i, p, amount)
  PROVE  TotalTokens' <= TotalTokens
<1>1. /\ account[p] \in Nat /\ account'[p] = account[p] + amount
      /\ \A q \in Player \ {p} : account'[q] = account[q]
      /\ pool[i] \in Nat /\ pool'[i] = pool[i] - amount
      /\ \A j \in PoolId \ {i} : pool'[j] = pool[j]
  BY DEF PayFrom, StateTypeOK
<1>2. /\ InAccounts' = InAccounts - account[p] + account'[p]
      /\ InPools' = InPools - pool[i] + pool'[i]
  BY <1>1, AccountMoves, PoolMoves
<1>3. InAccounts' + InPools' <= InAccounts + InPools
  BY <1>1, <1>2, TotalsAreAmounts
<1>. QED BY <1>3 DEF TotalTokens, InAccounts, InPools

\* A transfer credits the receiver, and a transfer to oneself keeps only the debit.
LEMMA SendTotals ==
  ASSUME StateTypeOK, StateTypeOK', NEW from \in Player, NEW to \in Player,
         NEW amount \in Nat, NEW fee \in Nat, MessageSend(from, to, amount, fee)
  PROVE  TotalTokens' <= TotalTokens
<1>1. /\ account' = AfterSend(from, to, amount, fee)
      /\ account \in [Player -> Nat] /\ account[from] \in Nat /\ account[to] \in Nat
      /\ pool["FEE"] \in Nat /\ pool'["FEE"] = pool["FEE"] + fee
      /\ \A j \in PoolId \ {"FEE"} : pool'[j] = pool[j]
      /\ "FEE" \in PoolId
  BY DEF MessageSend, StateTypeOK, PoolId
<1>2. InPools' = InPools + fee
  <2>1. InPools' = InPools - pool["FEE"] + pool'["FEE"]
    BY <1>1, PoolMoves
  <2>. QED BY <1>1, <2>1, TotalsAreAmounts
<1>3. InAccounts' <= InAccounts - fee
  <2>1. CASE from = to
    <3>1. /\ account'[from] = account[from] - amount - fee
          /\ \A q \in Player \ {from} : account'[q] = account[q]
      BY <1>1, <2>1 DEF AfterSend
    <3>2. InAccounts' = InAccounts - account[from] + account'[from]
      BY <3>1, AccountMoves
    <3>. QED BY <1>1, <3>1, <3>2, TotalsAreAmounts
  <2>2. CASE from # to
    <3>. DEFINE mid == [account EXCEPT ![from] = account[from] - amount - fee]
                all == Player
    <3>1. /\ mid[from] = account[from] - amount - fee /\ mid[to] = account[to]
          /\ account'[to] = account[to] + amount
          /\ \A q \in all \ {from} : mid[q] = account[q]
          /\ \A q \in all \ {to} : account'[q] = mid[q]
          /\ \A q \in all : account[q] \in Int
          /\ \A q \in all : mid[q] \in Int
      BY <1>1, <2>2 DEF AfterSend
    <3>2. \A q \in all : account'[q] \in Int
      BY DEF StateTypeOK
    <3>3. IsFiniteSet(all) /\ from \in all /\ to \in all
      BY StateAssumption
    <3>. HIDE DEF mid, all
    <3>4. SumOver(mid, all) = SumOver(account, all) - account[from] + mid[from]
      BY <3>1, <3>3, SumUpdate
    <3>5. SumOver(account', all) = SumOver(mid, all) - mid[to] + account'[to]
      BY <3>1, <3>2, <3>3, SumUpdate
    <3>6. InAccounts' = InAccounts - fee
      BY <1>1, <3>1, <3>4, <3>5, TotalsAreAmounts DEF InAccounts, all
    <3>. QED BY <3>6, TotalsAreAmounts
  <2>. QED BY <2>1, <2>2
<1>4. InAccounts' \in Int
  <2>1. (\A q \in Player : account'[q] \in Nat) /\ IsFiniteSet(Player)
    BY StateAssumption DEF StateTypeOK
  <2>2. SumOver(account', Player) \in Nat
    BY <2>1, SumNat
  <2>. QED BY <2>2 DEF InAccounts
<1>5. InAccounts' + InPools' <= InAccounts + InPools
  BY <1>2, <1>3, <1>4, TotalsAreAmounts
<1>. QED BY <1>5 DEF TotalTokens, InAccounts, InPools

LEMMA AdminTotals ==
  ASSUME StateTypeOK, StateTypeOK', AdminNext
  PROVE  TotalTokens' <= TotalTokens
<1>1. ASSUME NEW from \in Player, NEW to \in Player, NEW amount \in Amount, NEW fee \in SendFee,
             MessageSend(from, to, amount, fee)
      PROVE  TotalTokens' <= TotalTokens
  BY <1>1, SendTotals, AdminAssumption
<1>2. ASSUME NEW i \in PoolId, NEW j \in PoolId, NEW amount \in Amount, PoolTransfer(i, j, amount)
      PROVE  TotalTokens' <= TotalTokens
  <2>. DEFINE mid == [pool EXCEPT ![i] = pool[i] - amount]
              all == PoolId
  <2>1. /\ i # j /\ amount \in Nat /\ pool[i] \in Nat /\ pool[j] \in Nat /\ account' = account
        /\ mid[i] = pool[i] - amount /\ mid[j] = pool[j] /\ pool'[j] = pool[j] + amount
        /\ \A k \in all \ {i} : mid[k] = pool[k]
        /\ \A k \in all \ {j} : pool'[k] = mid[k]
        /\ \A k \in all : pool[k] \in Int
        /\ \A k \in all : mid[k] \in Int
    BY <1>2, AdminAssumption DEF PoolTransfer, StateTypeOK
  <2>2. \A k \in all : pool'[k] \in Int
    BY DEF StateTypeOK
  <2>3. IsFiniteSet(all) /\ i \in all /\ j \in all
    BY PoolsFinite
  <2>. HIDE DEF mid, all
  <2>4. SumOver(mid, all) = SumOver(pool, all) - pool[i] + mid[i]
    BY <2>1, <2>3, SumUpdate
  <2>5. SumOver(pool', all) = SumOver(mid, all) - mid[j] + pool'[j]
    BY <2>1, <2>2, <2>3, SumUpdate
  <2>6. InPools' = InPools
    BY <2>1, <2>4, <2>5, TotalsAreAmounts DEF InPools, all
  <2>7. InAccounts' = InAccounts
    BY <2>1 DEF InAccounts
  <2>8. InAccounts' + InPools' <= InAccounts + InPools
    BY <2>6, <2>7, TotalsAreAmounts
  <2>. QED BY <2>8 DEF TotalTokens, InAccounts, InPools
<1>3. ASSUME NEW p \in Player, NEW amount \in Amount, PoolDeposit(p, amount)
      PROVE  TotalTokens' <= TotalTokens
  <2>1. /\ amount \in Nat /\ account[p] \in Nat /\ account'[p] = account[p] - amount
        /\ \A q \in Player \ {p} : account'[q] = account[q]
        /\ pool["RESERVE"] \in Nat /\ pool'["RESERVE"] = pool["RESERVE"] + amount
        /\ \A j \in PoolId \ {"RESERVE"} : pool'[j] = pool[j]
        /\ "RESERVE" \in PoolId
    BY <1>3, AdminAssumption DEF PoolDeposit, StateTypeOK, PoolId
  <2>2. /\ InAccounts' = InAccounts - account[p] + account'[p]
        /\ InPools' = InPools - pool["RESERVE"] + pool'["RESERVE"]
    BY <2>1, AccountMoves, PoolMoves
  <2>3. InAccounts' + InPools' <= InAccounts + InPools
    BY <2>1, <2>2, TotalsAreAmounts
  <2>. QED BY <2>3 DEF TotalTokens, InAccounts, InPools
<1>4. ASSUME NEW i \in PoolId, NEW p \in Player, NEW amount \in Amount, PoolWithdrawal(i, p, amount)
      PROVE  TotalTokens' <= TotalTokens
  BY <1>4, PayTotals, AdminAssumption DEF PoolWithdrawal
<1>. QED BY <1>1, <1>2, <1>3, <1>4 DEF AdminNext

LEMMA TokensStep ==
  ASSUME TypeInv, TypeInv', [ArcadeNext]_arcadeVars
  PROVE  TotalTokens' <= TotalTokens
<1>0. StateTypeOK /\ StateTypeOK'
  BY DEF TypeInv
<1>1. ASSUME NEW p \in Player, NEW g \in GameId, NEW d \in Date, NEW fee \in DailyFee,
             StartDailyGame(p, g, d, fee)
      PROVE  TotalTokens' <= TotalTokens
  BY <1>0, <1>1, ChargeTotals, SplitTypes, SplitCovered, DailyAssumption DEF StartDailyGame
<1>2. ASSUME NEW p \in Player, NEW g \in GameId, NEW now \in Time, StartWeeklyGame(p, g, now)
      PROVE  TotalTokens' <= TotalTokens
  BY <1>0, <1>2, ChargeTotals, SplitTypes, SplitCovered, WeeklyAssumption DEF StartWeeklyGame
<1>3. ASSUME NEW p \in Player, NEW g \in GameId, NEW fee \in ClassicFee, StartClassicGame(p, g, fee)
      PROVE  TotalTokens' <= TotalTokens
  BY <1>0, <1>3, ChargeTotals, SplitTypes, SplitCovered, SeasonAssumption DEF StartClassicGame
<1>4. ASSUME NEW p \in Player, NEW d \in Date, NEW now \in Time, ClaimDailyReward(p, d, now)
      PROVE  TotalTokens' <= TotalTokens
  <2>1. PICK a \in Allocation, i \in PoolId : PayFrom(i, p, a.amount)
    BY <1>4 DEF ClaimDailyReward, PoolId
  <2>2. a.amount \in Nat
    BY DEF Allocation
  <2>. QED BY <1>0, <2>1, <2>2, PayTotals
<1>5. ASSUME NEW p \in Player, NEW w \in Week, NEW now \in Time, ClaimWeeklyReward(p, w, now)
      PROVE  TotalTokens' <= TotalTokens
  <2>1. PICK amount \in Nat : PayFrom("WEEKLY", p, amount)
    BY <1>5, WeeklyClaimPays
  <2>. QED BY <1>0, <2>1, PayTotals DEF PoolId
<1>6. ASSUME NEW p \in Player, NEW m \in Month, NEW now \in Time, ClaimMonthlyReward(p, m, now)
      PROVE  TotalTokens' <= TotalTokens
  <2>1. PICK amount \in Nat : PayFrom("MONTHLY", p, amount)
    BY <1>6, MonthlyClaimPays
  <2>. QED BY <1>0, <2>1, PayTotals DEF PoolId
<1>7. ASSUME NEW p \in Player, NEW burn \in Burn, NEW now \in Time,
             RedeemClassicPoints(p, burn, now)
      PROVE  TotalTokens' <= TotalTokens
  <2>1. PICK i \in PoolId : PayFrom(i, p, RedeemPayout(burn))
    BY <1>7 DEF RedeemClassicPoints, PoolId
  <2>2. RedeemPayout(burn) \in Nat
    BY PointsAssumption, RedeemNat
  <2>. QED BY <1>0, <2>1, <2>2, PayTotals
<1>8. AdminNext => TotalTokens' <= TotalTokens
  BY <1>0, AdminTotals
<1>9. ASSUME UNCHANGED <<account, pool>>
      PROVE  TotalTokens' <= TotalTokens
  <2>1. InAccounts' = InAccounts /\ InPools' = InPools
    BY <1>9 DEF InAccounts, InPools
  <2>2. InAccounts' + InPools' <= InAccounts + InPools
    BY <1>0, <2>1, TotalsAreAmounts
  <2>. QED BY <2>2 DEF TotalTokens, InAccounts, InPools
<1>10. UNCHANGED <<account, pool, treasury, prize, weekMeta, weekClaim, monthClaim>> => UNCHANGED <<account, pool>>
  OBVIOUS
<1>. QED BY <1>1, <1>2, <1>3, <1>4, <1>5, <1>6, <1>7, <1>8, <1>9, <1>10, MoneySteps, Zenon DEF GameMoves

\* No message creates tokens, whoever sends it: not the rounding of splits and
\* rewards, not a transfer to oneself, not a claim that two pools can pay.
THEOREM TokensAreNeverCreated == ArcadeSpec => TokensNeverCreated
<1>1. ArcadeInit => TypeInv
  BY TypesAtFirst
<1>2. TypeInv /\ [ArcadeNext]_arcadeVars => TypeInv'
  BY TypesStep
<1>3. TypeInv /\ TypeInv' /\ [ArcadeNext]_arcadeVars => [TotalTokens' <= TotalTokens]_arcadeVars
  BY TokensStep
<1>. QED BY <1>1, <1>2, <1>3, PTL DEF ArcadeSpec, TokensNeverCreated

-----------------------------------------------------------------------------
(***************************************************************************)
(* The books that the game messages keep.                                  *)
(***************************************************************************)

\* What the contests say they still hold or have paid.
DailyPots == [d \in Date |-> prize[d].rewardPool]
WeeklyPots == [w \in Week |-> weekMeta[w].prizePool]
WeeklyPaid == [w \in Week |-> PaidForWeek(w)]
PaidIn(w) == [p \in Player |-> IF weekClaim[w][p] = NULL THEN 0 ELSE weekClaim[w][p].amount]

Booked == /\ \A i \in MirroredPool : Drift(i)' = Drift(i)
          /\ DailyGap' = DailyGap /\ WeeklyGap' = WeeklyGap

LEMMA WeeksFinite == IsFiniteSet(Week)
<1>. DEFINE f == [t \in Time |-> WeekOf(t)]
<1>1. IsFiniteSet({f[t] : t \in Time})
  BY StateAssumption, ValuesFinite
<1>2. Week = {f[t] : t \in Time}
  BY DEF Week
<1>. QED BY <1>1, <1>2

LEMMA PotsTypes ==
  ASSUME TypeInv
  PROVE  /\ \A d \in Date : DailyPots[d] \in Int
         /\ \A w \in Week : WeeklyPots[w] \in Int
         /\ \A w \in Week : WeeklyPaid[w] \in Int
         /\ \A w \in Week, p \in Player : PaidIn(w)[p] \in Int
<1>1. \A d \in Date : DailyPots[d] \in Int
  BY DEF DailyPots, TypeInv, DailyTypes, DailyRecordsOK
<1>2. \A w \in Week : WeeklyPots[w] \in Int
  BY DEF WeeklyPots, TypeInv, WeeklyTypes, WeeklyRecordsOK
<1>3. \A w \in Week, p \in Player : PaidIn(w)[p] \in Int
  BY DEF PaidIn, TypeInv, WeeklyTypes, WeeklyRecordsOK
<1>4. ASSUME NEW w \in Week
      PROVE  WeeklyPaid[w] \in Int
  <2>1. IsFiniteSet(Player) /\ \A p \in Player : PaidIn(w)[p] \in Int
    BY <1>3, StateAssumption
  <2>2. SumOver(PaidIn(w), Player) \in Int
    BY <2>1, SumInt
  <2>. QED BY <2>2 DEF WeeklyPaid, PaidForWeek, PaidIn
<1>. QED BY <1>1, <1>2, <1>3, <1>4

\* The same of the next state.
LEMMA PotsTypesAfter ==
  ASSUME TypeInv'
  PROVE  /\ \A d \in Date : DailyPots'[d] \in Int
         /\ \A w \in Week : WeeklyPots'[w] \in Int
         /\ \A w \in Week : WeeklyPaid'[w] \in Int
         /\ \A w \in Week, p \in Player : PaidIn(w)'[p] \in Int
<1>1. \A d \in Date : DailyPots'[d] \in Int
  BY DEF DailyPots, TypeInv, DailyTypes, DailyRecordsOK
<1>2. \A w \in Week : WeeklyPots'[w] \in Int
  BY DEF WeeklyPots, TypeInv, WeeklyTypes, WeeklyRecordsOK
<1>3. \A w \in Week, p \in Player : PaidIn(w)'[p] \in Int
  BY DEF PaidIn, TypeInv, WeeklyTypes, WeeklyRecordsOK
<1>4. ASSUME NEW w \in Week
      PROVE  WeeklyPaid'[w] \in Int
  <2>1. IsFiniteSet(Player) /\ \A p \in Player : PaidIn(w)'[p] \in Int
    BY <1>3, StateAssumption
  <2>2. SumOver(PaidIn(w)', Player) \in Int
    BY <2>1, SumInt
  <2>. QED BY <2>2 DEF WeeklyPaid, PaidForWeek, PaidIn
<1>. QED BY <1>1, <1>2, <1>3, <1>4

LEMMA DailyPotMoves ==
  ASSUME TypeInv, TypeInv', NEW d \in Date,
         \A c \in Date \ {d} : prize'[c].rewardPool = prize[c].rewardPool
  PROVE  DailyGap' - DailyGap = (pool'["DAILY"] - pool["DAILY"])
                                  - (prize'[d].rewardPool - prize[d].rewardPool)
<1>1. \A c \in Date \ {d} : DailyPots'[c] = DailyPots[c]
  BY DEF DailyPots
<1>2. DailyPots'[d] = prize'[d].rewardPool /\ DailyPots[d] = prize[d].rewardPool
  BY DEF DailyPots
<1>3. /\ \A c \in Date : DailyPots[c] \in Int
      /\ \A c \in Date : DailyPots'[c] \in Int
      /\ IsFiniteSet(Date)
  BY PotsTypes, PotsTypesAfter, DailyAssumption
<1>4. SumOver(DailyPots', Date) = SumOver(DailyPots, Date) - DailyPots[d] + DailyPots'[d]
  BY <1>1, <1>3, SumUpdate
<1>5. SumOver(DailyPots, Date) \in Int
  BY <1>3, SumInt
<1>6. pool["DAILY"] \in Int /\ pool'["DAILY"] \in Int
  BY DEF TypeInv, StateTypeOK, PoolId
<1>7. DailyGap = pool["DAILY"] - SumOver(DailyPots, Date)
      /\ DailyGap' = pool'["DAILY"] - SumOver(DailyPots', Date)
  BY DEF DailyGap, DailyPots
<1>8. DailyPots[d] \in Int /\ DailyPots'[d] \in Int
  BY <1>3
<1>. QED BY <1>2, <1>4, <1>5, <1>6, <1>7, <1>8

LEMMA GapTypes ==
  ASSUME TypeInv
  PROVE  /\ DailyGap \in Int /\ WeeklyGap \in Int
         /\ SumOver(WeeklyPots, Week) \in Int /\ SumOver(WeeklyPaid, Week) \in Int
<1>1. IsFiniteSet(Date) /\ IsFiniteSet(Week)
  BY DailyAssumption, WeeksFinite
<1>2. SumOver(DailyPots, Date) \in Int
  BY <1>1, PotsTypes, SumInt
<1>3. SumOver(WeeklyPots, Week) \in Int /\ SumOver(WeeklyPaid, Week) \in Int
  BY <1>1, PotsTypes, SumInt
<1>4. pool["DAILY"] \in Int /\ pool["WEEKLY"] \in Int
  BY DEF TypeInv, StateTypeOK, PoolId
<1>5. DailyGap = pool["DAILY"] - SumOver(DailyPots, Date)
  BY DEF DailyGap, DailyPots
<1>6. WeeklyGap = pool["WEEKLY"] + SumOver(WeeklyPaid, Week) - SumOver(WeeklyPots, Week)
  BY DEF WeeklyGap, WeeklyPots, WeeklyPaid
<1>. QED BY <1>2, <1>3, <1>4, <1>5, <1>6

LEMMA WeeklyGapIs ==
  WeeklyGap = pool["WEEKLY"] + SumOver(WeeklyPaid, Week) - SumOver(WeeklyPots, Week)
BY DEF WeeklyGap, WeeklyPots, WeeklyPaid

\* The same of the next state.
LEMMA GapTypesAfter ==
  ASSUME TypeInv'
  PROVE  /\ DailyGap' \in Int /\ WeeklyGap' \in Int
         /\ SumOver(WeeklyPots', Week) \in Int /\ SumOver(WeeklyPaid', Week) \in Int
<1>1. IsFiniteSet(Date) /\ IsFiniteSet(Week)
  BY DailyAssumption, WeeksFinite
<1>2. SumOver(DailyPots', Date) \in Int
  BY <1>1, PotsTypesAfter, SumInt
<1>3. SumOver(WeeklyPots', Week) \in Int /\ SumOver(WeeklyPaid', Week) \in Int
  BY <1>1, PotsTypesAfter, SumInt
<1>4. pool'["DAILY"] \in Int /\ pool'["WEEKLY"] \in Int
  BY DEF TypeInv, StateTypeOK, PoolId
<1>5. DailyGap' = pool'["DAILY"] - SumOver(DailyPots', Date)
  BY DEF DailyGap, DailyPots
<1>6. WeeklyGap' = pool'["WEEKLY"] + SumOver(WeeklyPaid', Week) - SumOver(WeeklyPots', Week)
  BY DEF WeeklyGap, WeeklyPots, WeeklyPaid
<1>. QED BY <1>2, <1>3, <1>4, <1>5, <1>6

LEMMA WeeklyGapIsAfter ==
  WeeklyGap' = pool'["WEEKLY"] + SumOver(WeeklyPaid', Week) - SumOver(WeeklyPots', Week)
BY DEF WeeklyGap, WeeklyPots, WeeklyPaid

LEMMA WeeklyPotMoves ==
  ASSUME TypeInv, TypeInv', NEW w \in Week,
         \A v \in Week \ {w} : weekMeta'[v].prizePool = weekMeta[v].prizePool
  PROVE  SumOver(WeeklyPots', Week) =
           SumOver(WeeklyPots, Week) - weekMeta[w].prizePool + weekMeta'[w].prizePool
<1>1. \A v \in Week \ {w} : WeeklyPots'[v] = WeeklyPots[v]
  BY DEF WeeklyPots
<1>2. WeeklyPots'[w] = weekMeta'[w].prizePool /\ WeeklyPots[w] = weekMeta[w].prizePool
  BY DEF WeeklyPots
<1>3. /\ \A v \in Week : WeeklyPots[v] \in Int
      /\ \A v \in Week : WeeklyPots'[v] \in Int
      /\ IsFiniteSet(Week)
  BY PotsTypes, PotsTypesAfter, WeeksFinite
<1>4. SumOver(WeeklyPots', Week) = SumOver(WeeklyPots, Week) - WeeklyPots[w] + WeeklyPots'[w]
  BY <1>1, <1>3, SumUpdate
<1>. QED BY <1>2, <1>4

LEMMA WeeklyPaidMoves ==
  ASSUME TypeInv, TypeInv', NEW w \in Week, NEW p \in Player, NEW rank \in Nat, NEW amount \in Nat,
         weekClaim[w][p] = NULL,
         weekClaim' = [weekClaim EXCEPT ![w][p] = [rank |-> rank, amount |-> amount]]
  PROVE  SumOver(WeeklyPaid', Week) = SumOver(WeeklyPaid, Week) + amount
<1>. DEFINE r == [rank |-> rank, amount |-> amount]
<1>1. r # NULL /\ r.amount = amount
  BY WeeklyAssumption
<1>. HIDE DEF r
<1>2. \A v \in Week, q \in Player :
        weekClaim'[v][q] = IF v = w /\ q = p THEN r ELSE weekClaim[v][q]
  BY DEF r, TypeInv, WeeklyTypes, WeeklyRecordsOK
<1>3. /\ PaidIn(w)[p] = 0 /\ PaidIn(w)'[p] = amount
      /\ \A q \in Player \ {p} : PaidIn(w)'[q] = PaidIn(w)[q]
      /\ \A v \in Week \ {w} : \A q \in Player : PaidIn(v)'[q] = PaidIn(v)[q]
  BY <1>1, <1>2 DEF PaidIn
<1>4. /\ \A v \in Week, q \in Player : PaidIn(v)[q] \in Int
      /\ \A v \in Week, q \in Player : PaidIn(v)'[q] \in Int
      /\ IsFiniteSet(Player) /\ IsFiniteSet(Week)
  BY PotsTypes, PotsTypesAfter, StateAssumption, WeeksFinite
<1>5. \A v \in Week : /\ WeeklyPaid[v] = SumOver(PaidIn(v), Player)
                      /\ WeeklyPaid'[v] = SumOver(PaidIn(v)', Player)
  BY DEF WeeklyPaid, PaidForWeek, PaidIn
<1>6. WeeklyPaid'[w] = WeeklyPaid[w] + amount
  <2>. DEFINE f == PaidIn(w)
              h == PaidIn(w)'
  <2>1. /\ \A q \in Player : f[q] \in Int
        /\ \A q \in Player : h[q] \in Int
        /\ \A q \in Player \ {p} : h[q] = f[q]
        /\ f[p] = 0 /\ h[p] = amount
    BY <1>3, <1>4
  <2>2. WeeklyPaid[w] = SumOver(f, Player) /\ WeeklyPaid'[w] = SumOver(h, Player)
    BY <1>5
  <2>. HIDE DEF f, h
  <2>3. IsFiniteSet(Player)
    BY StateAssumption
  <2>4. SumOver(h, Player) = SumOver(f, Player) - f[p] + h[p]
    BY <2>1, <2>3, SumUpdate
  <2>5. SumOver(f, Player) \in Int
    BY <2>1, <2>3, SumInt
  <2>. QED BY <2>1, <2>2, <2>4, <2>5
<1>7. \A v \in Week \ {w} : WeeklyPaid'[v] = WeeklyPaid[v]
  <2>. SUFFICES ASSUME NEW v \in Week \ {w} PROVE WeeklyPaid'[v] = WeeklyPaid[v]
    OBVIOUS
  <2>. DEFINE f == PaidIn(v)
              h == PaidIn(v)'
  <2>1. \A q \in Player : f[q] \in Int /\ h[q] = f[q]
    BY <1>3, <1>4
  <2>2. WeeklyPaid[v] = SumOver(f, Player) /\ WeeklyPaid'[v] = SumOver(h, Player)
    BY <1>5
  <2>. HIDE DEF f, h
  <2>3. SumOver(h, Player) = SumOver(f, Player)
    BY <1>4, <2>1, SumSame
  <2>. QED BY <2>2, <2>3
<1>8. (\A v \in Week : WeeklyPaid[v] \in Int) /\ (\A v \in Week : WeeklyPaid'[v] \in Int)
  BY PotsTypes, PotsTypesAfter
<1>9. SumOver(WeeklyPaid', Week) = SumOver(WeeklyPaid, Week) - WeeklyPaid[w] + WeeklyPaid'[w]
  BY <1>4, <1>7, <1>8, SumUpdate
<1>10. WeeklyPaid[w] \in Int /\ SumOver(WeeklyPaid, Week) \in Int
  BY <1>8, GapTypes
<1>. QED BY <1>6, <1>9, <1>10

\* The books that a step does not touch.
LEMMA DailyGapKept ==
  ASSUME UNCHANGED prize, pool'["DAILY"] = pool["DAILY"]
  PROVE  DailyGap' = DailyGap
BY DEF DailyGap

LEMMA WeeklyGapKept ==
  ASSUME UNCHANGED <<weekMeta, weekClaim>>, pool'["WEEKLY"] = pool["WEEKLY"]
  PROVE  WeeklyGap' = WeeklyGap
BY DEF WeeklyGap, PaidForWeek

LEMMA ChargeBooks ==
  ASSUME TypeInv, NEW p \in Player, NEW fee \in Nat, NEW split \in [PoolId -> Nat],
         ChargeEntry(p, fee, split)
  PROVE  /\ \A i \in MirroredPool : Drift(i)' = Drift(i)
         /\ pool'["DAILY"] = pool["DAILY"] + split["DAILY"]
         /\ pool'["WEEKLY"] = pool["WEEKLY"] + split["WEEKLY"]
<1>1. /\ \A i \in PoolId : pool'[i] = pool[i] + split[i]
      /\ \A i \in MirroredPool : treasury'[i] = treasury[i] + split[i]
  BY DEF ChargeEntry
<1>2. \A i \in PoolId : pool[i] \in Int /\ split[i] \in Int
  BY DEF TypeInv, StateTypeOK
<1>3. \A i \in MirroredPool : i \in PoolId /\ treasury[i] \in Int
  BY DEF TypeInv, StateTypeOK, MirroredPool, PoolId
<1>4. \A i \in MirroredPool : treasury'[i] - pool'[i] = treasury[i] - pool[i]
  BY <1>1, <1>2, <1>3
<1>. QED BY <1>1, <1>4 DEF Drift, PoolId

LEMMA StartDailyBooks ==
  ASSUME TypeInv, TypeInv', NEW p \in Player, NEW g \in GameId, NEW d \in Date,
         NEW fee \in DailyFee, StartDailyGame(p, g, d, fee), UNCHANGED weeklyVars
  PROVE  Booked
<1>. DEFINE split == SplitFee(DailyBps, fee)
<1>1. fee \in Nat /\ split \in [PoolId -> Nat] /\ ChargeEntry(p, fee, split)
  BY DailyAssumption, SplitTypes DEF StartDailyGame
<1>2. split["WEEKLY"] = 0
  BY DEF SplitFee, DailyBps, PoolId
<1>3. prize' = [prize EXCEPT ![d] = AddDailyPoolEntry(@, fee, split)]
  BY DEF StartDailyGame
<1>. HIDE DEF split
<1>4. /\ \A i \in MirroredPool : Drift(i)' = Drift(i)
      /\ pool'["DAILY"] = pool["DAILY"] + split["DAILY"]
      /\ pool'["WEEKLY"] = pool["WEEKLY"] + split["WEEKLY"]
  BY <1>1, ChargeBooks
<1>5. pool["WEEKLY"] \in Int /\ pool["DAILY"] \in Int /\ split["DAILY"] \in Int
  BY <1>1 DEF TypeInv, StateTypeOK, PoolId
<1>6. /\ prize'[d].rewardPool = prize[d].rewardPool + split["DAILY"]
      /\ \A c \in Date \ {d} : prize'[c].rewardPool = prize[c].rewardPool
      /\ prize[d].rewardPool \in Int
  BY <1>3 DEF AddDailyPoolEntry, TypeInv, DailyTypes, DailyRecordsOK
<1>7. DailyGap' - DailyGap = (pool'["DAILY"] - pool["DAILY"])
                               - (prize'[d].rewardPool - prize[d].rewardPool)
  BY <1>6, DailyPotMoves
<1>8. DailyGap \in Int /\ DailyGap' \in Int
  BY GapTypes, GapTypesAfter
<1>9. DailyGap' = DailyGap
  BY <1>4, <1>5, <1>6, <1>7, <1>8
<1>10. WeeklyGap' = WeeklyGap
  BY <1>2, <1>4, <1>5, WeeklyGapKept DEF weeklyVars
<1>. QED BY <1>4, <1>9, <1>10 DEF Booked

LEMMA StartWeeklyBooks ==
  ASSUME TypeInv, TypeInv', NEW p \in Player, NEW g \in GameId, NEW now \in Time,
         StartWeeklyGame(p, g, now), UNCHANGED dailyVars
  PROVE  Booked
<1>. DEFINE split == SplitFee(WeeklyBps, WeeklyFee)
            w == WeekOf(now)
<1>0. w \in Week
  BY DEF Week
<1>1. /\ WeeklyFee \in Nat /\ split \in [PoolId -> Nat] /\ ChargeEntry(p, WeeklyFee, split)
  BY WeeklyAssumption, SplitTypes DEF StartWeeklyGame
<1>2. split["DAILY"] = 0
  BY DEF SplitFee, WeeklyBps, PoolId
<1>3. /\ weekMeta' = [weekMeta EXCEPT ![w] = [entryCount |-> @.entryCount + 1,
                                              grossFees |-> @.grossFees + WeeklyFee,
                                              prizePool |-> @.prizePool + split["WEEKLY"]]]
      /\ UNCHANGED weekClaim
  BY DEF StartWeeklyGame
<1>. HIDE DEF split, w
<1>4. /\ \A i \in MirroredPool : Drift(i)' = Drift(i)
      /\ pool'["DAILY"] = pool["DAILY"] + split["DAILY"]
      /\ pool'["WEEKLY"] = pool["WEEKLY"] + split["WEEKLY"]
  BY <1>1, ChargeBooks
<1>5. pool["WEEKLY"] \in Int /\ pool["DAILY"] \in Int /\ split["WEEKLY"] \in Int
  BY <1>1 DEF TypeInv, StateTypeOK, PoolId
<1>6. /\ weekMeta'[w].prizePool = weekMeta[w].prizePool + split["WEEKLY"]
      /\ \A v \in Week \ {w} : weekMeta'[v].prizePool = weekMeta[v].prizePool
      /\ weekMeta[w].prizePool \in Int
  BY <1>0, <1>3 DEF TypeInv, WeeklyTypes, WeeklyRecordsOK
<1>7. SumOver(WeeklyPots', Week) =
        SumOver(WeeklyPots, Week) - weekMeta[w].prizePool + weekMeta'[w].prizePool
  BY <1>0, <1>6, WeeklyPotMoves
<1>8. SumOver(WeeklyPaid', Week) = SumOver(WeeklyPaid, Week)
  BY <1>3 DEF WeeklyPaid, PaidForWeek
<1>9. WeeklyGap' = WeeklyGap
  BY <1>4, <1>5, <1>6, <1>7, <1>8, GapTypes, WeeklyGapIs, WeeklyGapIsAfter
<1>10. DailyGap' = DailyGap
  BY <1>2, <1>4, <1>5, DailyGapKept DEF dailyVars
<1>. QED BY <1>4, <1>9, <1>10 DEF Booked

LEMMA StartClassicBooks ==
  ASSUME TypeInv, NEW p \in Player, NEW g \in GameId, NEW fee \in ClassicFee,
         StartClassicGame(p, g, fee), UNCHANGED <<dailyVars, weeklyVars>>
  PROVE  Booked
<1>. DEFINE split == SplitFee(ClassicBps, fee)
<1>1. fee \in Nat /\ split \in [PoolId -> Nat] /\ ChargeEntry(p, fee, split)
  BY SeasonAssumption, SplitTypes DEF StartClassicGame
<1>2. split["WEEKLY"] = 0 /\ split["DAILY"] = 0
  BY DEF SplitFee, ClassicBps, PoolId
<1>. HIDE DEF split
<1>3. /\ \A i \in MirroredPool : Drift(i)' = Drift(i)
      /\ pool'["DAILY"] = pool["DAILY"] + split["DAILY"]
      /\ pool'["WEEKLY"] = pool["WEEKLY"] + split["WEEKLY"]
  BY <1>1, ChargeBooks
<1>4. pool["WEEKLY"] \in Int /\ pool["DAILY"] \in Int
  BY DEF TypeInv, StateTypeOK, PoolId
<1>5. pool'["WEEKLY"] = pool["WEEKLY"] /\ pool'["DAILY"] = pool["DAILY"]
  BY <1>2, <1>3, <1>4
<1>6. UNCHANGED <<prize, weekMeta, weekClaim>>
  BY DEF dailyVars, weeklyVars
<1>. QED BY <1>3, <1>5, <1>6, DailyGapKept, WeeklyGapKept DEF Booked

\* What a payout changes of the books: the pool it is paid from.
LEMMA PayBooks ==
  ASSUME TypeInv, NEW i \in PoolId, NEW p \in Player, NEW amount \in Nat,
         PayFrom(i, p, amount), UNCHANGED treasury
  PROVE  /\ \A j \in PoolId \ {i} : pool'[j] = pool[j]
         /\ pool'[i] = pool[i] - amount /\ pool[i] \in Int
         /\ \A j \in MirroredPool : j # i => Drift(j)' = Drift(j)
<1>1. /\ \A j \in PoolId \ {i} : pool'[j] = pool[j]
      /\ pool'[i] = pool[i] - amount /\ pool[i] \in Int
  BY DEF PayFrom, TypeInv, StateTypeOK
<1>2. MirroredPool \subseteq PoolId
  BY DEF MirroredPool, PoolId
<1>. QED BY <1>1, <1>2 DEF Drift

LEMMA ClaimDailyBooks ==
  ASSUME TypeInv, TypeInv', NEW p \in Player, NEW d \in Date, NEW now \in Time,
         ClaimDailyReward(p, d, now), UNCHANGED weeklyVars, pool'["DAO"] = pool["DAO"]
  PROVE  Booked
<1>1. PICK a \in Allocation, total \in {Distributed(Summary(board[d], prize[d].rewardPool))} :
        /\ PayFrom(IF pool["DAILY"] >= a.amount THEN "DAILY" ELSE "DAO", p, a.amount)
        /\ prize' = [prize EXCEPT ![d] = PaidOut(@, a.amount, total)]
        /\ UNCHANGED treasury
  BY DEF ClaimDailyReward
<1>2. a.amount \in Nat
  BY DEF Allocation
<1>3. /\ prize'[d].rewardPool = prize[d].rewardPool - a.amount
      /\ \A c \in Date \ {d} : prize'[c].rewardPool = prize[c].rewardPool
      /\ prize[d].rewardPool \in Int
  BY <1>1 DEF PaidOut, TypeInv, DailyTypes, DailyRecordsOK
<1>4. pool["DAILY"] \in Nat /\ pool["DAO"] \in Int /\ "DAILY" \in PoolId /\ "DAO" \in PoolId
  BY DEF TypeInv, StateTypeOK, PoolId
<1>5. PayFrom("DAILY", p, a.amount)
  <2>1. CASE pool["DAILY"] >= a.amount
    BY <1>1, <2>1
  <2>2. CASE ~(pool["DAILY"] >= a.amount)
    <3>1. PayFrom("DAO", p, a.amount)
      BY <1>1, <2>2
    <3>2. pool'["DAO"] = pool["DAO"] - a.amount
      BY <1>1, <1>2, <1>4, <3>1, PayBooks
    <3>3. a.amount = 0
      BY <1>2, <1>4, <3>2
    <3>. QED BY <1>4, <2>2, <3>3
  <2>. QED BY <2>1, <2>2
<1>6. /\ \A j \in PoolId \ {"DAILY"} : pool'[j] = pool[j]
      /\ pool'["DAILY"] = pool["DAILY"] - a.amount
      /\ \A j \in MirroredPool : j # "DAILY" => Drift(j)' = Drift(j)
  BY <1>1, <1>2, <1>4, <1>5, PayBooks
<1>7. DailyGap' - DailyGap = (pool'["DAILY"] - pool["DAILY"])
                               - (prize'[d].rewardPool - prize[d].rewardPool)
  BY <1>3, DailyPotMoves
<1>8. DailyGap \in Int /\ DailyGap' \in Int
  BY GapTypes, GapTypesAfter
<1>9. DailyGap' = DailyGap
  BY <1>2, <1>3, <1>4, <1>6, <1>7, <1>8
<1>10. WeeklyGap' = WeeklyGap
  BY <1>6, WeeklyGapKept DEF weeklyVars, PoolId
<1>11. \A i \in MirroredPool : Drift(i)' = Drift(i)
  BY <1>6 DEF MirroredPool
<1>. QED BY <1>9, <1>10, <1>11 DEF Booked

LEMMA ClaimWeeklyBooks ==
  ASSUME TypeInv, TypeInv', NEW p \in Player, NEW w \in Week, NEW now \in Time,
         ClaimWeeklyReward(p, w, now), UNCHANGED dailyVars
  PROVE  Booked
<1>1. PICK rank \in Nat, amount \in Nat :
        /\ weekClaim[w][p] = NULL
        /\ PayFrom("WEEKLY", p, amount)
        /\ weekClaim' = [weekClaim EXCEPT ![w][p] = [rank |-> rank, amount |-> amount]]
        /\ UNCHANGED <<treasury, weekMeta>>
  BY WeeklyClaimPays
<1>2. SumOver(WeeklyPaid', Week) = SumOver(WeeklyPaid, Week) + amount
  BY <1>1, WeeklyPaidMoves
<1>3. SumOver(WeeklyPots', Week) = SumOver(WeeklyPots, Week)
  BY <1>1 DEF WeeklyPots
<1>4. /\ \A j \in PoolId \ {"WEEKLY"} : pool'[j] = pool[j]
      /\ pool'["WEEKLY"] = pool["WEEKLY"] - amount /\ pool["WEEKLY"] \in Int
      /\ \A j \in MirroredPool : j # "WEEKLY" => Drift(j)' = Drift(j)
  BY <1>1, PayBooks DEF PoolId
<1>5. WeeklyGap' = WeeklyGap
  BY <1>2, <1>3, <1>4, GapTypes, WeeklyGapIs, WeeklyGapIsAfter
<1>6. DailyGap' = DailyGap
  BY <1>4, DailyGapKept DEF dailyVars, PoolId
<1>7. \A i \in MirroredPool : Drift(i)' = Drift(i)
  BY <1>4 DEF MirroredPool
<1>. QED BY <1>5, <1>6, <1>7 DEF Booked

LEMMA ClaimMonthlyBooks ==
  ASSUME TypeInv, NEW p \in Player, NEW m \in Month, NEW now \in Time,
         ClaimMonthlyReward(p, m, now), UNCHANGED <<dailyVars, weeklyVars>>
  PROVE  Booked
<1>1. PICK rank \in Nat, amount \in Nat : PayFrom("MONTHLY", p, amount) /\ UNCHANGED treasury
  BY MonthlyClaimPays
<1>2. /\ \A j \in PoolId \ {"MONTHLY"} : pool'[j] = pool[j]
      /\ \A j \in MirroredPool : j # "MONTHLY" => Drift(j)' = Drift(j)
  BY <1>1, PayBooks DEF PoolId
<1>3. UNCHANGED <<prize, weekMeta, weekClaim>>
  BY DEF dailyVars, weeklyVars
<1>4. DailyGap' = DailyGap /\ WeeklyGap' = WeeklyGap
  BY <1>2, <1>3, DailyGapKept, WeeklyGapKept DEF PoolId
<1>5. \A i \in MirroredPool : Drift(i)' = Drift(i)
  BY <1>2 DEF MirroredPool
<1>. QED BY <1>4, <1>5 DEF Booked

\* A redemption takes from the mirror of the shop pool what it takes from the pool.
LEMMA RedeemBooks ==
  ASSUME TypeInv, NEW p \in Player, NEW burn \in Burn, NEW now \in Time,
         RedeemClassicPoints(p, burn, now), UNCHANGED <<dailyVars, weeklyVars>>,
         pool'["DAO"] = pool["DAO"]
  PROVE  Booked
<1>. DEFINE payout == RedeemPayout(burn)
<1>1. payout \in Nat
  BY PointsAssumption, RedeemNat
<1>2. /\ PayFrom(IF pool["SHOP"] >= payout THEN "SHOP" ELSE "DAO", p, payout)
      /\ treasury' = [treasury EXCEPT !["SHOP"] = treasury["SHOP"] - payout]
  BY DEF RedeemClassicPoints, MirrorAfterRedemption
<1>. HIDE DEF payout
<1>3. pool["SHOP"] \in Nat /\ pool["DAO"] \in Int /\ "SHOP" \in PoolId /\ "DAO" \in PoolId
  BY DEF TypeInv, StateTypeOK, PoolId
<1>4. PayFrom("SHOP", p, payout)
  <2>1. CASE pool["SHOP"] >= payout
    BY <1>2, <2>1
  <2>2. CASE ~(pool["SHOP"] >= payout)
    <3>1. PayFrom("DAO", p, payout)
      BY <1>2, <2>2
    <3>2. pool'["DAO"] = pool["DAO"] - payout
      BY <1>3, <3>1 DEF PayFrom, TypeInv, StateTypeOK
    <3>3. payout = 0
      BY <1>1, <1>3, <3>2
    <3>. QED BY <1>3, <2>2, <3>3
  <2>. QED BY <2>1, <2>2
<1>5. /\ \A j \in PoolId \ {"SHOP"} : pool'[j] = pool[j]
      /\ pool'["SHOP"] = pool["SHOP"] - payout
  BY <1>3, <1>4 DEF PayFrom, TypeInv, StateTypeOK
<1>6. UNCHANGED <<prize, weekMeta, weekClaim>>
  BY DEF dailyVars, weeklyVars
<1>7. DailyGap' = DailyGap /\ WeeklyGap' = WeeklyGap
  BY <1>5, <1>6, DailyGapKept, WeeklyGapKept DEF PoolId
<1>8. ASSUME NEW i \in MirroredPool
      PROVE  Drift(i)' = Drift(i)
  <2>1. i \in PoolId /\ treasury[i] \in Int /\ pool[i] \in Int
    BY DEF MirroredPool, PoolId, TypeInv, StateTypeOK
  <2>2. CASE i = "SHOP"
    <3>1. treasury'[i] = treasury[i] - payout
      BY <1>2, <2>2 DEF TypeInv, StateTypeOK
    <3>. QED BY <1>1, <1>5, <2>1, <2>2, <3>1 DEF Drift
  <2>3. CASE i # "SHOP"
    <3>1. treasury'[i] = treasury[i]
      BY <1>2, <2>3 DEF TypeInv, StateTypeOK
    <3>. QED BY <1>5, <2>1, <2>3, <3>1 DEF Drift
  <2>. QED BY <2>2, <2>3
<1>. QED BY <1>7, <1>8 DEF Booked

LEMMA BooksStep ==
  ASSUME TypeInv, TypeInv', [ArcadeNext]_arcadeVars, UnaidedGameStep
  PROVE  Booked
<1>1. ASSUME UNCHANGED weeklyVars,
             \/ \E p \in Player, g \in GameId, d \in Date, fee \in DailyFee :
                  StartDailyGame(p, g, d, fee)
             \/ \E p \in Player, d \in Date, now \in Time : ClaimDailyReward(p, d, now)
      PROVE  Booked
  BY <1>1, StartDailyBooks, ClaimDailyBooks, Zenon DEF UnaidedGameStep
<1>2. ASSUME UNCHANGED dailyVars,
             \/ \E p \in Player, g \in GameId, now \in Time : StartWeeklyGame(p, g, now)
             \/ \E p \in Player, w \in Week, now \in Time : ClaimWeeklyReward(p, w, now)
      PROVE  Booked
  BY <1>2, StartWeeklyBooks, ClaimWeeklyBooks, Zenon
<1>3. ASSUME UNCHANGED <<dailyVars, weeklyVars>>,
             \/ \E p \in Player, g \in GameId, fee \in ClassicFee : StartClassicGame(p, g, fee)
             \/ \E p \in Player, m \in Month, now \in Time : ClaimMonthlyReward(p, m, now)
             \/ \E p \in Player, burn \in Burn, now \in Time : RedeemClassicPoints(p, burn, now)
      PROVE  Booked
  BY <1>3, StartClassicBooks, ClaimMonthlyBooks, RedeemBooks, Zenon DEF UnaidedGameStep
<1>4. ~(AdminNext /\ UNCHANGED <<dailyVars, weeklyVars, pointsVars, seasonVars>>)
  <2>. SUFFICES ASSUME AdminNext, UNCHANGED <<dailyVars, weeklyVars, pointsVars, seasonVars>>
                PROVE  FALSE
    OBVIOUS
  <2>1. UNCHANGED <<session, stats>>
    BY DEF AdminNext, MessageSend, PoolTransfer, PoolDeposit, PoolWithdrawal
  <2>. QED BY <2>1 DEF UnaidedGameStep
<1>5. UNCHANGED <<account, pool, treasury, prize, weekMeta, weekClaim, monthClaim>> => Booked
  BY DailyGapKept, WeeklyGapKept DEF Booked, Drift
<1>. QED BY <1>1, <1>2, <1>3, <1>4, <1>5, MoneySteps, Zenon DEF GameMoves

\* Whatever administrators move between the pools, a game message that the DAO
\* pool does not pay for leaves every book as far from its pool as it was.
THEOREM GamesAlwaysKeepBooks == ArcadeSpec => GamesKeepBooks
<1>1. ArcadeInit => TypeInv
  BY TypesAtFirst
<1>2. TypeInv /\ [ArcadeNext]_arcadeVars => TypeInv'
  BY TypesStep
<1>3. TypeInv /\ TypeInv' /\ [ArcadeNext]_arcadeVars
        => [UnaidedGameStep => Booked]_arcadeVars
  BY BooksStep
<1>. QED BY <1>1, <1>2, <1>3, PTL DEF ArcadeSpec, GamesKeepBooks, Booked

-----------------------------------------------------------------------------
(***************************************************************************)
(* The pools that all weeks, and all months, share are escrows: what       *)
(* players send only fills them or pays a claimant once.  An administrator *)
(* may empty them, so this is about the messages of players.               *)
(***************************************************************************)
GameSpec == ArcadeInit /\ [][GameNext]_arcadeVars

WeeklyPot == [c \in {"WEEKLY"} |-> pool["WEEKLY"]]
WeeklyReceipt ==
  [c \in {"WEEKLY"} |-> [claimant \in Week \X Player |-> weekClaim[claimant[1]][claimant[2]]]]
MonthlyPot == [c \in {"MONTHLY"} |-> pool["MONTHLY"]]
MonthlyReceipt ==
  [c \in {"MONTHLY"} |-> [claimant \in Month \X Player |-> monthClaim[claimant[1]][claimant[2]]]]

\* A step that takes nothing from the pool and records no claim fills the pot.
LEMMA WeeklyFund ==
  ASSUME pool'["WEEKLY"] >= pool["WEEKLY"], UNCHANGED weekClaim
  PROVE  WeeklyEscrow!Next
<1>1. WeeklyEscrow!Fund("WEEKLY")
  BY DEF WeeklyEscrow!Fund
<1>. QED BY <1>1 DEF WeeklyEscrow!Next

LEMMA MonthlyFund ==
  ASSUME pool'["MONTHLY"] >= pool["MONTHLY"], UNCHANGED monthClaim
  PROVE  MonthlyEscrow!Next
<1>1. MonthlyEscrow!Fund("MONTHLY")
  BY DEF MonthlyEscrow!Fund
<1>. QED BY <1>1 DEF MonthlyEscrow!Next

LEMMA WeeklyPays ==
  ASSUME TypeInv, NEW p \in Player, NEW w \in Week, NEW now \in Time,
         ClaimWeeklyReward(p, w, now)
  PROVE  WeeklyEscrow!Next
<1>1. PICK rank \in Nat, amount \in Nat :
        /\ weekClaim[w][p] = NULL
        /\ PayFrom("WEEKLY", p, amount)
        /\ weekClaim' = [weekClaim EXCEPT ![w][p] = [rank |-> rank, amount |-> amount]]
  BY WeeklyClaimPays
<1>. DEFINE r == [rank |-> rank, amount |-> amount]
            claimant == <<w, p>>
<1>2. r # NULL /\ r.amount = amount /\ claimant \in Week \X Player
  BY WeeklyAssumption
<1>3. pool["WEEKLY"] >= amount /\ pool'["WEEKLY"] = pool["WEEKLY"] - amount
  BY <1>1 DEF PayFrom, TypeInv, StateTypeOK, PoolId
<1>4. weekClaim' = [weekClaim EXCEPT ![w][p] = r]
  BY <1>1
<1>. HIDE DEF r
<1>5. \A v \in Week, q \in Player :
        weekClaim'[v][q] = IF v = w /\ q = p THEN r ELSE weekClaim[v][q]
  BY <1>4 DEF TypeInv, WeeklyTypes, WeeklyRecordsOK
<1>6. WeeklyReceipt' = [WeeklyReceipt EXCEPT !["WEEKLY"][claimant] = r]
  <2>1. ASSUME NEW x \in Week \X Player
        PROVE  weekClaim'[x[1]][x[2]] = IF x = claimant THEN r ELSE weekClaim[x[1]][x[2]]
    BY <1>5
  <2>. QED BY <1>2, <2>1 DEF WeeklyReceipt
<1>7. WeeklyReceipt'["WEEKLY"][claimant] = r /\ WeeklyReceipt["WEEKLY"][claimant] = NULL
  BY <1>1, <1>2, <1>5 DEF WeeklyReceipt
<1>8. WeeklyPot' = [WeeklyPot EXCEPT !["WEEKLY"] = @ - r.amount] /\ r.amount <= WeeklyPot["WEEKLY"]
  BY <1>2, <1>3 DEF WeeklyPot, TypeInv, StateTypeOK, PoolId
<1>9. WeeklyEscrow!Pay("WEEKLY", claimant)
  <2>. HIDE DEF claimant
  <2>. QED BY <1>2, <1>6, <1>7, <1>8 DEF WeeklyEscrow!Pay, WeeklyReceipt, WeeklyPot
<1>. QED BY <1>2, <1>9 DEF WeeklyEscrow!Next

LEMMA MonthlyPays ==
  ASSUME TypeInv, NEW p \in Player, NEW m \in Month, NEW now \in Time,
         ClaimMonthlyReward(p, m, now)
  PROVE  MonthlyEscrow!Next
<1>1. PICK rank \in Nat, amount \in Nat :
        /\ monthClaim[m][p] = NULL
        /\ PayFrom("MONTHLY", p, amount)
        /\ monthClaim' = [monthClaim EXCEPT ![m][p] = [rank |-> rank, amount |-> amount]]
  BY MonthlyClaimPays
<1>. DEFINE r == [rank |-> rank, amount |-> amount]
            claimant == <<m, p>>
<1>2. r # NULL /\ r.amount = amount /\ claimant \in Month \X Player
  BY SeasonAssumption
<1>3. pool["MONTHLY"] >= amount /\ pool'["MONTHLY"] = pool["MONTHLY"] - amount
  BY <1>1 DEF PayFrom, TypeInv, StateTypeOK, PoolId
<1>4. monthClaim' = [monthClaim EXCEPT ![m][p] = r]
  BY <1>1
<1>. HIDE DEF r
<1>5. \A v \in Month, q \in Player :
        monthClaim'[v][q] = IF v = m /\ q = p THEN r ELSE monthClaim[v][q]
  BY <1>4 DEF TypeInv, ClassicTypes, ClassicRecordsOK
<1>6. MonthlyReceipt' = [MonthlyReceipt EXCEPT !["MONTHLY"][claimant] = r]
  <2>1. ASSUME NEW x \in Month \X Player
        PROVE  monthClaim'[x[1]][x[2]] = IF x = claimant THEN r ELSE monthClaim[x[1]][x[2]]
    BY <1>5
  <2>. QED BY <1>2, <2>1 DEF MonthlyReceipt
<1>7. MonthlyReceipt'["MONTHLY"][claimant] = r /\ MonthlyReceipt["MONTHLY"][claimant] = NULL
  BY <1>1, <1>2, <1>5 DEF MonthlyReceipt
<1>8. MonthlyPot' = [MonthlyPot EXCEPT !["MONTHLY"] = @ - r.amount] /\ r.amount <= MonthlyPot["MONTHLY"]
  BY <1>2, <1>3 DEF MonthlyPot, TypeInv, StateTypeOK, PoolId
<1>9. MonthlyEscrow!Pay("MONTHLY", claimant)
  <2>. HIDE DEF claimant
  <2>. QED BY <1>2, <1>6, <1>7, <1>8 DEF MonthlyEscrow!Pay, MonthlyReceipt, MonthlyPot
<1>. QED BY <1>2, <1>9 DEF MonthlyEscrow!Next

\* An entry fee is not taken from a pool.
LEMMA ChargeFills ==
  ASSUME TypeInv, NEW p \in Player, NEW fee \in Nat, NEW split \in [PoolId -> Nat],
         ChargeEntry(p, fee, split), NEW i \in PoolId
  PROVE  pool'[i] >= pool[i]
<1>1. pool'[i] = pool[i] + split[i]
  BY DEF ChargeEntry
<1>2. pool[i] \in Nat /\ split[i] \in Nat
  BY DEF TypeInv, StateTypeOK
<1>. QED BY <1>1, <1>2

LEMMA EscrowsStep ==
  ASSUME TypeInv, [GameNext]_arcadeVars
  PROVE  WeeklyEscrow!Next /\ MonthlyEscrow!Next
<1>. DEFINE Both == WeeklyEscrow!Next /\ MonthlyEscrow!Next
<1>0. /\ "WEEKLY" \in PoolId /\ "MONTHLY" \in PoolId
      /\ pool["WEEKLY"] \in Nat /\ pool["MONTHLY"] \in Nat
  BY DEF TypeInv, StateTypeOK, PoolId
<1>1. ASSUME NEW p \in Player, NEW g \in GameId, NEW d \in Date, NEW fee \in DailyFee,
             StartDailyGame(p, g, d, fee), UNCHANGED <<weekClaim, monthClaim>>
      PROVE  Both
  <2>. DEFINE split == SplitFee(DailyBps, fee)
  <2>1. fee \in Nat /\ split \in [PoolId -> Nat] /\ ChargeEntry(p, fee, split)
    BY <1>1, DailyAssumption, SplitTypes DEF StartDailyGame
  <2>. HIDE DEF split
  <2>2. pool'["WEEKLY"] >= pool["WEEKLY"] /\ pool'["MONTHLY"] >= pool["MONTHLY"]
    BY <1>0, <2>1, ChargeFills
  <2>. QED BY <1>1, <2>2, WeeklyFund, MonthlyFund
<1>2. ASSUME NEW p \in Player, NEW g \in GameId, NEW now \in Time,
             StartWeeklyGame(p, g, now), UNCHANGED <<weekClaim, monthClaim>>
      PROVE  Both
  <2>. DEFINE split == SplitFee(WeeklyBps, WeeklyFee)
  <2>1. WeeklyFee \in Nat /\ split \in [PoolId -> Nat] /\ ChargeEntry(p, WeeklyFee, split)
    BY <1>2, WeeklyAssumption, SplitTypes DEF StartWeeklyGame
  <2>. HIDE DEF split
  <2>2. pool'["WEEKLY"] >= pool["WEEKLY"] /\ pool'["MONTHLY"] >= pool["MONTHLY"]
    BY <1>0, <2>1, ChargeFills
  <2>. QED BY <1>2, <2>2, WeeklyFund, MonthlyFund
<1>3. ASSUME NEW p \in Player, NEW g \in GameId, NEW fee \in ClassicFee,
             StartClassicGame(p, g, fee), UNCHANGED <<weekClaim, monthClaim>>
      PROVE  Both
  <2>. DEFINE split == SplitFee(ClassicBps, fee)
  <2>1. fee \in Nat /\ split \in [PoolId -> Nat] /\ ChargeEntry(p, fee, split)
    BY <1>3, SeasonAssumption, SplitTypes DEF StartClassicGame
  <2>. HIDE DEF split
  <2>2. pool'["WEEKLY"] >= pool["WEEKLY"] /\ pool'["MONTHLY"] >= pool["MONTHLY"]
    BY <1>0, <2>1, ChargeFills
  <2>. QED BY <1>3, <2>2, WeeklyFund, MonthlyFund
<1>4. ASSUME NEW p \in Player, NEW amount \in Nat, NEW i \in {"DAILY", "SHOP", "DAO"},
             PayFrom(i, p, amount), UNCHANGED <<weekClaim, monthClaim>>
      PROVE  Both
  <2>1. pool'["WEEKLY"] >= pool["WEEKLY"] /\ pool'["MONTHLY"] >= pool["MONTHLY"]
    BY <1>0, <1>4 DEF PayFrom, TypeInv, StateTypeOK, PoolId
  <2>. QED BY <1>4, <2>1, WeeklyFund, MonthlyFund
<1>5. ASSUME NEW p \in Player, NEW d \in Date, NEW now \in Time,
             ClaimDailyReward(p, d, now), UNCHANGED <<weekClaim, monthClaim>>
      PROVE  Both
  <2>1. PICK a \in Allocation, i \in {"DAILY", "DAO"} : PayFrom(i, p, a.amount)
    BY <1>5 DEF ClaimDailyReward
  <2>2. a.amount \in Nat
    BY DEF Allocation
  <2>. QED BY <1>4, <1>5, <2>1, <2>2
<1>6. ASSUME NEW p \in Player, NEW w \in Week, NEW now \in Time,
             ClaimWeeklyReward(p, w, now), UNCHANGED monthClaim
      PROVE  Both
  <2>1. PICK amount \in Nat : PayFrom("WEEKLY", p, amount)
    BY <1>6, WeeklyClaimPays
  <2>2. pool'["MONTHLY"] >= pool["MONTHLY"]
    BY <1>0, <2>1 DEF PayFrom, TypeInv, StateTypeOK, PoolId
  <2>. QED BY <1>6, <2>2, WeeklyPays, MonthlyFund
<1>7. ASSUME NEW p \in Player, NEW m \in Month, NEW now \in Time,
             ClaimMonthlyReward(p, m, now), UNCHANGED weekClaim
      PROVE  Both
  <2>1. PICK amount \in Nat : PayFrom("MONTHLY", p, amount)
    BY <1>7, MonthlyClaimPays
  <2>2. pool'["WEEKLY"] >= pool["WEEKLY"]
    BY <1>0, <2>1 DEF PayFrom, TypeInv, StateTypeOK, PoolId
  <2>. QED BY <1>7, <2>2, WeeklyFund, MonthlyPays
<1>8. ASSUME NEW p \in Player, NEW burn \in Burn, NEW now \in Time,
             RedeemClassicPoints(p, burn, now), UNCHANGED <<weekClaim, monthClaim>>
      PROVE  Both
  <2>1. PICK i \in {"SHOP", "DAO"} : PayFrom(i, p, RedeemPayout(burn))
    BY <1>8 DEF RedeemClassicPoints
  <2>2. RedeemPayout(burn) \in Nat
    BY PointsAssumption, RedeemNat
  <2>. QED BY <1>4, <1>8, <2>1, <2>2
<1>9. ASSUME UNCHANGED <<pool, weekClaim, monthClaim>>
      PROVE  Both
  <2>1. pool'["WEEKLY"] >= pool["WEEKLY"] /\ pool'["MONTHLY"] >= pool["MONTHLY"]
    BY <1>0, <1>9
  <2>. QED BY <1>9, <2>1, WeeklyFund, MonthlyFund
<1>10. ASSUME UNCHANGED weeklyVars, UNCHANGED monthClaim,
              \/ \E p \in Player, g \in GameId, d \in Date, fee \in DailyFee :
                   StartDailyGame(p, g, d, fee)
              \/ \E p \in Player, d \in Date, now \in Time : ClaimDailyReward(p, d, now)
       PROVE  Both
  <2>1. UNCHANGED <<weekClaim, monthClaim>>
    BY <1>10 DEF weeklyVars
  <2>. QED BY <1>1, <1>5, <1>10, <2>1, Zenon
<1>11. ASSUME UNCHANGED monthClaim,
              \/ \E p \in Player, g \in GameId, now \in Time : StartWeeklyGame(p, g, now)
              \/ \E p \in Player, w \in Week, now \in Time : ClaimWeeklyReward(p, w, now)
       PROVE  Both
  <2>1. ASSUME NEW p \in Player, NEW g \in GameId, NEW now \in Time, StartWeeklyGame(p, g, now)
        PROVE  UNCHANGED <<weekClaim, monthClaim>>
    BY <1>11, <2>1 DEF StartWeeklyGame
  <2>. QED BY <1>2, <1>6, <1>11, <2>1, Zenon
<1>12. ASSUME UNCHANGED <<dailyVars, weeklyVars>>,
              \/ \E p \in Player, g \in GameId, fee \in ClassicFee : StartClassicGame(p, g, fee)
              \/ \E p \in Player, m \in Month, now \in Time : ClaimMonthlyReward(p, m, now)
              \/ /\ UNCHANGED seasonVars
                 /\ \E p \in Player, burn \in Burn, now \in Time : RedeemClassicPoints(p, burn, now)
       PROVE  Both
  <2>1. UNCHANGED weekClaim
    BY <1>12 DEF weeklyVars
  <2>2. ASSUME NEW p \in Player, NEW g \in GameId, NEW fee \in ClassicFee, StartClassicGame(p, g, fee)
        PROVE  UNCHANGED <<weekClaim, monthClaim>>
    BY <2>1, <2>2 DEF StartClassicGame, seasonVars
  <2>3. UNCHANGED seasonVars => UNCHANGED <<weekClaim, monthClaim>>
    BY <2>1 DEF seasonVars
  <2>. QED BY <1>3, <1>7, <1>8, <1>12, <2>1, <2>2, <2>3, Zenon
<1>13. UNCHANGED <<account, pool, treasury, prize, weekMeta, weekClaim, monthClaim>> => Both
  BY <1>9
<1>. QED BY <1>10, <1>11, <1>12, <1>13, PlayerSteps, Zenon DEF GameMoves

\* Under the messages of all players in every order, both seasonal competitions
\* are escrows: nobody is paid twice for a week or a month, nobody more than the
\* pool holds, and no game of another mode, claim or redemption takes from a pool
\* that is not its own.
THEOREM SeasonsImplementEscrow == GameSpec => WeeklyEscrowSpec /\ MonthlyEscrowSpec
<1>1. ArcadeInit => TypeInv
  BY TypesAtFirst
<1>2. ArcadeInit => WeeklyEscrow!Init
  BY DEF ArcadeInit, StateInit, WeeklyRecordsInit, WeeklyEscrow!Init, PoolId
<1>3. ArcadeInit => MonthlyEscrow!Init
  BY DEF ArcadeInit, StateInit, SeasonRecordsInit, MonthlyEscrow!Init, PoolId
<1>4. TypeInv /\ [GameNext]_arcadeVars => TypeInv'
  BY TypesStep DEF ArcadeNext
<1>5. TypeInv /\ [GameNext]_arcadeVars
        => [WeeklyEscrow!Next]_<<WeeklyPot, WeeklyReceipt>>
           /\ [MonthlyEscrow!Next]_<<MonthlyPot, MonthlyReceipt>>
  BY EscrowsStep
<1>6. GameSpec => /\ WeeklyEscrow!Init /\ [][WeeklyEscrow!Next]_<<WeeklyPot, WeeklyReceipt>>
                  /\ MonthlyEscrow!Init /\ [][MonthlyEscrow!Next]_<<MonthlyPot, MonthlyReceipt>>
  BY <1>1, <1>2, <1>3, <1>4, <1>5, PTL DEF GameSpec
<1>. QED
  BY <1>6, PTL DEF WeeklyEscrowSpec, WeeklyEscrow!Spec, MonthlyEscrowSpec,
                   MonthlyEscrow!Spec, WeeklyPot, WeeklyReceipt, MonthlyPot, MonthlyReceipt

-----------------------------------------------------------------------------
(***************************************************************************)
(* The daily competition by itself: its records, the prize of a day and    *)
(* the escrow that it implements.                                          *)
(***************************************************************************)
\* A prize record whose computed amounts are in S.
PrizeRecord(S) ==
  [entryCount : Nat, grossFees : Nat, treasuryFees : Nat, rewardPool : Nat,
   finalized : BOOLEAN, distributed : S, leftover : S]

\* The shapes the proofs of the records need.  What a finalization distributes and
\* leaves decides nothing in them, so nothing is said of it here.
ShapeOK ==
  /\ session \in [GameId -> SessionRecord \cup {NULL}]
  /\ attempt \in [Date -> [Player -> GameId \cup {NULL}]]
  /\ submission \in [Date -> [Player -> GameId \cup {NULL}]]
  /\ \E S : prize \in [Date -> PrizeRecord(S)]
  /\ board \in [Date -> SUBSET Entry]
  /\ \A d \in Date : IsFiniteSet(board[d])
  /\ allocation = [d \in Date |-> [p \in Player |-> allocation[d][p]]]
  /\ claim \in [Date -> [Player -> Allocation \cup {NULL}]]

\* A daily session points at the attempt that paid for it, and one that is
\* active has no result on the board yet.
SessionsPaid ==
  \A g \in GameId :
    session[g] # NULL /\ session[g].mode = "daily" =>
      /\ session[g].period \in Date
      /\ attempt[session[g].period][session[g].owner] = g
      /\ session[g].status = "active" =>
           \A e \in board[session[g].period] : e.player # session[g].owner

\* A player's submission of a day, and its allocation, are of the game it paid
\* for, and only a finalized day has allocations.
RecordsOfOneGame ==
  \A d \in Date, p \in Player :
    /\ submission[d][p] # NULL => submission[d][p] = attempt[d][p]
    /\ allocation[d][p] # NULL =>
         /\ prize[d].finalized
         /\ submission[d][p] # NULL
         /\ submission[d][p] = allocation[d][p].game

\* The inductive invariant.
DailyInv ==
  ShapeOK /\ SessionsPaid /\ RecordsOfOneGame /\ OnePaidEntryPerPlayer /\ ClaimsBacked

-----------------------------------------------------------------------------
\* The share of a fee that reaches the reward pool is a natural number.
LEMMA SplitNat ==
  ASSUME NEW fee \in Nat
  PROVE  /\ SplitFee(DailyBps, fee)["DAILY"] \in Nat
         /\ TreasuryPart(SplitFee(DailyBps, fee)) \in Nat
BY DEF SplitFee, DailyBps, PoolId, BpsAmount, BpsDenominator, TreasuryPart

\* The position of an entry on a finite board is a number.
LEMMA RankNat ==
  ASSUME NEW entries, IsFiniteSet(entries), NEW e
  PROVE  RankOn(entries, e) \in Nat
<1>1. IsFiniteSet({f \in entries : Before(f, e)})
  BY FS_Subset
<1>2. Cardinality({f \in entries : Before(f, e)}) \in Nat
  BY <1>1, FS_CardinalityType
<1>3. QED
  BY <1>2 DEF RankOn

\* On a finite board that ranks every player at most once, the record a
\* finalization leaves for p is the allocation of p's one entry; and it is the
\* one a claim recomputes.
LEMMA SummaryOfOneEntry ==
  ASSUME NEW entries \in SUBSET Entry, IsFiniteSet(entries), NEW total, NEW p \in Player,
         \A e, f \in entries : e.player = f.player => e = f
  PROVE  LET a == AllocationOf(Summary(entries, total), p)
         IN /\ MatchIn(Summary(entries, total), p) = a
            /\ a # NULL => \E e \in entries : e.player = p /\ a.game = e.game
<1> DEFINE summary == Summary(entries, total)
           mine == {a \in summary : a.player = p}
<1>1. CASE mine = {}
  BY <1>1 DEF AllocationOf, MatchIn
<1>2. ASSUME NEW a \in mine
      PROVE  /\ mine = {a}
             /\ a.rank \in Nat
             /\ \E e \in entries : e.player = p /\ a.game = e.game
  <2>1. ASSUME NEW b \in mine
        PROVE  \E e \in entries :
                 /\ e.player = p
                 /\ b = [player |-> e.player, game |-> e.game, rank |-> RankOn(entries, e),
                         amount |-> RankReward(total, RankOn(entries, e),
                                               Cardinality(Eligible(entries)))]
    BY <2>1 DEF Summary, Eligible
  <2>2. PICK e \in entries :
                 /\ e.player = p
                 /\ a = [player |-> e.player, game |-> e.game, rank |-> RankOn(entries, e),
                         amount |-> RankReward(total, RankOn(entries, e),
                                               Cardinality(Eligible(entries)))]
    BY <2>1, <1>2
  <2>3. mine = {a}
    BY <2>1, <2>2
  <2>4. QED
    BY <2>2, <2>3, RankNat
<1>3. CASE mine # {}
  <2>1. PICK a \in mine : mine = {a} /\ a.rank \in Nat
    BY <1>2, <1>3
  <2>2. AllocationOf(summary, p) = a /\ MatchIn(summary, p) = a
    BY <2>1 DEF AllocationOf, MatchIn
  <2>3. QED
    BY <2>1, <2>2, <1>2
<1>4. QED
  BY <1>1, <1>3

-----------------------------------------------------------------------------
LEMMA DailyInitInv == DailyInit => DailyInv
<1> SUFFICES ASSUME DailyInit PROVE DailyInv
  OBVIOUS
<1> USE DEF DailyInit, StateInit, DailyRecordsInit
<1>1. ShapeOK
  <2>1. prize \in [Date -> PrizeRecord(Nat)]
    BY DEF NoPrize, PrizeRecord
  <2>2. \A d \in Date : IsFiniteSet(board[d])
    BY FS_EmptySet
  <2>3. QED
    BY <2>1, <2>2 DEF ShapeOK
<1>2. SessionsPaid /\ RecordsOfOneGame /\ OnePaidEntryPerPlayer /\ ClaimsBacked
  BY DEF SessionsPaid, RecordsOfOneGame, OnePaidEntryPerPlayer, ClaimsBacked
<1>3. QED
  BY <1>1, <1>2 DEF DailyInv

\* An entry keeps the invariant: the player had no attempt that day, so its
\* name is on no board entry of the day, whatever session it overwrites.
LEMMA StartInv ==
  ASSUME DailyInv, NEW p \in Player, NEW g \in GameId, NEW d \in Date, NEW fee \in DailyFee,
         StartDailyGame(p, g, d, fee)
  PROVE  DailyInv'
<1> DEFINE split == SplitFee(DailyBps, fee)
<1>1. /\ session' = [session EXCEPT ![g] = NewSession(p, "daily", d, 0)]
      /\ attempt' = [attempt EXCEPT ![d][p] = g]
      /\ attempt[d][p] = NULL
      /\ prize' = [prize EXCEPT ![d] = AddDailyPoolEntry(@, fee, split)]
      /\ UNCHANGED <<submission, board, rankRow, allocation, claim>>
  BY DEF StartDailyGame
<1>2. ShapeOK'
  <2>1. PICK S : prize \in [Date -> PrizeRecord(S)]
    BY DEF DailyInv, ShapeOK
  <2>2. fee \in Nat /\ d \in Nat
    BY DailyAssumption
  <2>3. AddDailyPoolEntry(prize[d], fee, split) \in PrizeRecord(S)
    BY <2>1, <2>2, SplitNat DEF AddDailyPoolEntry, PrizeRecord
  <2>4. prize' \in [Date -> PrizeRecord(S)]
    BY <1>1, <2>1, <2>3
  <2>5. NewSession(p, "daily", d, 0) \in SessionRecord
    BY <2>2 DEF NewSession, SessionRecord, Mode
  <2>6. QED
    BY <1>1, <2>4, <2>5 DEF DailyInv, ShapeOK
<1>3. SessionsPaid'
  <2> SUFFICES ASSUME NEW h \in GameId, session'[h] # NULL, session'[h].mode = "daily"
               PROVE  /\ session'[h].period \in Date
                      /\ attempt'[session'[h].period][session'[h].owner] = h
                      /\ session'[h].status = "active" =>
                           \A e \in board[session'[h].period] : e.player # session'[h].owner
    BY <1>1 DEF SessionsPaid
  <2>1. CASE h = g
    BY <2>1, <1>1, StateAssumption
       DEF DailyInv, ShapeOK, OnePaidEntryPerPlayer, NewSession, Entry
  <2>2. CASE h # g
    <3>1. session'[h] = session[h] /\ session[h] \in SessionRecord
      BY <2>2, <1>1 DEF DailyInv, ShapeOK
    <3>2. attempt[session[h].period][session[h].owner] = h /\ session[h].period \in Date
      BY <3>1 DEF DailyInv, SessionsPaid
    <3>3. ~(session[h].period = d /\ session[h].owner = p)
      BY <3>2, <1>1, StateAssumption
    <3>4. attempt'[session[h].period][session[h].owner] = h
      BY <3>1, <3>2, <3>3, <1>1 DEF DailyInv, ShapeOK, SessionRecord
    <3>5. QED
      BY <3>1, <3>2, <3>4 DEF DailyInv, SessionsPaid
  <2>3. QED
    BY <2>1, <2>2
<1>4. ASSUME NEW c \in Date
      PROVE  /\ \A q \in Player : attempt[c][q] # NULL => attempt'[c][q] = attempt[c][q]
             /\ prize'[c].finalized = prize[c].finalized
  BY <1>1 DEF DailyInv, ShapeOK, PrizeRecord, AddDailyPoolEntry
<1>5. RecordsOfOneGame'
  BY <1>1, <1>4 DEF DailyInv, RecordsOfOneGame
<1>6. OnePaidEntryPerPlayer'
  <2>1. \A c \in Date : \A e \in board[c] : attempt[c][e.player] # NULL /\ e.player \in Player
    BY StateAssumption DEF DailyInv, ShapeOK, OnePaidEntryPerPlayer, Entry
  <2>2. QED
    BY <2>1, <1>1, <1>4 DEF DailyInv, OnePaidEntryPerPlayer
<1>7. ClaimsBacked'
  BY <1>1, <1>4 DEF DailyInv, ClaimsBacked
<1>8. QED
  BY <1>2, <1>3, <1>5, <1>6, <1>7 DEF DailyInv

\* A result keeps the invariant: its session is the one of the player's attempt
\* and the board has no entry of the player yet.
LEMMA SubmitInv ==
  ASSUME DailyInv, NEW p \in Player, NEW g \in GameId, NEW now \in Time, NEW r \in Result,
         SubmitDailyResult(p, g, now, r)
  PROVE  DailyInv'
<1> DEFINE d == session[g].period
           entry == [player |-> p, game |-> g, score |-> r.score, maxTile |-> r.maxTile,
                     moveCount |-> r.moveCount, ended |-> now]
<1>1. /\ session[g] # NULL /\ session[g].owner = p /\ session[g].status = "active"
      /\ session[g].mode = "daily"
      /\ session' = [session EXCEPT ![g] = CompletedSession(@)]
      /\ board' = [board EXCEPT ![d] = {e \in @ : ~SameKey(e, entry)} \cup {entry}]
      /\ submission' = [submission EXCEPT ![d][p] = g]
      /\ UNCHANGED <<attempt, prize, allocation, claim>>
  BY DEF SubmitDailyResult, OwnsActiveSession
<1>2. /\ d \in Date /\ attempt[d][p] = g
      /\ \A e \in board[d] : e.player # p
  BY <1>1 DEF DailyInv, SessionsPaid
<1>3. entry \in Entry
  BY StateAssumption, DailyAssumption DEF Entry
<1>4. /\ \A c \in Date : c # d => board'[c] = board[c]
      /\ entry \in board'[d]
      /\ \A e \in board'[d] : e = entry \/ e \in board[d]
      /\ \A c \in Date, q \in Player :
            submission'[c][q] = IF c = d /\ q = p THEN g ELSE submission[c][q]
  BY <1>1, <1>2 DEF DailyInv, ShapeOK
<1>5. ShapeOK'
  <2>1. session[g] \in SessionRecord
    BY <1>1 DEF DailyInv, ShapeOK
  <2>2. CompletedSession(session[g]) \in SessionRecord
    BY <2>1 DEF CompletedSession, SessionRecord
  <2>3. board' \in [Date -> SUBSET Entry]
    BY <1>1, <1>2, <1>3 DEF DailyInv, ShapeOK
  <2>4. IsFiniteSet(board'[d])
    <3>1. IsFiniteSet({e \in board[d] : ~SameKey(e, entry)})
      BY <1>2, FS_Subset DEF DailyInv, ShapeOK
    <3>2. IsFiniteSet({e \in board[d] : ~SameKey(e, entry)} \cup {entry})
      BY <3>1, FS_AddElement
    <3>3. QED
      BY <3>2, <1>1, <1>2 DEF DailyInv, ShapeOK
  <2>5. \A c \in Date : IsFiniteSet(board'[c])
    BY <2>4, <1>4 DEF DailyInv, ShapeOK
  <2>6. session' \in [GameId -> SessionRecord \cup {NULL}]
    BY <1>1, <2>2 DEF DailyInv, ShapeOK
  <2>7. submission' \in [Date -> [Player -> GameId \cup {NULL}]]
    BY <1>1 DEF DailyInv, ShapeOK
  <2>8. \E S : prize' \in [Date -> PrizeRecord(S)]
    BY <1>1 DEF DailyInv, ShapeOK
  <2>9. /\ attempt' \in [Date -> [Player -> GameId \cup {NULL}]]
        /\ claim' \in [Date -> [Player -> Allocation \cup {NULL}]]
        /\ allocation' = [c \in Date |-> [q \in Player |-> allocation'[c][q]]]
    BY <1>1 DEF DailyInv, ShapeOK
  <2>10. QED
    BY <2>3, <2>5, <2>6, <2>7, <2>8, <2>9 DEF ShapeOK
<1>6. SessionsPaid'
  <2> SUFFICES ASSUME NEW h \in GameId, session'[h] # NULL, session'[h].mode = "daily"
               PROVE  /\ session'[h].period \in Date
                      /\ attempt[session'[h].period][session'[h].owner] = h
                      /\ session'[h].status = "active" =>
                           \A e \in board'[session'[h].period] : e.player # session'[h].owner
    BY <1>1 DEF SessionsPaid
  <2>1. CASE h = g
    BY <2>1, <1>1, <1>2 DEF DailyInv, ShapeOK, CompletedSession
  <2>2. CASE h # g
    <3>1. session'[h] = session[h]
      BY <2>2, <1>1 DEF DailyInv, ShapeOK
    <3>2. QED
      BY <3>1, <2>2, <1>2, <1>4 DEF DailyInv, SessionsPaid
  <2>3. QED
    BY <2>1, <2>2
<1>7. \A c \in Date, q \in Player : submission[c][q] # NULL => submission'[c][q] = submission[c][q]
  BY <1>2, <1>4 DEF DailyInv, RecordsOfOneGame
<1>8. RecordsOfOneGame'
  <2> SUFFICES ASSUME NEW c \in Date, NEW q \in Player
               PROVE  /\ submission'[c][q] # NULL => submission'[c][q] = attempt[c][q]
                      /\ allocation[c][q] # NULL =>
                           /\ prize[c].finalized
                           /\ submission'[c][q] # NULL
                           /\ submission'[c][q] = allocation[c][q].game
    BY <1>1 DEF RecordsOfOneGame
  <2>1. submission'[c][q] # NULL => submission'[c][q] = attempt[c][q]
    BY <1>2, <1>4 DEF DailyInv, RecordsOfOneGame
  <2>2. ASSUME allocation[c][q] # NULL
        PROVE  /\ prize[c].finalized
               /\ submission[c][q] # NULL
               /\ submission[c][q] = allocation[c][q].game
    BY <2>2 DEF DailyInv, RecordsOfOneGame
  <2>3. allocation[c][q] # NULL => submission'[c][q] = submission[c][q]
    BY <2>2, <1>7
  <2>4. QED
    BY <2>1, <2>2, <2>3
<1>9. OnePaidEntryPerPlayer'
  BY <1>1, <1>2, <1>4 DEF DailyInv, OnePaidEntryPerPlayer
<1>10. ClaimsBacked'
  <2>1. ASSUME NEW c \in Date, NEW q \in Player, claim[c][q] # NULL
        PROVE  /\ prize[c].finalized /\ allocation[c][q] = claim[c][q]
               /\ submission'[c][q] = claim[c][q].game
    BY <2>1, <1>7 DEF DailyInv, ClaimsBacked, RecordsOfOneGame
  <2>2. QED
    BY <1>1, <2>1 DEF ClaimsBacked
<1>11. QED
  BY <1>5, <1>6, <1>8, <1>9, <1>10 DEF DailyInv

\* The recomputation a claim makes when it finds no record of the player gives
\* what the finalization itself would have recorded.
LEMMA ClaimedAllocation ==
  ASSUME DailyInv, NEW d \in Date
  PROVE  LET summary == Summary(board[d], prize[d].rewardPool)
         IN \A q \in Player :
              /\ MatchIn(summary, q) = AllocationOf(summary, q)
              /\ AllocationOf(summary, q) # NULL =>
                   /\ submission[d][q] # NULL
                   /\ submission[d][q] = AllocationOf(summary, q).game
<1> SUFFICES ASSUME NEW q \in Player
             PROVE  LET summary == Summary(board[d], prize[d].rewardPool)
                    IN /\ MatchIn(summary, q) = AllocationOf(summary, q)
                       /\ AllocationOf(summary, q) # NULL =>
                            /\ submission[d][q] # NULL
                            /\ submission[d][q] = AllocationOf(summary, q).game
  OBVIOUS
<1>1. /\ board[d] \in SUBSET Entry /\ IsFiniteSet(board[d])
      /\ \A e, f \in board[d] : e.player = f.player => e = f
  BY DEF DailyInv, ShapeOK, OnePaidEntryPerPlayer
<1>2. \A e \in board[d] : submission[d][e.player] = e.game /\ e.game # NULL
  <2>1. \A g \in GameId : g # NULL
    BY StateAssumption
  <2>2. \A e \in board[d] : e.game \in GameId
    BY <1>1 DEF Entry
  <2>. QED BY <2>1, <2>2 DEF DailyInv, OnePaidEntryPerPlayer
<1>3. QED
  BY <1>1, <1>2, SummaryOfOneEntry

\* A claim keeps the invariant: what it records is a player's one allocation,
\* and the records that were there stay.
LEMMA ClaimInv ==
  ASSUME DailyInv, NEW p \in Player, NEW d \in Date, NEW now \in Time,
         ClaimDailyReward(p, d, now)
  PROVE  /\ DailyInv'
         /\ \A c \in Date, q \in Player :
              allocation[c][q] # NULL => allocation'[c][q] = allocation[c][q]
         /\ Escrow!Pay(d, p)
<1> DEFINE summary == Summary(board[d], prize[d].rewardPool)
           final == Finalized(d)
           a == IF final.byPlayer[p] # NULL THEN final.byPlayer[p] ELSE MatchIn(summary, p)
<1>1. /\ claim[d][p] = NULL
      /\ a \in Allocation
      /\ prize[d].rewardPool >= a.amount
      /\ prize' = [prize EXCEPT ![d] = PaidOut(@, a.amount, Distributed(summary))]
      /\ allocation' = [allocation EXCEPT ![d] = [final.byPlayer EXCEPT ![p] = a]]
      /\ claim' = [claim EXCEPT ![d][p] = a]
      /\ UNCHANGED <<session, attempt, submission, board>>
  BY DEF ClaimDailyReward, Unclaimed, CoversReward
<1>2. a # NULL
  BY <1>1, DailyAssumption DEF Allocation
<1>3. ASSUME NEW q \in Player
      PROVE  /\ allocation[d][q] # NULL => final.byPlayer[q] = allocation[d][q]
             /\ final.byPlayer[q] # NULL =>
                  submission[d][q] # NULL /\ submission[d][q] = final.byPlayer[q].game
  <2>1. CASE prize[d].finalized
    BY <2>1 DEF Finalized, DailyInv, RecordsOfOneGame
  <2>2. CASE ~prize[d].finalized
    <3>1. allocation[d][q] = NULL
      BY <2>2 DEF DailyInv, RecordsOfOneGame
    <3>2. final.byPlayer[q] = AllocationOf(summary, q)
      BY <2>2, <3>1 DEF Finalized
    <3>3. QED
      BY <3>1, <3>2, ClaimedAllocation
  <2>3. QED
    BY <2>1, <2>2
<1>4. submission[d][p] # NULL /\ submission[d][p] = a.game
  BY <1>2, <1>3, ClaimedAllocation
<1>5. final.byPlayer = [q \in Player |-> final.byPlayer[q]]
  BY DEF Finalized, DailyInv, ShapeOK
<1>6. /\ allocation' = [c \in Date |-> [q \in Player |-> allocation'[c][q]]]
      /\ \A c \in Date, q \in Player :
           allocation'[c][q] = IF c # d THEN allocation[c][q]
                               ELSE IF q = p THEN a ELSE final.byPlayer[q]
  BY <1>1, <1>5 DEF DailyInv, ShapeOK
<1>7. ASSUME NEW c \in Date, NEW q \in Player, allocation[c][q] # NULL
      PROVE  allocation'[c][q] = allocation[c][q]
  BY <1>6, <1>3, <1>7
<1>8. PICK S : prize \in [Date -> PrizeRecord(S)]
  BY DEF DailyInv, ShapeOK
<1>9. PaidOut(prize[d], a.amount, Distributed(summary)) \in
         PrizeRecord(S \cup {Distributed(summary), prize[d].rewardPool - Distributed(summary)})
  BY <1>1, <1>8 DEF PaidOut, PrizeRecord, Allocation
<1>10. /\ prize' \in [Date -> PrizeRecord(
             S \cup {Distributed(summary), prize[d].rewardPool - Distributed(summary)})]
       /\ \A c \in Date : prize[c].finalized => prize'[c].finalized
       /\ prize'[d].finalized
       /\ prize'[d].rewardPool = prize[d].rewardPool - a.amount
  <2>1. \A c \in Date :
          prize'[c] = IF c = d THEN PaidOut(prize[d], a.amount, Distributed(summary)) ELSE prize[c]
    BY <1>1, <1>8
  <2>2. prize' = [c \in Date |-> prize'[c]]
    BY <1>1, <1>8
  <2>3. \A c \in Date : prize[c] \in PrizeRecord(
             S \cup {Distributed(summary), prize[d].rewardPool - Distributed(summary)})
    BY <1>8 DEF PrizeRecord
  <2>4. \A c \in Date : prize'[c] \in PrizeRecord(
             S \cup {Distributed(summary), prize[d].rewardPool - Distributed(summary)})
    BY <2>1, <2>3, <1>9
  <2>5. /\ \A c \in Date : prize[c].finalized => prize'[c].finalized
        /\ prize'[d].finalized
        /\ prize'[d].rewardPool = prize[d].rewardPool - a.amount
    BY <2>1 DEF PaidOut
  <2>6. QED
    BY <2>2, <2>4, <2>5
<1>11. ShapeOK'
  <2>1. \E T : prize' \in [Date -> PrizeRecord(T)]
    BY <1>10
  <2>2. claim' \in [Date -> [Player -> Allocation \cup {NULL}]]
    BY <1>1 DEF DailyInv, ShapeOK
  <2>3. QED
    BY <1>1, <1>6, <2>1, <2>2 DEF DailyInv, ShapeOK
<1>12. SessionsPaid'
  BY <1>1 DEF DailyInv, SessionsPaid
<1>13. RecordsOfOneGame'
  <2> SUFFICES ASSUME NEW c \in Date, NEW q \in Player
               PROVE  /\ submission[c][q] # NULL => submission[c][q] = attempt[c][q]
                      /\ allocation'[c][q] # NULL =>
                           /\ prize'[c].finalized
                           /\ submission[c][q] # NULL
                           /\ submission[c][q] = allocation'[c][q].game
    BY <1>1 DEF RecordsOfOneGame
  <2>1. CASE c = d
    BY <2>1, <1>3, <1>4, <1>6, <1>10 DEF DailyInv, RecordsOfOneGame
  <2>2. CASE c # d
    BY <2>2, <1>6, <1>10 DEF DailyInv, RecordsOfOneGame
  <2>3. QED
    BY <2>1, <2>2
<1>14. OnePaidEntryPerPlayer'
  BY <1>1 DEF DailyInv, OnePaidEntryPerPlayer
<1>15. ClaimsBacked'
  <2> SUFFICES ASSUME NEW c \in Date, NEW q \in Player, claim'[c][q] # NULL
               PROVE  /\ prize'[c].finalized
                      /\ allocation'[c][q] = claim'[c][q]
                      /\ submission[c][q] = claim'[c][q].game
    BY <1>1 DEF ClaimsBacked
  <2>1. CASE c = d /\ q = p
    BY <2>1, <1>1, <1>4, <1>6, <1>10 DEF DailyInv, ShapeOK
  <2>2. CASE ~(c = d /\ q = p)
    <3>1. claim'[c][q] = claim[c][q]
      BY <2>2, <1>1 DEF DailyInv, ShapeOK
    <3>2. QED
      BY <3>1, <1>7, <1>10 DEF DailyInv, ClaimsBacked
  <2>3. QED
    BY <2>1, <2>2
<1>16. DailyInv'
  BY <1>11, <1>12, <1>13, <1>14, <1>15 DEF DailyInv
<1>17. Escrow!Pay(d, p)
  <2>1. claim'[d][p] = a
    BY <1>1 DEF DailyInv, ShapeOK
  <2>2. [c \in Date |-> prize'[c].rewardPool] =
          [[c \in Date |-> prize[c].rewardPool] EXCEPT ![d] = @ - a.amount]
    BY <1>1, <1>8, <1>10
  <2>3. QED
    BY <1>1, <1>2, <2>1, <2>2 DEF Escrow!Pay
<1>18. QED
  BY <1>7, <1>16, <1>17

-----------------------------------------------------------------------------
\* The entry of a day fills the pot of the day.
LEMMA StartFunds ==
  ASSUME DailyInv, NEW p \in Player, NEW g \in GameId, NEW d \in Date, NEW fee \in DailyFee,
         StartDailyGame(p, g, d, fee)
  PROVE  Escrow!Fund(d)
<1> DEFINE pot == [c \in Date |-> prize[c].rewardPool]
           part == SplitFee(DailyBps, fee)["DAILY"]
<1>1. /\ prize' = [prize EXCEPT ![d] = AddDailyPoolEntry(@, fee, SplitFee(DailyBps, fee))]
      /\ UNCHANGED claim
  BY DEF StartDailyGame
<1>2. part \in Nat
  BY SplitNat, DailyAssumption
<1>3. PICK S : prize \in [Date -> PrizeRecord(S)]
  BY DEF DailyInv, ShapeOK
<1>4. \A c \in Date : prize'[c].rewardPool =
                        IF c = d THEN prize[d].rewardPool + part ELSE prize[c].rewardPool
  BY <1>1, <1>3 DEF AddDailyPoolEntry
<1>5. prize[d].rewardPool \in Nat
  BY <1>3 DEF PrizeRecord
<1>6. /\ pot' = [pot EXCEPT ![d] = pot'[d]]
      /\ pot'[d] >= pot[d]
  <2>1. pot' = [c \in Date |-> prize'[c].rewardPool]
    OBVIOUS
  <2>2. pot'[d] = pot[d] + part /\ \A c \in Date : c # d => pot'[c] = pot[c]
    BY <1>4, <2>1
  <2>3. pot[d] \in Nat
    BY <1>5
  <2>4. pot'[d] >= pot[d]
    BY <2>2, <2>3, <1>2
  <2> HIDE DEF pot
  <2>5. pot = [c \in Date |-> pot[c]] /\ pot' = [c \in Date |-> pot'[c]]
    BY DEF pot
  <2>6. pot' = [pot EXCEPT ![d] = pot'[d]]
    BY <2>2, <2>5
  <2>7. QED
    BY <2>4, <2>6
<1>7. QED
  BY <1>1, <1>6 DEF Escrow!Fund

\* Every step keeps the invariant, the recorded allocations and the escrow.
LEMMA DailyStep ==
  ASSUME DailyInv, [DailyNext]_<<stateVars, dailyVars>>
  PROVE  /\ DailyInv'
         /\ \A c \in Date, q \in Player :
              allocation[c][q] # NULL => allocation'[c][q] = allocation[c][q]
         /\ \/ Escrow!Next
            \/ UNCHANGED <<[d \in Date |-> prize[d].rewardPool], claim>>
<1>1. ASSUME NEW p \in Player, NEW g \in GameId, NEW d \in Date, NEW fee \in DailyFee,
             StartDailyGame(p, g, d, fee)
      PROVE  DailyInv' /\ Escrow!Next /\ UNCHANGED allocation
  BY <1>1, StartInv, StartFunds DEF Escrow!Next, StartDailyGame
<1>2. ASSUME NEW p \in Player, NEW g \in GameId, NEW now \in Time, NEW r \in Result,
             SubmitDailyResult(p, g, now, r)
      PROVE  DailyInv' /\ UNCHANGED <<allocation, prize, claim>>
  BY <1>2, SubmitInv DEF SubmitDailyResult
<1>3. ASSUME NEW p \in Player, NEW d \in Date, NEW now \in Time, ClaimDailyReward(p, d, now)
      PROVE  /\ DailyInv' /\ Escrow!Next
             /\ \A c \in Date, q \in Player :
                  allocation[c][q] # NULL => allocation'[c][q] = allocation[c][q]
  BY <1>3, ClaimInv DEF Escrow!Next
<1>4. CASE UNCHANGED <<stateVars, dailyVars>>
  <2>1. UNCHANGED <<session, attempt, submission, prize, board, allocation, claim>>
    BY <1>4 DEF stateVars, dailyVars
  <2>2. ShapeOK'
    <3>1. \E S : prize' \in [Date -> PrizeRecord(S)]
      BY <2>1 DEF DailyInv, ShapeOK
    <3>2. QED
      BY <2>1, <3>1 DEF DailyInv, ShapeOK
  <2>3. QED
    BY <2>1, <2>2 DEF DailyInv, SessionsPaid, RecordsOfOneGame, OnePaidEntryPerPlayer, ClaimsBacked
<1>5. QED
  BY <1>1, <1>2, <1>3, <1>4 DEF DailyNext

-----------------------------------------------------------------------------
(* The money of a day. *)

\* The four shares of a fee, each rounded down, lose less than one unit each.
LEMMA SplitDust ==
  ASSUME NEW fee \in Nat
  PROVE  LET split == SplitFee(DailyBps, fee)
         IN /\ split["DAILY"] + TreasuryPart(split) <= fee
            /\ split["DAILY"] + TreasuryPart(split) >= fee - MaxDust
BY DEF SplitFee, DailyBps, PoolId, BpsAmount, BpsDenominator, TreasuryPart, MaxDust

\* What the claims of a day were paid is a number, which a first claim of a
\* player raises by its amount.
LEMMA ClaimedOnAfter ==
  ASSUME DailyInv, NEW c \in Date
  PROVE  /\ ClaimedOn(c) \in Nat
         /\ claim' = claim => ClaimedOn(c)' = ClaimedOn(c)
         /\ \A d \in Date, p \in Player, a \in Allocation :
              claim[d][p] = NULL /\ claim' = [claim EXCEPT ![d][p] = a] =>
                ClaimedOn(c)' = ClaimedOn(c) + IF c = d THEN a.amount ELSE 0
<1>. DEFINE paid == [p \in Player |-> IF claim[c][p] = NULL THEN 0 ELSE claim[c][p].amount]
<1>1. claim \in [Date -> [Player -> Allocation \cup {NULL}]]
  BY DEF DailyInv, ShapeOK
<1>2. \A p \in Player : paid[p] \in Nat
  BY <1>1 DEF Allocation
<1>3. IsFiniteSet(Player)
  BY StateAssumption
<1>4. ClaimedOn(c) \in Nat
  <2>. HIDE DEF paid
  <2>1. SumOver(paid, Player) \in Nat
    BY <1>2, <1>3, SumNat
  <2>. QED
    BY <2>1 DEF ClaimedOn, paid
<1>5. ASSUME claim' = claim
      PROVE  ClaimedOn(c)' = ClaimedOn(c)
  BY <1>5 DEF ClaimedOn
<1>6. ASSUME NEW d \in Date, NEW p \in Player, NEW a \in Allocation,
             claim[d][p] = NULL, claim' = [claim EXCEPT ![d][p] = a]
      PROVE  ClaimedOn(c)' = ClaimedOn(c) + IF c = d THEN a.amount ELSE 0
  <2>. DEFINE then == [q \in Player |-> IF claim'[c][q] = NULL THEN 0 ELSE claim'[c][q].amount]
  <2>1. a # NULL /\ a.amount \in Nat
    BY DailyAssumption DEF Allocation
  <2>2. CASE c # d
    <3>1. claim'[c] = claim[c]
      BY <1>1, <1>6, <2>2
    <3>. QED
      BY <1>4, <2>2, <3>1 DEF ClaimedOn
  <2>3. CASE c = d
    <3>1. then[p] = a.amount /\ paid[p] = 0
      BY <1>1, <1>6, <2>1, <2>3
    <3>2. \A q \in Player \ {p} : then[q] = paid[q]
      BY <1>1, <1>6, <2>3
    <3>3. \A q \in Player : then[q] \in Int
      BY <1>2, <2>1, <3>1, <3>2
    <3>4. SumOver(then, Player) = SumOver(paid, Player) - paid[p] + then[p]
      <4>. HIDE DEF paid, then
      <4>1. \A q \in Player : paid[q] \in Int
        BY <1>2
      <4>. QED
        BY <1>3, <3>2, <3>3, <4>1, SumUpdate
    <3>5. ClaimedOn(c)' = SumOver(then, Player) /\ ClaimedOn(c) = SumOver(paid, Player)
      BY DEF ClaimedOn
    <3>. HIDE DEF paid, then
    <3>. QED
      BY <1>4, <2>1, <2>3, <3>1, <3>4, <3>5
  <2>. QED
    BY <2>2, <2>3
<1>. QED
  BY <1>4, <1>5, <1>6

\* An entry brings its reward share, which its fees account for but for dust.
LEMMA StartAccounted ==
  ASSUME DailyInv, PrizeAccounted,
         NEW p \in Player, NEW g \in GameId, NEW d \in Date, NEW fee \in DailyFee,
         StartDailyGame(p, g, d, fee)
  PROVE  PrizeAccounted'
<1>. DEFINE split == SplitFee(DailyBps, fee)
<1>1. prize' = [prize EXCEPT ![d] = AddDailyPoolEntry(@, fee, split)] /\ claim' = claim
  BY DEF StartDailyGame
<1>2. PICK S : prize \in [Date -> PrizeRecord(S)]
  BY DEF DailyInv, ShapeOK
<1>3. /\ fee \in Nat /\ split["DAILY"] \in Nat /\ TreasuryPart(split) \in Nat
      /\ split["DAILY"] + TreasuryPart(split) <= fee
      /\ split["DAILY"] + TreasuryPart(split) >= fee - MaxDust
  BY DailyAssumption, SplitNat, SplitDust
<1>. SUFFICES ASSUME NEW c \in Date
              PROVE  /\ prize'[c].rewardPool + ClaimedOn(c)' <= Contributed(c)'
                     /\ prize'[c].rewardPool + ClaimedOn(c)'
                          >= Contributed(c)' - MaxDust * prize'[c].entryCount
  BY DEF PrizeAccounted, MaxDust
<1>4. ClaimedOn(c) \in Nat /\ ClaimedOn(c)' = ClaimedOn(c)
  BY <1>1, ClaimedOnAfter
<1>5. /\ prize[c].rewardPool + ClaimedOn(c) <= Contributed(c)
      /\ prize[c].rewardPool + ClaimedOn(c) >= Contributed(c) - MaxDust * prize[c].entryCount
  BY DEF PrizeAccounted
<1>6. /\ prize[c].rewardPool \in Nat /\ prize[c].grossFees \in Nat
      /\ prize[c].treasuryFees \in Nat /\ prize[c].entryCount \in Nat
  BY <1>2 DEF PrizeRecord
<1>7. CASE c # d
  BY <1>1, <1>2, <1>4, <1>5, <1>7 DEF Contributed
<1>8. CASE c = d
  <2>1. /\ prize'[c].rewardPool = prize[c].rewardPool + split["DAILY"]
        /\ prize'[c].grossFees = prize[c].grossFees + fee
        /\ prize'[c].treasuryFees = prize[c].treasuryFees + TreasuryPart(split)
        /\ prize'[c].entryCount = prize[c].entryCount + 1
    BY <1>1, <1>2, <1>8 DEF AddDailyPoolEntry
  <2>. HIDE DEF split
  <2>. QED
    BY <1>3, <1>4, <1>5, <1>6, <2>1 DEF Contributed, MaxDust
<1>. QED
  BY <1>7, <1>8

\* A claim moves its amount from what the day still holds to what it has paid.
LEMMA ClaimAccounted ==
  ASSUME DailyInv, PrizeAccounted, NEW p \in Player, NEW d \in Date, NEW now \in Time,
         ClaimDailyReward(p, d, now)
  PROVE  PrizeAccounted'
<1>1. PICK a \in Allocation, distributed \in {Distributed(Summary(board[d], prize[d].rewardPool))} :
        /\ claim[d][p] = NULL
        /\ prize' = [prize EXCEPT ![d] = PaidOut(@, a.amount, distributed)]
        /\ claim' = [claim EXCEPT ![d][p] = a]
  BY DEF ClaimDailyReward, Unclaimed
<1>2. PICK S : prize \in [Date -> PrizeRecord(S)]
  BY DEF DailyInv, ShapeOK
<1>. SUFFICES ASSUME NEW c \in Date
              PROVE  /\ prize'[c].rewardPool + ClaimedOn(c)' <= Contributed(c)'
                     /\ prize'[c].rewardPool + ClaimedOn(c)'
                          >= Contributed(c)' - MaxDust * prize'[c].entryCount
  BY DEF PrizeAccounted, MaxDust
<1>3. ClaimedOn(c) \in Nat /\ ClaimedOn(c)' = ClaimedOn(c) + IF c = d THEN a.amount ELSE 0
  BY <1>1, ClaimedOnAfter
<1>4. /\ prize[c].rewardPool + ClaimedOn(c) <= Contributed(c)
      /\ prize[c].rewardPool + ClaimedOn(c) >= Contributed(c) - MaxDust * prize[c].entryCount
  BY DEF PrizeAccounted
<1>5. a.amount \in Nat /\ prize[c].rewardPool \in Nat
  BY <1>2 DEF PrizeRecord, Allocation
<1>6. CASE c # d
  BY <1>1, <1>2, <1>3, <1>4, <1>6 DEF Contributed
<1>7. CASE c = d
  <2>1. /\ prize'[c].rewardPool = prize[c].rewardPool - a.amount
        /\ prize'[c].grossFees = prize[c].grossFees
        /\ prize'[c].treasuryFees = prize[c].treasuryFees
        /\ prize'[c].entryCount = prize[c].entryCount
    BY <1>1, <1>2, <1>7 DEF PaidOut
  <2>. QED
    BY <1>3, <1>4, <1>5, <1>7, <2>1 DEF Contributed
<1>. QED
  BY <1>6, <1>7

\* Every step keeps the account of every day.
LEMMA AccountedStep ==
  ASSUME DailyInv, PrizeAccounted, [DailyNext]_<<stateVars, dailyVars>>
  PROVE  PrizeAccounted'
<1>1. ASSUME NEW p \in Player, NEW g \in GameId, NEW d \in Date, NEW fee \in DailyFee,
             StartDailyGame(p, g, d, fee)
      PROVE  PrizeAccounted'
  BY <1>1, StartAccounted
<1>2. ASSUME NEW p \in Player, NEW d \in Date, NEW now \in Time, ClaimDailyReward(p, d, now)
      PROVE  PrizeAccounted'
  BY <1>2, ClaimAccounted
<1>3. ASSUME UNCHANGED <<prize, claim>>
      PROVE  PrizeAccounted'
  BY <1>3 DEF PrizeAccounted, Contributed, ClaimedOn
<1>4. ASSUME NEW p \in Player, NEW g \in GameId, NEW now \in Time, NEW r \in Result,
             SubmitDailyResult(p, g, now, r)
      PROVE  UNCHANGED <<prize, claim>>
  BY <1>4 DEF SubmitDailyResult
<1>5. UNCHANGED <<stateVars, dailyVars>> => UNCHANGED <<prize, claim>>
  BY DEF dailyVars
<1>. QED
  BY <1>1, <1>2, <1>3, <1>4, <1>5 DEF DailyNext

-----------------------------------------------------------------------------
\* In every reachable state a day's board ranks a player at most once, for the
\* game the player paid to enter that day.
THEOREM OneEntryAlways == DailySpec => []OnePaidEntryPerPlayer
<1>1. DailyInit => DailyInv
  BY DailyInitInv
<1>2. DailyInv /\ [DailyNext]_<<stateVars, dailyVars>> => DailyInv'
  BY DailyStep
<1>3. DailyInv => OnePaidEntryPerPlayer
  BY DEF DailyInv
<1>4. QED
  BY <1>1, <1>2, <1>3, PTL DEF DailySpec

\* In every reachable state a paid claim is the recorded allocation of a
\* finalized day, for the result its player submitted.
THEOREM ClaimsAlwaysBacked == DailySpec => []ClaimsBacked
<1>1. DailyInit => DailyInv
  BY DailyInitInv
<1>2. DailyInv /\ [DailyNext]_<<stateVars, dailyVars>> => DailyInv'
  BY DailyStep
<1>3. DailyInv => ClaimsBacked
  BY DEF DailyInv
<1>4. QED
  BY <1>1, <1>2, <1>3, PTL DEF DailySpec

\* In every reachable state the reward pool of a day and what its winners were
\* paid are the reward shares of the day's entries, up to the rounding of each.
THEOREM PrizeAlwaysAccounted == DailySpec => []PrizeAccounted
<1>1. DailyInit => DailyInv /\ PrizeAccounted
  <2>. SUFFICES ASSUME DailyInit PROVE DailyInv /\ PrizeAccounted
    OBVIOUS
  <2>1. DailyInv
    BY DailyInitInv
  <2>2. ASSUME NEW d \in Date
        PROVE  ClaimedOn(d) = 0
    <3>. DEFINE paid == [p \in Player |-> IF claim[d][p] = NULL THEN 0 ELSE claim[d][p].amount]
    <3>1. \A p \in Player : paid[p] = 0
      BY DEF DailyInit, DailyRecordsInit
    <3>. HIDE DEF paid
    <3>2. SumOver(paid, Player) = 0
      BY <3>1, StateAssumption, SumZero
    <3>. QED
      BY <3>2 DEF ClaimedOn, paid
  <2>. QED
    BY <2>1, <2>2
    DEF PrizeAccounted, Contributed, DailyInit, DailyRecordsInit, NoPrize, MaxDust
<1>2. DailyInv /\ PrizeAccounted /\ [DailyNext]_<<stateVars, dailyVars>> =>
        DailyInv' /\ PrizeAccounted'
  BY DailyStep, AccountedStep
<1>. QED
  BY <1>1, <1>2, PTL DEF DailySpec

\* A recorded allocation never changes.
THEOREM AllocationsNeverChange == DailySpec => AllocationsImmutable
<1>1. DailyInit => DailyInv
  BY DailyInitInv
<1>2. DailyInv /\ [DailyNext]_<<stateVars, dailyVars>> =>
        /\ DailyInv'
        /\ [\A d \in Date, p \in Player :
              allocation[d][p] # NULL => allocation'[d][p] = allocation[d][p]]_allocation
  BY DailyStep
<1>3. QED
  BY <1>1, <1>2, PTL DEF DailySpec, AllocationsImmutable

\* The daily competition implements the prize escrow: every entry funds a pot
\* or leaves it alone, and every claim is the first payment of its player, out
\* of the pot of its day.
THEOREM DailyImplementsEscrow == DailySpec => EscrowSpec
<1>1. DailyInit => DailyInv
  BY DailyInitInv
<1>2. DailyInit => Escrow!Init
  BY DEF DailyInit, DailyRecordsInit, NoPrize, Escrow!Init
<1>3. DailyInv /\ [DailyNext]_<<stateVars, dailyVars>> =>
        /\ DailyInv'
        /\ [Escrow!Next]_<<[d \in Date |-> prize[d].rewardPool], claim>>
  BY DailyStep
<1>4. DailySpec => Escrow!Init /\ [][Escrow!Next]_<<[d \in Date |-> prize[d].rewardPool], claim>>
  BY <1>1, <1>2, <1>3, PTL DEF DailySpec
<1>5. QED
  BY <1>4, PTL DEF EscrowSpec, Escrow!Spec
===============================================================================
