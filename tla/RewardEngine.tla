----------------------------- MODULE RewardEngine -----------------------------
(***************************************************************************)
(* The distribution of a competition's prize pool over three tiers of      *)
(* winners.  Everything here is a pure function of a configuration c, the  *)
(* number n of participants and the amount of the pool; percentages are    *)
(* hundredths, which the code's floating-point products agree with up to   *)
(* the thousand participants a claim reads.                                *)
(***************************************************************************)
EXTENDS Sequences, Sums

Tier == [size : Nat, share : Nat, kind : {"exponential", "linear", "equal"}]

RewardConfig ==
  [minParticipants : Nat, reward : Nat, minWinners : Nat, maxWinners : Nat,
   tiers : Seq(Tier)]

MONTHLY_COMPETITION_CONFIG ==
  [minParticipants |-> 50, reward |-> 20, minWinners |-> 10, maxWinners |-> 100,
   tiers |-> <<[size |-> 2, share |-> 5000, kind |-> "exponential"],
               [size |-> 8, share |-> 3000, kind |-> "linear"],
               [size |-> 10, share |-> 2000, kind |-> "equal"]>>]

WEEKLY_BLITZ_CONFIG ==
  [minParticipants |-> 20, reward |-> 30, minWinners |-> 5, maxWinners |-> 50,
   tiers |-> <<[size |-> 5, share |-> 4000, kind |-> "exponential"],
               [size |-> 10, share |-> 3500, kind |-> "linear"],
               [size |-> 15, share |-> 2500, kind |-> "equal"]>>]

-----------------------------------------------------------------------------
\* Below the minimum of participants nothing is distributed.
RolledOver(c, n) == n < c.minParticipants

\* How many participants win, before any tier is filled.
TotalWinners(c, n) ==
  Min({c.maxWinners, Max({c.minWinners, (n * c.reward) \div 100})})

\* A tier's own size: a share of the participants, and at least one.
TierSize(c, n, k) == Max({1, (n * c.tiers[k].size) \div 100})

\* The last rank of tier k when so many win: the tiers follow each other until
\* the winners run out.
EndRank(c, n, winners, k) ==
  Min({winners, SumOver([j \in 1 .. k |-> TierSize(c, n, j)], 1 .. k)})

LastRank(c, n, k) == EndRank(c, n, Min({n, TotalWinners(c, n)}), k)

RanksOf(c, n, k) == LastRank(c, n, k - 1) + 1 .. LastRank(c, n, k)

\* The ranks that receive an allocation.
RewardedRanks(c, n) ==
  IF RolledOver(c, n) THEN {} ELSE 1 .. LastRank(c, n, Len(c.tiers))

\* The weight of rank r in a tier that ends at rank last.
Weight(kind, last, r) ==
  CASE kind = "exponential" -> (last - r + 1) * (last - r + 1)
    [] kind = "linear" -> last - r + 1
    [] kind = "equal" -> 1

\* distributeTierRewards: every rank's part of its tier's part of the pool,
\* each rounded down.
TierReward(c, n, pool, k, r) ==
  LET ranks == RanksOf(c, n, k)
      last == LastRank(c, n, k)
      tierPool == (pool * c.tiers[k].share) \div 10000
      weights == SumOver([q \in ranks |-> Weight(c.tiers[k].kind, last, q)], ranks)
  IN (tierPool * Weight(c.tiers[k].kind, last, r)) \div weights

\* The tier that holds rank r.
TierOf(c, n, r) == CHOOSE k \in DOMAIN c.tiers : r \in RanksOf(c, n, k)

\* Mutant: what rounding and empty tiers leave stays in the pool.
WithoutRemainder(c, n, pool) ==
  [r \in RewardedRanks(c, n) |-> TierReward(c, n, pool, TierOf(c, n, r), r)]

\* calculateRewardDistribution: the reward of every rank that has one.  The
\* first rank also takes what rounding and empty tiers leave.
Rewards(c, n, pool) ==
  LET paid == RewardedRanks(c, n)
      base == [r \in paid |-> TierReward(c, n, pool, TierOf(c, n, r), r)]
  IN [base EXCEPT ![1] = @ + Max({0, pool - SumOver(base, paid)})]

-----------------------------------------------------------------------------
\* getPlayerTier: the tier a player is shown, if any.  The winners are not cut at
\* the participants there are.
PlayerTier(c, n, r) ==
  IF RolledOver(c, n) \/ r > TotalWinners(c, n) THEN {}
  ELSE {k \in DOMAIN c.tiers : /\ EndRank(c, n, TotalWinners(c, n), k - 1) < r
                              /\ r <= EndRank(c, n, TotalWinners(c, n), k)}

\* getTierBoundaries: a row for each tier that is reached before the winners
\* run out.
TierBoundaries(c, n) ==
  LET winners == TotalWinners(c, n)
  IN IF RolledOver(c, n) THEN {}
     ELSE {[tier |-> k, startRank |-> EndRank(c, n, winners, k - 1) + 1,
            endRank |-> EndRank(c, n, winners, k)] :
             k \in {j \in DOMAIN c.tiers : EndRank(c, n, winners, j - 1) < winners}}
=============================================================================
