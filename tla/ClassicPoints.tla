---------------------------- MODULE ClassicPoints ----------------------------
(***************************************************************************)
(* Classic points: what a classic game earns within a daily cap, the daily *)
(* login reward with its streak and its bonus, and the shop that burns     *)
(* points for tokens.                                                      *)
(***************************************************************************)
EXTENDS ArcadeState, Sequences

CONSTANTS
  PointsCap,          \* classicDailyPointsCap
  LoginRewardPoints,  \* dailyLoginRewardPoints, by day of the streak
  LoginBonusBps,      \* dailyLoginBonusBps
  RatePoints,         \* the shop pays RateCnpy tokens ...
  RateCnpy,           \* ... for RatePoints points
  MinRedeemPoints,
  RedeemStepPoints,
  Burn                \* how many points a redemption may name

ASSUME PointsAssumption ==
  /\ PointsCap \in Nat
  /\ LoginRewardPoints \in Seq(Nat) /\ Len(LoginRewardPoints) > 0
  /\ LoginBonusBps \in Nat \ {0}
  /\ RatePoints \in Nat \ {0} /\ RateCnpy \in Nat \ {0}
  /\ MinRedeemPoints \in Nat /\ RedeemStepPoints \in Nat \ {0}
  /\ Burn \subseteq Nat
  /\ NULL \notin [streak : Nat, reward : Nat, bonus : Nat]

VARIABLES
  points,      \* the points fields of PlayerStats
  ledger,      \* ClassicPointsDailyLedger.earnedPoints by day and player
  loginClaim,  \* DailyLoginClaim by day and player, or NULL
  redemption   \* the ClassicPointRedemption records

pointsVars == <<points, ledger, loginClaim, redemption>>

-----------------------------------------------------------------------------
\* calculateClassicPoints: what a score is worth, before the cap of the day.
GamePoints(score) == IF score < 64 THEN 0 ELSE Min({1000, score \div 24})

\* Mutant: the cap holds for every game on its own.
UncappedPoints(p, d, score) == Min({GamePoints(score), PointsCap})

\* The base points of a game: what the day's cap still leaves.
CappedPoints(p, d, score) == Min({GamePoints(score), Max({0, PointsCap - ledger[d][p]})})

\* Mutant: a bonus once won is paid on every later day.
LastingBonus(p, d) == IF points[p].bonusDate # NULL THEN LoginBonusBps ELSE 0

\* The bonus that a full streak earns for the games of the day it was claimed.
BonusBps(p, d) == IF points[p].bonusDate = d THEN LoginBonusBps ELSE 0

\* What a classic game adds: the bonus is on top of the capped points.
EarnedPoints(p, d, score) ==
  CappedPoints(p, d, score) + BpsAmount(CappedPoints(p, d, score), BonusBps(p, d))

\* The points fields after so many more points were earned.
Credited(record, more) ==
  [balance |-> record.balance + more, earned |-> record.earned + more,
   streak |-> record.streak, lastLogin |-> record.lastLogin, bonusDate |-> record.bonusDate]

\* The part of a classic submission that concerns points.
EarnClassicPoints(p, now, score) ==
  LET d == DateOf(now)
      more == EarnedPoints(p, d, score)
  IN /\ points' = [points EXCEPT ![p] = Credited(@, more)]
     /\ ledger' = [ledger EXCEPT ![d][p] = @ + CappedPoints(p, d, score)]
     /\ UNCHANGED <<loginClaim, redemption>>

\* Mutant: the streak grows whenever the player comes back.
UnbrokenStreak(p, d) ==
  IF points[p].streak >= Len(LoginRewardPoints) THEN 1 ELSE points[p].streak + 1

\* calculateNextStreak: the day after the last claim continues the streak, or
\* begins a new cycle; any other day begins again.
NextStreak(p, d) ==
  IF points[p].lastLogin = d - 1 /\ points[p].streak < Len(LoginRewardPoints)
  THEN points[p].streak + 1
  ELSE 1

\* DeliverMessageClaimDailyLoginReward.
ClaimDailyLoginReward(p, now) ==
  LET d == DateOf(now)
      streak == NextStreak(p, d)
      reward == LoginRewardPoints[streak]
      bonus == IF streak >= Len(LoginRewardPoints) THEN LoginBonusBps ELSE 0
  IN /\ loginClaim[d][p] = NULL
     /\ points' = [points EXCEPT ![p] = [balance |-> @.balance + reward,
                                         earned |-> @.earned + reward,
                                         streak |-> streak,
                                         lastLogin |-> d,
                                         bonusDate |-> IF bonus > 0 THEN d ELSE NULL]]
     /\ loginClaim' = [loginClaim EXCEPT
                         ![d][p] = [streak |-> streak, reward |-> reward, bonus |-> bonus]]
     /\ UNCHANGED <<stateVars, ledger, redemption>>

\* calculateRedeemPayout.
RedeemPayout(burn) == (burn * RateCnpy) \div RatePoints

\* validateRedemption.
RedemptionValid(p, burn) ==
  /\ burn >= MinRedeemPoints
  /\ burn % RedeemStepPoints = 0
  /\ burn <= points[p].balance
  /\ RedeemPayout(burn) > 0

\* The mirror after a redemption, whichever pool it is paid from.
MirrorAfterRedemption(payout) == [treasury EXCEPT !["SHOP"] = @ - payout]

\* DeliverMessageRedeemClassicPoints.  The record is keyed by the player, the
\* time and the points, so another one with the same key replaces it.
RedeemClassicPoints(p, burn, now) ==
  LET payout == RedeemPayout(burn)
      source == IF pool["SHOP"] >= payout THEN "SHOP" ELSE "DAO"
      record == [player |-> p, time |-> now, burned |-> burn, payout |-> payout]
  IN /\ RedemptionValid(p, burn)
     /\ treasury["SHOP"] >= payout
     /\ PayFrom(source, p, payout)
     /\ treasury' = MirrorAfterRedemption(payout)
     /\ points' = [points EXCEPT ![p].balance = @ - burn]
     /\ redemption' = {r \in redemption : r.player # p \/ r.time # now \/ r.burned # burn}
                        \cup {record}
     /\ UNCHANGED <<session, stats, ledger, loginClaim>>

-----------------------------------------------------------------------------
PointsRecordsInit ==
  /\ points = [p \in Player |-> [balance |-> 0, earned |-> 0, streak |-> 0,
                                 lastLogin |-> NULL, bonusDate |-> NULL]]
  /\ ledger = [d \in Day |-> [p \in Player |-> 0]]
  /\ loginClaim = [d \in Day |-> [p \in Player |-> NULL]]
  /\ redemption = {}

PointsNext ==
  \/ \E p \in Player, now \in Time : ClaimDailyLoginReward(p, now)
  \/ \E p \in Player, burn \in Burn, now \in Time : RedeemClassicPoints(p, burn, now)
=============================================================================
