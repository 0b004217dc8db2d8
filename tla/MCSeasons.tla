------------------------------ MODULE MCSeasons ------------------------------
(***************************************************************************)
(* The weekly competition and classic mode for TLC.  A behaviour is one of  *)
(* three: two players in the runs and claims of two weeks; one player who   *)
(* plays, logs in and redeems over three days of any order; two players in  *)
(* the games and claims of two months.                                     *)
(***************************************************************************)
EXTENDS WeeklyProperties, ClassicProperties

VARIABLE scene

seasonsVars == <<scene, stateVars, weeklyVars, pointsVars, seasonVars>>

\* Two participants activate the rewards; both win, one per tier.
SmallConfig ==
  [minParticipants |-> 2, reward |-> 100, minWinners |-> 1, maxWinners |-> 2,
   tiers |-> <<[size |-> 50, share |-> 6000, kind |-> "exponential"],
               [size |-> 50, share |-> 4000, kind |-> "equal"]>>]

\* A streak of two days earns the bonus.
TwoDays == <<1, 2>>

\* Ids that spell the players' own addresses, so that claims succeed.
SpellingIds == [g \in GameId |-> g]

-----------------------------------------------------------------------------
WeekDays == {3, 6, 9}
\* In week 10, whose id has a digit more.
VeryLate == 42
PointDays == {6, 8, 10}
MonthDays == {5, 7}

Weeks ==
  /\ \/ \E p \in Player, g \in GameId, now \in WeekDays : StartWeeklyGame(p, g, now)
     \/ \E p \in Player, g \in GameId, now \in WeekDays, score \in RunScore :
          SubmitWeeklyResult(p, g, now, score)
     \/ \E p \in Player, w \in Week : ClaimWeeklyReward(p, w, 6)
     \/ \E p \in Player : ClaimWeeklyReward(p, 0, VeryLate)
  /\ UNCHANGED <<pointsVars, seasonVars>>

Points ==
  /\ \/ \E fee \in ClassicFee : StartClassicGame(1, 1, fee)
     \/ \E now \in PointDays, score \in ClassicScore \ {0} : SubmitClassicResult(1, 1, now, score)
     \/ UNCHANGED seasonVars /\ \E now \in PointDays :
          ClaimDailyLoginReward(1, now) \/ \E burn \in Burn : RedeemClassicPoints(1, burn, now)
  /\ UNCHANGED weeklyVars

Months ==
  /\ \/ \E p \in Player, g \in GameId : StartClassicGame(p, g, 20)
     \/ \E p \in Player, g \in GameId, now \in MonthDays, score \in {0, 48} :
          SubmitClassicResult(p, g, now, score)
     \/ \E p \in Player, m \in Month, now \in MonthDays : ClaimMonthlyReward(p, m, now)
  /\ UNCHANGED weeklyVars

SeasonsInit ==
  /\ scene \in {"weeks", "points", "months"}
  /\ StateInit /\ WeeklyRecordsInit /\ PointsRecordsInit /\ SeasonRecordsInit

SeasonsNext ==
  /\ \/ scene = "weeks" /\ Weeks
     \/ scene = "points" /\ Points
     \/ scene = "months" /\ Months
  /\ UNCHANGED scene

SeasonsSpec == SeasonsInit /\ [][SeasonsNext]_seasonsVars

-----------------------------------------------------------------------------
\* Both competitions that are claimed from their boards implement the abstract
\* escrow: nobody is paid twice, or more than the pool holds, whichever weeks and
\* months share it.
SeasonEscrowsSpec == WeeklyEscrowSpec /\ MonthlyEscrowSpec
=============================================================================
