-------------------------------- MODULE Arcade --------------------------------
(***************************************************************************)
(* The whole contract: the three modes, the points and the administration  *)
(* over the accounts, pools, mirror and sessions they share.  A game id    *)
(* belongs to no mode, so a start in one mode takes over the session that  *)
(* another mode is still playing.                                          *)
(***************************************************************************)
EXTENDS DailyProperties, WeeklyProperties, ClassicProperties, PoolAdmin

arcadeVars == <<stateVars, dailyVars, weeklyVars, pointsVars, seasonVars>>

ArcadeInit ==
  /\ StateInit
  /\ DailyRecordsInit
  /\ WeeklyRecordsInit
  /\ PointsRecordsInit
  /\ SeasonRecordsInit

\* What players send.
GameNext ==
  \/ DailyNext /\ UNCHANGED <<weeklyVars, pointsVars, seasonVars>>
  \/ WeeklyNext /\ UNCHANGED <<dailyVars, pointsVars, seasonVars>>
  \/ ClassicNext /\ UNCHANGED <<dailyVars, weeklyVars>>

\* DeliverTx: every message there is but the registration of a username, which
\* shares nothing with the others.
ArcadeNext ==
  \/ GameNext
  \/ AdminNext /\ UNCHANGED <<dailyVars, weeklyVars, pointsVars, seasonVars>>

ArcadeSpec == ArcadeInit /\ [][ArcadeNext]_arcadeVars

-----------------------------------------------------------------------------
\* The records of all the modes keep their shape, the daily cap of points and the
\* daily number of paid runs included, when the modes take over each other's games.
ArcadeTypeOK == DailyTypeOK /\ WeeklyTypeOK /\ ClassicTypeOK

\* Tokens move between accounts and pools and are never created, whatever
\* players and administrators send.
TokensNeverCreated == [][TotalTokens' <= TotalTokens]_arcadeVars

\* How far the mirror is from the pool it stands for.
Drift(i) == treasury[i] - pool[i]

\* How much more a prize pool holds than its records say is not paid yet.
DailyGap == pool["DAILY"] - SumOver([d \in Date |-> prize[d].rewardPool], Date)
WeeklyGap ==
  pool["WEEKLY"] + SumOver([w \in Week |-> PaidForWeek(w)], Week)
    - SumOver([w \in Week |-> weekMeta[w].prizePool], Week)

\* A step of a game that the DAO pool does not help out in.
UnaidedGameStep ==
  /\ <<session, stats, dailyVars, weeklyVars, pointsVars, seasonVars>>'
       # <<session, stats, dailyVars, weeklyVars, pointsVars, seasonVars>>
  /\ pool'["DAO"] = pool["DAO"]

\* Whatever an administrator took from a pool or put there, no game message makes
\* the books drift: GameTreasury stays as far from its pools as it was, unless the
\* DAO pool pays a redemption in place of the shop pool, and a prize pool moves
\* with what its records say is not paid yet, so that no contest pays more than
\* it collected.
GamesKeepBooks ==
  [][UnaidedGameStep => /\ \A i \in MirroredPool : Drift(i)' = Drift(i)
                        /\ DailyGap' = DailyGap /\ WeeklyGap' = WeeklyGap]_arcadeVars
=============================================================================
