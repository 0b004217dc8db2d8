----------------------------- MODULE WeeklyBlitz -----------------------------
(***************************************************************************)
(* The timed weekly competition: a few paid runs per player and UTC day,   *)
(* scores that add up over the week, one leaderboard and one metadata      *)
(* record per week, and claims that are paid out of a pool all the weeks   *)
(* share.                                                                  *)
(*                                                                         *)
(* A board value is the protobuf message LeaderboardEntry.  A claim reads  *)
(* its first twenty bytes as the address of the player, and they are the   *)
(* start of the game id: WeekSpells says whose address a game id spells,   *)
(* which is nobody's unless the id was made for it.                        *)
(***************************************************************************)
EXTENDS ArcadeState, RewardEngine

CONSTANTS
  WeekLength, EpochOffset,  \* a week, and the start of week 0, in units of Time
  WeeklyFee,                \* WEEKLY_BLITZ_FEE
  RunsPerDay,               \* WEEKLY_BLITZ_RUNS_PER_DAY
  Duration,                 \* WEEKLY_BLITZ_DURATION_SECONDS
  Grace,                    \* WEEKLY_BLITZ_SUBMIT_GRACE_SECONDS
  RunScore,                 \* the scores a replay may yield
  WeeklyConfig,             \* WEEKLY_BLITZ_CONFIG
  WeekReadLimit,            \* how many entries of the board a claim reads
  WeekSpells                \* the player whose address a game id spells, or NULL

ASSUME WeeklyAssumption ==
  /\ Player \subseteq Nat
  /\ WeekLength \in Nat \ {0} /\ EpochOffset \in Nat
  /\ WeekLength % DayLength = 0 /\ EpochOffset % DayLength = 0
  /\ \A t \in Time : t >= EpochOffset
  /\ WeeklyFee \in Nat /\ RunsPerDay \in Nat /\ Duration \in Nat \ {0} /\ Grace \in Nat
  /\ RunScore \subseteq Nat
  /\ WeeklyConfig \in RewardConfig
  /\ WeekReadLimit \in Nat \ {0}
  /\ WeekSpells \in [GameId -> Player \cup {NULL}]
  /\ NULL \notin [total : Nat, best : Nat, runs : Nat, updated : Nat]
  /\ NULL \notin [rank : Nat, amount : Nat]

VARIABLES
  runs,             \* WeeklyBlitzDailyTracking.officialRunsUsed by day and player
  weekMeta,         \* WeeklyBlitzPool by week
  weekScore,        \* WeeklyBlitzPlayerScore by week and player, or NULL
  weekBoard,        \* the leaderboard of each week, a set of entries
  weekClaim,        \* the claim record by week and player, or NULL
  weekAllocation    \* the allocation records of each week

weeklyVars == <<runs, weekMeta, weekScore, weekBoard, weekClaim, weekAllocation>>

-----------------------------------------------------------------------------
\* getWeekId: weeks begin on Monday, so week 0 begins EpochOffset after time 0.
WeekOf(now) == (now - EpochOffset) \div WeekLength

Week == {WeekOf(t) : t \in Time}

WeekEntry == [player : Player, score : Nat, game : GameId, ended : Nat]

\* The order of the board's keys: the score inverted, then the address.
WeekBefore(e, f) == e.score > f.score \/ (e.score = f.score /\ e.player < f.player)

WeekRank(w, e) == 1 + Cardinality({f \in weekBoard[w] : WeekBefore(f, e)})

\* What a claim reads of a week's board.
ReadEntries(w) == {e \in weekBoard[w] : WeekRank(w, e) <= WeekReadLimit}

\* The total a player's next run is added to.
PreviousTotal(w, p) == IF weekScore[w][p] = NULL THEN 0 ELSE weekScore[w][p].total

\* Mutant: the old entry stays.
BoardKeepingOld(entries, entry, previous) ==
  {e \in entries : e.player # entry.player \/ e.score # entry.score} \cup {entry}

\* What one write leaves of a board: StateWrite applies its sets and then its
\* deletes, and the key of the player's previous total is deleted.
BoardAfter(entries, entry, previous) ==
  {e \in {f \in entries : f.player # entry.player \/ f.score # entry.score} \cup {entry} :
     ~(previous > 0 /\ e.player = entry.player /\ e.score = previous)}

\* The player's score record after one more run.
ScoreAfter(record, score, now) ==
  IF record = NULL THEN [total |-> score, best |-> score, runs |-> 1, updated |-> now]
  ELSE [total |-> record.total + score, best |-> Max({record.best, score}),
        runs |-> record.runs + 1, updated |-> now]

-----------------------------------------------------------------------------
RunsRemain(p, d) == runs[d][p] < RunsPerDay

\* DeliverMessageStartWeeklyGame.  Day and week are those of the transaction.
StartWeeklyGame(p, g, now) ==
  LET d == DateOf(now)
      w == WeekOf(now)
      split == SplitFee(WeeklyBps, WeeklyFee)
  IN /\ RunsRemain(p, d)
     /\ ChargeEntry(p, WeeklyFee, split)
     /\ weekMeta' = [weekMeta EXCEPT ![w] = [entryCount |-> @.entryCount + 1,
                                             grossFees |-> @.grossFees + WeeklyFee,
                                             prizePool |-> @.prizePool + split["WEEKLY"]]]
     /\ session' = [session EXCEPT ![g] = NewSession(p, "weekly", w, now + Duration)]
     /\ runs' = [runs EXCEPT ![d][p] = @ + 1]
     /\ stats' = CountGame(p, "daily")
     /\ UNCHANGED <<weekScore, weekBoard, weekClaim, weekAllocation>>

\* The timer of a session, with its grace for the submission.
WithinTimer(s, now) == s.expires > 0 => now <= s.expires + Grace

\* DeliverMessageSubmitGameResult for a weekly session.  The run counts for the
\* week it was started in, whatever week it is submitted in.
SubmitWeeklyResult(p, g, now, score) ==
  LET w == session[g].period
      new == ScoreAfter(weekScore[w][p], score, now)
      entry == [player |-> p, score |-> new.total, game |-> g, ended |-> now]
  IN /\ OwnsActiveSession(p, g)
     /\ session[g].mode = "weekly"
     /\ WithinTimer(session[g], now)
     /\ session' = [session EXCEPT ![g] = CompletedSession(@)]
     /\ stats' = CountGame(p, "completed")
     /\ weekScore' = [weekScore EXCEPT ![w][p] = new]
     /\ weekBoard' = [weekBoard EXCEPT ![w] = BoardAfter(@, entry, PreviousTotal(w, p))]
     /\ UNCHANGED <<account, pool, treasury, runs, weekMeta, weekClaim, weekAllocation>>

\* Mutant: the claim record is not looked at.
WeekClaimUnchecked(w, p) == TRUE

WeekUnclaimed(w, p) == weekClaim[w][p] = NULL

\* The ranks at which a claim finds p's address on the board of week w.
RanksFound(p, w) == {WeekRank(w, e) : e \in {f \in ReadEntries(w) : WeekSpells[f.game] = p}}

\* The ids of weeks are compared as texts, week_10 before week_9: the longer of two
\* numbers is cut to the length of the other.
Digits(n) == CHOOSE d \in 1 .. n + 1 : n < 10 ^ d /\ (d = 1 \/ 10 ^ (d - 1) <= n)

WeekIdBefore(w, v) ==
  LET longer == Digits(w) - Digits(v)
  IN \/ longer >= 0 /\ w \div 10 ^ longer < v
     \/ longer < 0 /\ w <= v \div 10 ^ (-longer)

\* DeliverMessageClaimWeeklyBlitzReward.  The distribution is computed again by
\* every claim, from what the shared pool then holds.
ClaimWeeklyReward(p, w, now) ==
  LET n == Cardinality(ReadEntries(w))
      reward == Rewards(WeeklyConfig, n, pool["WEEKLY"])
      found == RanksFound(p, w) \cap RewardedRanks(WeeklyConfig, n)
      rank == Min(found)
  IN /\ WeekIdBefore(w, WeekOf(now))
     /\ WeekUnclaimed(w, p)
     /\ pool["WEEKLY"] > 0
     /\ found # {}
     /\ PayFrom("WEEKLY", p, reward[rank])
     /\ weekClaim' = [weekClaim EXCEPT ![w][p] = [rank |-> rank, amount |-> reward[rank]]]
     /\ weekAllocation' = [weekAllocation EXCEPT
                             ![w] = @ \cup {[rank |-> rank, player |-> p,
                                             amount |-> reward[rank]]}]
     /\ UNCHANGED <<treasury, session, stats, runs, weekMeta, weekScore, weekBoard>>

-----------------------------------------------------------------------------
WeeklyRecordsInit ==
  LET none == [w \in Week |-> [p \in Player |-> NULL]]
  IN /\ runs = [d \in Day |-> [p \in Player |-> 0]]
     /\ weekMeta = [w \in Week |-> [entryCount |-> 0, grossFees |-> 0, prizePool |-> 0]]
     /\ weekScore = none
     /\ weekBoard = [w \in Week |-> {}]
     /\ weekClaim = none
     /\ weekAllocation = [w \in Week |-> {}]

WeeklyInit == StateInit /\ WeeklyRecordsInit

WeeklyNext ==
  \/ \E p \in Player, g \in GameId, now \in Time : StartWeeklyGame(p, g, now)
  \/ \E p \in Player, g \in GameId, now \in Time, score \in RunScore :
        SubmitWeeklyResult(p, g, now, score)
  \/ \E p \in Player, w \in Week, now \in Time : ClaimWeeklyReward(p, w, now)

WeeklySpec == WeeklyInit /\ [][WeeklyNext]_<<stateVars, weeklyVars>>
=============================================================================
