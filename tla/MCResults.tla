------------------------------ MODULE MCResults ------------------------------
(* Three parts of the contract that share no state: the score of a game,        *)
(* replayed move by move; the rewards of every rank, over growing leaderboards; *)
(* and the registry of usernames.  A behaviour is of one of them; the others    *)
(* stand still in a state without steps.                                       *)
EXTENDS RewardEngine, Replay2048, UsernameRegistry

CONSTANTS PoolAmount, MaxParticipants

ASSUME PoolAssumption == PoolAmount \subseteq Nat

VARIABLES scene, config, participants, pool

leaderboardVars == <<config, participants, pool>>

resultsVars == <<scene, leaderboardVars, replayVars, vars>>

\* Two spellings of one name, another name, and one that is not valid.
FoldedNames == [n \in Name |-> IF n = "Ann" THEN "ann" ELSE n]

LeaderboardInit ==
  /\ config \in {MONTHLY_COMPETITION_CONFIG, WEEKLY_BLITZ_CONFIG}
  /\ participants = 0
  /\ pool \in PoolAmount

\* No leaderboard: there is no pool to join for.
NoLeaderboard ==
  /\ config = MONTHLY_COMPETITION_CONFIG
  /\ participants = 0
  /\ pool = 0

\* No game: a board with a single tile, which nobody moves.
NoGame ==
  /\ board = (CHOOSE spawn \in spawnTile(createEmptyBoard) : spawn.tile = 2).board
  /\ score = 0 /\ moveCount = 0 /\ fours = 0
  /\ maxMoves = 0
  /\ endedReason = STOP_REASON_PLAYER_STOPPED

\* Nobody has a name.
NoNames ==
  /\ identity = [p \in Player |-> NULL]
  /\ registration = [p \in Player |-> NULL]
  /\ lookup = [k \in Key |-> NULL]

ResultsInit ==
  \/ scene = "leaderboard" /\ LeaderboardInit /\ NoGame /\ NoNames
  \/ scene = "game" /\ NoLeaderboard /\ ReplayInit /\ NoNames
  \/ scene = "names" /\ NoLeaderboard /\ NoGame /\ Init

\* A further player enters the leaderboard.
Join ==
  /\ scene = "leaderboard"
  /\ participants < MaxParticipants
  /\ participants' = participants + 1
  /\ UNCHANGED <<scene, config, pool, replayVars, vars>>

Play == scene = "game" /\ ReplayNext /\ UNCHANGED <<scene, leaderboardVars, vars>>

Rename == scene = "names" /\ Next /\ UNCHANGED <<scene, leaderboardVars, replayVars>>

ResultsNext == Join \/ Play \/ Rename

ResultsSpec == ResultsInit /\ [][ResultsNext]_resultsVars

-----------------------------------------------------------------------------
Paid == RewardedRanks(config, participants)

\* Rounding, empty tiers and the cut at the number of winners never make the
\* engine promise more than the pool, nor keep any of it back.
RewardsExhaustPool ==
  LET reward == Rewards(config, participants, pool)
  IN Paid # {} =>
       /\ \A r \in Paid : reward[r] >= 0
       /\ SumOver(reward, Paid) = pool

\* The three places that cut the ranking into tiers agree: a player is shown a
\* tier exactly when its rank has a reward, and the boundaries shown for the
\* tiers are the ranks they pay.
TierViewsAgree ==
  LET rows == TierBoundaries(config, participants)
      ranks == [k \in DOMAIN config.tiers |-> RanksOf(config, participants, k) \cap Paid]
  IN /\ \A r \in 1 .. participants :
          PlayerTier(config, participants, r) = {k \in DOMAIN ranks : r \in ranks[k]}
     /\ \A row \in rows : row.startRank .. row.endRank = ranks[row.tier]
     /\ Paid = UNION {row.startRank .. row.endRank : row \in rows}

\* What a player is shown is what is paid, and it is the whole pool: the tiers are
\* cut in three places, and the rewards rounded, without a rank or a token lost.
RewardsAgree == RewardsExhaustPool /\ TierViewsAgree
=============================================================================
