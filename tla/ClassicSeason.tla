---------------------------- MODULE ClassicSeason ----------------------------
(***************************************************************************)
(* Classic mode: paid games that earn points, enter the all-time board and *)
(* add up to a monthly total, and the claims of the monthly rewards.       *)
(*                                                                         *)
(* The monthly board is keyed by total and game id.  The key of a player's *)
(* last entry is found again through the player's record, whose slot holds *)
(* an id of exactly 32 bytes: shorter ids come back padded and longer ones *)
(* cut, so only the ids in FullGameId are the ones that were stored.       *)
(* As in Weekly Blitz a claim reads the address of a ranked player from    *)
(* bytes of the month and of the game id, here one after the other.        *)
(***************************************************************************)
EXTENDS ClassicPoints, RewardEngine

CONSTANTS
  MonthLength,     \* a month in units of Time
  ClassicFee,      \* the fees a start transaction may carry
  ClassicScore,    \* the scores a replay may yield
  FullGameId,      \* the game ids of exactly 32 bytes
  MaxTotal,        \* the largest total a record holds, in four bytes
  MonthlyConfig,   \* MONTHLY_COMPETITION_CONFIG
  MonthReadLimit,  \* how many entries of the board a claim reads
  MonthSpells      \* the player whose address month and game id spell, or NULL

ASSUME SeasonAssumption ==
  /\ MonthLength \in Nat \ {0}
  /\ ClassicFee \subseteq Nat \ {0} /\ ClassicScore \subseteq Nat
  /\ FullGameId \subseteq GameId
  /\ MaxTotal \in Nat
  /\ MonthlyConfig \in RewardConfig
  /\ MonthReadLimit \in Nat \ {0}
  /\ MonthSpells \in [GameId -> Player \cup {NULL}]
  /\ NULL \notin [rank : Nat, amount : Nat]
  /\ NULL \notin [score : Nat, game : GameId \cup {NULL}]

VARIABLES
  classicBoard,     \* the all-time leaderboard, a set of entries
  monthEntry,       \* KeyForMonthlyPlayerEntry by month and player, or NULL
  monthBoard,       \* the leaderboard of each month, a set of entries
  monthClaim,       \* the claim record by month and player, or NULL
  monthAllocation   \* the allocation records of each month

seasonVars == <<classicBoard, monthEntry, monthBoard, monthClaim, monthAllocation>>

-----------------------------------------------------------------------------
MonthOf(now) == now \div MonthLength

Month == {MonthOf(t) : t \in Time}

\* An entry of either board; its key is the score and the game.
BoardEntry == [player : Player, score : Nat, game : GameId, ended : Nat]

\* The board with an entry under its key.
Put(entries, entry) ==
  {e \in entries : e.score # entry.score \/ e.game # entry.game} \cup {entry}

\* The order of the board's keys: the score inverted, then the game id.
MonthBefore(e, f) == e.score > f.score \/ (e.score = f.score /\ e.game < f.game)

MonthRank(m, e) == 1 + Cardinality({f \in monthBoard[m] : MonthBefore(f, e)})

\* What a claim reads of a month's board.
MonthRead(m) == {e \in monthBoard[m] : MonthRank(m, e) <= MonthReadLimit}

\* What the slot for the game id gives back.
StoredGame(g) == IF g \in FullGameId THEN g ELSE NULL

\* The player's record of the month after one more game.
EntryAfter(record, g, score) ==
  [score |-> score + IF record = NULL THEN 0 ELSE record.score, game |-> StoredGame(g)]

\* Mutant: the entry of the last game stays.
MonthBoardKeepingOld(entries, entry, record) == Put(entries, entry)

\* What one write leaves of a board: StateWrite applies its sets and then its
\* deletes, and the key of the player's last entry is deleted.
MonthBoardAfter(entries, entry, record) ==
  {e \in Put(entries, entry) :
     record # NULL => ~(e.score = record.score /\ e.game = record.game)}

-----------------------------------------------------------------------------
\* DeliverMessageStartClassicGame: the fee is the transaction's own.
StartClassicGame(p, g, fee) ==
  /\ ChargeEntry(p, fee, SplitFee(ClassicBps, fee))
  /\ session' = [session EXCEPT ![g] = NewSession(p, "classic", 0, 0)]
  /\ stats' = CountGame(p, "classic")
  /\ UNCHANGED <<pointsVars, seasonVars>>

\* DeliverMessageSubmitGameResult for a classic session.  Day and month are
\* those of the submission, whenever the game was started.
SubmitClassicResult(p, g, now, score) ==
  LET m == MonthOf(now)
      entry == [player |-> p, score |-> score, game |-> g, ended |-> now]
      new == EntryAfter(monthEntry[m][p], g, score)
  IN /\ OwnsActiveSession(p, g)
     /\ session[g].mode = "classic"
     /\ new.score <= MaxTotal
     /\ session' = [session EXCEPT ![g] = CompletedSession(@)]
     /\ stats' = CountGame(p, "completed")
     /\ EarnClassicPoints(p, now, score)
     /\ classicBoard' = Put(classicBoard, entry)
     /\ monthEntry' = [monthEntry EXCEPT ![m][p] = new]
     /\ monthBoard' = [monthBoard EXCEPT
                         ![m] = MonthBoardAfter(@, [entry EXCEPT !.score = new.score],
                                                monthEntry[m][p])]
     /\ UNCHANGED <<account, pool, treasury, monthClaim, monthAllocation>>

MonthUnclaimed(m, p) == monthClaim[m][p] = NULL

\* The ranks at which a claim finds p's address on the board of month m.
MonthRanksFound(p, m) ==
  {MonthRank(m, e) : e \in {f \in MonthRead(m) : MonthSpells[f.game] = p}}

\* DeliverMessageClaimMonthlyReward.  The DAO pool that the handler also reads
\* is never used: the pool was compared with the reward before.
ClaimMonthlyReward(p, m, now) ==
  LET n == Cardinality(MonthRead(m))
      reward == Rewards(MonthlyConfig, n, pool["MONTHLY"])
      found == MonthRanksFound(p, m) \cap RewardedRanks(MonthlyConfig, n)
      rank == Min(found)
  IN /\ m < MonthOf(now)
     /\ MonthUnclaimed(m, p)
     /\ pool["MONTHLY"] > 0
     /\ found # {}
     /\ PayFrom("MONTHLY", p, reward[rank])
     /\ monthClaim' = [monthClaim EXCEPT ![m][p] = [rank |-> rank, amount |-> reward[rank]]]
     /\ monthAllocation' = [monthAllocation EXCEPT
                              ![m] = @ \cup {[rank |-> rank, player |-> p,
                                              amount |-> reward[rank]]}]
     /\ UNCHANGED <<treasury, session, stats, pointsVars, classicBoard, monthEntry, monthBoard>>

-----------------------------------------------------------------------------
SeasonRecordsInit ==
  LET none == [m \in Month |-> [p \in Player |-> NULL]]
  IN /\ classicBoard = {}
     /\ monthEntry = none
     /\ monthBoard = [m \in Month |-> {}]
     /\ monthClaim = none
     /\ monthAllocation = [m \in Month |-> {}]

ClassicInit == StateInit /\ PointsRecordsInit /\ SeasonRecordsInit

SeasonNext ==
  \/ \E p \in Player, g \in GameId, fee \in ClassicFee : StartClassicGame(p, g, fee)
  \/ \E p \in Player, g \in GameId, now \in Time, score \in ClassicScore :
        SubmitClassicResult(p, g, now, score)
  \/ \E p \in Player, m \in Month, now \in Time : ClaimMonthlyReward(p, m, now)

ClassicNext ==
  \/ SeasonNext
  \/ PointsNext /\ UNCHANGED seasonVars

\* The games and the monthly claims alone: logins and redemptions touch no board
\* and no part of the monthly pool.
SeasonSpec == ClassicInit /\ [][SeasonNext]_<<stateVars, pointsVars, seasonVars>>

ClassicSpec == ClassicInit /\ [][ClassicNext]_<<stateVars, pointsVars, seasonVars>>
=============================================================================
