--------------------------- MODULE DailyCompetition ---------------------------
(***************************************************************************)
(* The paid daily challenge: one entry per player and UTC day, a prize     *)
(* record and a leaderboard per day, lazy finalization by the first claim  *)
(* after the day, and one claim per winner.                                *)
(*                                                                         *)
(* A date is the number of a UTC day.  The handlers ask of a time only     *)
(* whether a day has ended and, to break a tie, which of two results ended *)
(* first.                                                                  *)
(***************************************************************************)
EXTENDS ArcadeState, Sequences

CONSTANTS
  Date,       \* the UTC days an entry may name
  DailyFee,   \* the entry fees CheckTx lets through
  Result,     \* replayed results: [score, maxTile, moveCount]
  DailyMaxMoves,
  PayoutBps   \* basis points of each paid rank

ASSUME DailyAssumption ==
  /\ IsFiniteSet(Date) /\ Date \subseteq Nat
  /\ DailyFee \subseteq Nat
  /\ Result \subseteq [score : Nat, maxTile : Nat, moveCount : Nat]
  /\ DailyMaxMoves \in Nat
  /\ PayoutBps \in Seq(Nat) /\ Len(PayoutBps) > 0
  /\ NULL \notin [player : Player, game : GameId, rank : Nat, amount : Nat]

VARIABLES
  attempt,     \* DailyAttempt by date and player: the game id, or NULL
  submission,  \* DailySubmission by date and player: the game id, or NULL
  prize,       \* DailyPrizePool by date
  board,       \* the daily leaderboard of each date, a set of entries
  rankRow,     \* DailyRewardAllocation by date, rank and game id
  allocation,  \* the same record by date and player
  claim        \* DailyRewardClaim by date and player

dailyVars == <<attempt, submission, prize, board, rankRow, allocation, claim>>

-----------------------------------------------------------------------------
\* The fields of DailyPrizePool; an absent record decodes to zeroes.
NoPrize == [entryCount |-> 0, grossFees |-> 0, treasuryFees |-> 0, rewardPool |-> 0,
            finalized |-> FALSE, distributed |-> 0, leftover |-> 0]

Entry == [player : Player, game : GameId, score : Nat, maxTile : Nat,
          moveCount : Nat, ended : Nat]

Allocation == [player : Player, game : GameId, rank : Nat, amount : Nat]

\* What the leaderboard key spells: every field of an entry but the player.
SameKey(e, f) == [e EXCEPT !.player = f.player] = f

\* The order of the leaderboard keys: score and tile are stored inverted.
Before(e, f) ==
  \/ e.score > f.score
  \/ /\ e.score = f.score
     /\ \/ e.maxTile > f.maxTile
        \/ /\ e.maxTile = f.maxTile
           /\ \/ e.moveCount < f.moveCount
              \/ /\ e.moveCount = f.moveCount
                 /\ \/ e.ended < f.ended
                    \/ e.ended = f.ended /\ e.game < f.game

RankOn(entries, e) == 1 + Cardinality({f \in entries : Before(f, e)})

\* The entries that a read of the board limited to the paid ranks returns.
Eligible(entries) == {e \in entries : RankOn(entries, e) <= Len(PayoutBps)}

\* The sum of the first n entries of PayoutBps.
UsedBps(n) == SumOver(PayoutBps, 1 .. n)

\* calculateRenormalizedBpsAmount for rank k when n ranks are paid.
RankShare(total, k, n) ==
  IF PayoutBps[k] = 0 \/ UsedBps(n) = 0 THEN 0
  ELSE (total * PayoutBps[k]) \div UsedBps(n)

\* What rank k of n receives: the last rank takes what the others leave.
RankReward(total, k, n) ==
  IF k = n THEN total - SumOver([j \in 1 .. n - 1 |-> RankShare(total, j, n)], 1 .. n - 1)
  ELSE RankShare(total, k, n)

\* The allocations computed from a board and a reward pool, one per eligible
\* entry, best rank first.
Summary(entries, total) ==
  LET winners == Eligible(entries)
      n == Cardinality(winners)
  IN {[player |-> e.player, game |-> e.game, rank |-> RankOn(entries, e),
       amount |-> RankReward(total, RankOn(entries, e), n)] : e \in winners}

\* What a summary distributes: everything, as soon as one entry is eligible.
Distributed(summary) == SumOver([a \in summary |-> a.amount], summary)

\* The by-player record a finalization leaves: each set of the write replaces
\* the one before it, so the worst rank of a player stands.
AllocationOf(summary, p) ==
  LET mine == {a \in summary : a.player = p}
  IN IF mine = {} THEN NULL
     ELSE CHOOSE a \in mine : \A b \in mine : a.rank >= b.rank

\* The allocation a claim recomputes: the first match, the best rank.
MatchIn(summary, p) ==
  LET mine == {a \in summary : a.player = p}
  IN IF mine = {} THEN NULL
     ELSE CHOOSE a \in mine : \A b \in mine : a.rank <= b.rank

HasUtcDayEnded(d, now) == DateOf(now) > d

\* Records keyed by rank and game id: a write replaces the record of its key.
PutRows(rows, new) ==
  {r \in rows : \A a \in new : r.rank # a.rank \/ r.game # a.game} \cup new

-----------------------------------------------------------------------------
\* The prize record of a day after one more entry.
AddDailyPoolEntry(record, fee, split) ==
  [entryCount |-> record.entryCount + 1,
   grossFees |-> record.grossFees + fee,
   treasuryFees |-> record.treasuryFees + TreasuryPart(split),
   rewardPool |-> record.rewardPool + split["DAILY"],
   finalized |-> record.finalized,
   distributed |-> record.distributed,
   leftover |-> record.leftover]

\* Mutant: a claim leaves the reward pool of its day as it was.
PaidFromPoolOnly(record, amount, distributed) ==
  [record EXCEPT !.finalized = TRUE, !.distributed = distributed,
                 !.leftover = record.rewardPool - distributed]

\* Mutant: a claim that pays does not mark its day as finalized.
PaidUnfinalized(record, amount, distributed) ==
  [record EXCEPT !.rewardPool = @ - amount, !.distributed = distributed,
                 !.leftover = record.rewardPool - distributed]

\* The prize record after a claim of amount: finalized, with the totals of the
\* summary the claim computed from the reward pool it found.
PaidOut(record, amount, distributed) ==
  [entryCount |-> record.entryCount,
   grossFees |-> record.grossFees,
   treasuryFees |-> record.treasuryFees,
   rewardPool |-> record.rewardPool - amount,
   finalized |-> TRUE,
   distributed |-> distributed,
   leftover |-> record.rewardPool - distributed]

\* DeliverMessageStartDailyGame.  The date is the message's own: neither the
\* time of the transaction nor the day's finalization is looked at.
StartDailyGame(p, g, d, fee) ==
  LET split == SplitFee(DailyBps, fee)
  IN /\ attempt[d][p] = NULL
     /\ ChargeEntry(p, fee, split)
     /\ prize' = [prize EXCEPT ![d] = AddDailyPoolEntry(@, fee, split)]
     /\ session' = [session EXCEPT ![g] = NewSession(p, "daily", d, 0)]
     /\ attempt' = [attempt EXCEPT ![d][p] = g]
     /\ stats' = CountGame(p, "daily")
     /\ UNCHANGED <<submission, board, rankRow, allocation, claim>>

\* DeliverMessageSubmitGameResult for a daily session: the result is the one
\* the replay of the submitted moves yields, or the message is rejected.
SubmitDailyResult(p, g, now, r) ==
  LET d == session[g].period
      entry == [player |-> p, game |-> g, score |-> r.score, maxTile |-> r.maxTile,
                moveCount |-> r.moveCount, ended |-> now]
  IN /\ OwnsActiveSession(p, g)
     /\ session[g].mode = "daily"
     /\ r.moveCount <= DailyMaxMoves
     /\ session' = [session EXCEPT ![g] = CompletedSession(@)]
     /\ stats' = CountGame(p, "completed")
     /\ board' = [board EXCEPT ![d] = {e \in @ : ~SameKey(e, entry)} \cup {entry}]
     /\ submission' = [submission EXCEPT ![d][p] = g]
     /\ UNCHANGED <<account, pool, treasury, attempt, prize, rankRow, allocation, claim>>

\* Mutant: every claim finalizes again, from what the claims before it left.
FinalizedAgain(d) ==
  LET summary == Summary(board[d], prize[d].rewardPool)
  IN [rows |-> PutRows(rankRow[d], summary),
      byPlayer |-> [q \in Player |-> IF AllocationOf(summary, q) = NULL
                                      THEN allocation[d][q]
                                      ELSE AllocationOf(summary, q)]]

\* finalizeDailyRewardPoolIfNeeded: what it leaves in the records of day d.
Finalized(d) ==
  LET summary == Summary(board[d], prize[d].rewardPool)
  IN IF prize[d].finalized THEN [rows |-> rankRow[d], byPlayer |-> allocation[d]]
     ELSE [rows |-> PutRows(rankRow[d], summary),
           byPlayer |-> [q \in Player |-> IF AllocationOf(summary, q) = NULL
                                           THEN allocation[d][q]
                                           ELSE AllocationOf(summary, q)]]

\* Mutants: the claim record, or the balance of the day, is not looked at.
ClaimUnchecked(d, p) == TRUE
\* What a claim checks of the claim record, and of what the day still holds.
Unclaimed(d, p) == claim[d][p] = NULL
CoversReward(record, a) == record.rewardPool >= a.amount

\* DeliverMessageClaimDailyReward.  A claim that fails leaves nothing, not even
\* the finalization it began with.
ClaimDailyReward(p, d, now) ==
  LET summary == Summary(board[d], prize[d].rewardPool)
      final == Finalized(d)
      recorded == final.byPlayer[p] # NULL
      a == IF recorded THEN final.byPlayer[p] ELSE MatchIn(summary, p)
      source == IF pool["DAILY"] >= a.amount THEN "DAILY" ELSE "DAO"
  IN /\ HasUtcDayEnded(d, now)
     /\ prize[d].entryCount > 0
     /\ Unclaimed(d, p)
     /\ a \in Allocation
     /\ CoversReward(prize[d], a)
     /\ PayFrom(source, p, a.amount)
     /\ prize' = [prize EXCEPT ![d] = PaidOut(@, a.amount, Distributed(summary))]
     /\ rankRow' = [rankRow EXCEPT
                      ![d] = IF recorded THEN final.rows ELSE PutRows(final.rows, {a})]
     /\ allocation' = [allocation EXCEPT ![d] = [final.byPlayer EXCEPT ![p] = a]]
     /\ claim' = [claim EXCEPT ![d][p] = a]
     /\ UNCHANGED <<treasury, session, stats, attempt, submission, board>>

-----------------------------------------------------------------------------
DailyRecordsInit ==
  LET none == [d \in Date |-> [p \in Player |-> NULL]]
  IN /\ attempt = none
     /\ submission = none
     /\ allocation = none
     /\ claim = none
     /\ prize = [d \in Date |-> NoPrize]
     /\ board = [d \in Date |-> {}]
     /\ rankRow = [d \in Date |-> {}]

DailyInit == StateInit /\ DailyRecordsInit

DailyNext ==
  \/ \E p \in Player, g \in GameId, d \in Date, fee \in DailyFee :
        StartDailyGame(p, g, d, fee)
  \/ \E p \in Player, g \in GameId, now \in Time, r \in Result :
        SubmitDailyResult(p, g, now, r)
  \/ \E p \in Player, d \in Date, now \in Time : ClaimDailyReward(p, d, now)

DailySpec == DailyInit /\ [][DailyNext]_<<stateVars, dailyVars>>
=============================================================================
