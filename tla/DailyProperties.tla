--------------------------- MODULE DailyProperties ---------------------------
(***************************************************************************)
(* What the daily competition guarantees, and what its documentation says  *)
(* of it that the code does not keep.                                      *)
(***************************************************************************)
EXTENDS DailyCompetition

ClaimedOn(d) ==
  SumOver([p \in Player |-> IF claim[d][p] = NULL THEN 0 ELSE claim[d][p].amount], Player)

\* What a day's prize record says the day's claims and its pool should add up to.
Contributed(d) == prize[d].grossFees - prize[d].treasuryFees

-----------------------------------------------------------------------------
\* Every record has the shape its handlers read and write.
DailyRecordsOK ==
  /\ attempt \in [Date -> [Player -> GameId \cup {NULL}]]
  /\ submission \in [Date -> [Player -> GameId \cup {NULL}]]
  /\ prize \in [Date -> [entryCount : Nat, grossFees : Nat, treasuryFees : Nat,
                         rewardPool : Nat, finalized : BOOLEAN, distributed : Nat,
                         leftover : Nat]]
  /\ board \in [Date -> SUBSET Entry]
  /\ rankRow \in [Date -> SUBSET Allocation]
  /\ allocation \in [Date -> [Player -> Allocation \cup {NULL}]]
  /\ claim \in [Date -> [Player -> Allocation \cup {NULL}]]

DailyTypeOK == StateTypeOK /\ DailyRecordsOK

\* However starts, submissions and reused game ids interleave, a day's board
\* ranks a player at most once, and only for the one game that player paid to
\* enter that day.
OnePaidEntryPerPlayer ==
  \A d \in Date : \A e \in board[d] :
    /\ attempt[d][e.player] = e.game
    /\ submission[d][e.player] = e.game
    /\ \A f \in board[d] : f.player = e.player => f = e

\* Money is neither lost nor paid twice within a day: what is still in the
\* day's reward pool and what its winners were paid are the reward shares of
\* its entries, up to the rounding of each entry's split.
PrizeAccounted ==
  \A d \in Date :
    /\ prize[d].rewardPool + ClaimedOn(d) <= Contributed(d)
    /\ prize[d].rewardPool + ClaimedOn(d) >= Contributed(d) - MaxDust * prize[d].entryCount

\* A paid claim is the claim of a recorded allocation, of a day that is
\* finalized, by a player who submitted a result that day.
ClaimsBacked ==
  \A d \in Date, p \in Player :
    claim[d][p] # NULL =>
      /\ prize[d].finalized
      /\ allocation[d][p] = claim[d][p]
      /\ submission[d][p] = claim[d][p].game

\* An allocation record is "immutable once written": neither another claim's
\* finalization pass nor the owner's own claim changes it.
AllocationsImmutable ==
  [][\A d \in Date, p \in Player :
       allocation[d][p] # NULL => allocation'[d][p] = allocation[d][p]]_allocation

\* The competition implements the abstract escrow: the reward pool of a day is
\* its pot, and the claim record of a player is the receipt of its one payment.
Escrow == INSTANCE PrizeEscrow WITH
  Contest <- Date,
  pot <- [d \in Date |-> prize[d].rewardPool],
  receipt <- claim

EscrowSpec == Escrow!Spec
=============================================================================
