-------------------------- MODULE ClassicProperties --------------------------
(***************************************************************************)
(* What classic mode guarantees.                                           *)
(***************************************************************************)
EXTENDS ClassicSeason

LedgerOf(p) == SumOver([d \in Day |-> ledger[d][p]], Day)
LoginPointsOf(p) ==
  SumOver([d \in Day |-> IF loginClaim[d][p] = NULL THEN 0 ELSE loginClaim[d][p].reward], Day)

\* The largest bonus the claims of full streaks allow p.
BonusAllowed(p) ==
  SumOver([d \in Day |-> IF loginClaim[d][p] = NULL THEN 0
                         ELSE BpsAmount(ledger[d][p], loginClaim[d][p].bonus)], Day)

-----------------------------------------------------------------------------
\* Every record has the shape its handlers read and write.
ClassicRecordsOK ==
  /\ points \in [Player -> [balance : Nat, earned : Nat, streak : 0 .. Len(LoginRewardPoints),
                            lastLogin : Day \cup {NULL}, bonusDate : Day \cup {NULL}]]
  /\ ledger \in [Day -> [Player -> 0 .. PointsCap]]
  /\ loginClaim \in [Day -> [Player -> [streak : Nat, reward : Nat, bonus : Nat] \cup {NULL}]]
  /\ classicBoard \subseteq BoardEntry
  /\ monthEntry \in [Month -> [Player -> [score : 0 .. MaxTotal, game : GameId \cup {NULL}]
                                           \cup {NULL}]]
  /\ monthBoard \in [Month -> SUBSET BoardEntry]
  /\ monthClaim \in [Month -> [Player -> [rank : Nat, amount : Nat] \cup {NULL}]]
  /\ monthAllocation \in [Month -> SUBSET [rank : Nat, player : Player, amount : Nat]]
  /\ redemption \subseteq [player : Player, time : Time, burned : Nat, payout : Nat]

ClassicTypeOK == StateTypeOK /\ ClassicRecordsOK

\* The points a player ever earned are the capped points of the daily ledgers,
\* the login rewards and a bonus for no other day than those of a full streak,
\* in whatever order days are claimed and games submitted.
EarnedIsExplained ==
  \A p \in Player :
    LET base == LedgerOf(p) + LoginPointsOf(p)
    IN base <= points[p].earned /\ points[p].earned <= base + BonusAllowed(p)

\* A claim on day s of a streak follows a claim of the day before on day s - 1,
\* although claims carry the date their sender likes.
StreakWitnessed ==
  \A d \in Day, p \in Player :
    loginClaim[d][p] # NULL /\ loginClaim[d][p].streak > 1 =>
      /\ d - 1 \in Day
      /\ loginClaim[d - 1][p] # NULL
      /\ loginClaim[d - 1][p].streak = loginClaim[d][p].streak - 1

\* A player has as many results on the all-time board as games paid for, at most.
BoardResultsPaid ==
  \A p \in Player :
    Cardinality({e \in classicBoard : e.player = p}) <= stats[p].classic

\* The entry that is shown is the one the player's record leads to, so the next
\* game finds it again.  Only an id that does not fill the 32 bytes the record
\* keeps for it leaves an entry behind.
EntriesReachable ==
  \A m \in Month : \A e \in monthBoard[m] :
    e.game \in FullGameId => monthEntry[m][e.player] = [score |-> e.score, game |-> e.game]

\* The monthly competition implements the abstract escrow with one pot for all
\* the months.
MonthlyEscrow == INSTANCE PrizeEscrow WITH
  Contest <- {"MONTHLY"},
  Player <- Month \X Player,
  pot <- [c \in {"MONTHLY"} |-> pool["MONTHLY"]],
  receipt <- [c \in {"MONTHLY"} |->
                [claimant \in Month \X Player |-> monthClaim[claimant[1]][claimant[2]]]]

MonthlyEscrowSpec == MonthlyEscrow!Spec
=============================================================================
