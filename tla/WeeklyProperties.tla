--------------------------- MODULE WeeklyProperties ---------------------------
(***************************************************************************)
(* What the weekly competition guarantees, and what its documentation says *)
(* of it that the code does not keep.                                      *)
(***************************************************************************)
EXTENDS WeeklyBlitz

\* The days of week w.
DaysOf(w) == {d \in Day : WeekOf(d * DayLength) = w}

PaidForWeek(w) ==
  SumOver([p \in Player |-> IF weekClaim[w][p] = NULL THEN 0 ELSE weekClaim[w][p].amount], Player)

-----------------------------------------------------------------------------
\* Every record has the shape its handlers read and write.
WeeklyRecordsOK ==
  /\ runs \in [Day -> [Player -> 0 .. RunsPerDay]]
  /\ weekMeta \in [Week -> [entryCount : Nat, grossFees : Nat, prizePool : Nat]]
  /\ weekScore \in [Week -> [Player -> [total : Nat, best : Nat, runs : Nat, updated : Nat]
                                         \cup {NULL}]]
  /\ weekBoard \in [Week -> SUBSET WeekEntry]
  /\ weekClaim \in [Week -> [Player -> [rank : Nat, amount : Nat] \cup {NULL}]]
  /\ weekAllocation \in [Week -> SUBSET [rank : Nat, player : Player, amount : Nat]]

WeeklyTypeOK == StateTypeOK /\ WeeklyRecordsOK

\* The total a run is added to, the key that is deleted and the key that is
\* written are worked out apart; still no board ever shows a score that is
\* not the whole week's total of its player, but for zero.
BoardShowsTotals ==
  \A w \in Week : \A e \in weekBoard[w] :
    /\ weekScore[w][e.player] # NULL
    /\ e.score > 0 => e.score = weekScore[w][e.player].total

\* Whatever game ids are reused and whichever day a result arrives, the runs
\* that count for a player's week, with those still being played, are no more
\* than the ones paid for on the days of that week.
CountedRunsPaid ==
  \A w \in Week, p \in Player :
    LET open == {g \in GameId : /\ session[g] # NULL
                                /\ session[g].owner = p
                                /\ session[g].mode = "weekly"
                                /\ session[g].status = "active"
                                /\ session[g].period = w}
        counted == IF weekScore[w][p] = NULL THEN 0 ELSE weekScore[w][p].runs
    IN counted + Cardinality(open) <= SumOver([d \in Day |-> runs[d][p]], DaysOf(w))

\* The competition implements the abstract escrow with the one pot that all the
\* weeks share: a player is paid at most once per week, and the pool only ever
\* pays the rewards that are recorded.
WeeklyEscrow == INSTANCE PrizeEscrow WITH
  Contest <- {"WEEKLY"},
  Player <- Week \X Player,
  pot <- [c \in {"WEEKLY"} |-> pool["WEEKLY"]],
  receipt <- [c \in {"WEEKLY"} |->
                [claimant \in Week \X Player |-> weekClaim[claimant[1]][claimant[2]]]]

WeeklyEscrowSpec == WeeklyEscrow!Spec

-----------------------------------------------------------------------------
\* docs/weekly-blitz-requirements.md:357: players who finish in the top 30% of
\* a week can claim their rewards.  A claim looks for its sender's address on
\* the board it reads; a player whose entry has a rewarded rank must be found.
RankedCanClaim ==
  \A w \in Week : \A e \in ReadEntries(w) :
    WeekRank(w, e) \in RewardedRanks(WeeklyConfig, Cardinality(ReadEntries(w)))
      => RanksFound(e.player, w) # {}
=============================================================================
