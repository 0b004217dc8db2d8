------------------------------- MODULE MCArcade -------------------------------
(* Instances of the whole contract for TLC. *)
EXTENDS Arcade

\* One participant activates the rewards of a week or a month and takes them.
LoneConfig ==
  [minParticipants |-> 1, reward |-> 100, minWinners |-> 1, maxWinners |-> 1,
   tiers |-> <<[size |-> 100, share |-> 10000, kind |-> "equal"]>>]

\* One result, one paid rank, and a streak of one day.
OneResult == {[score |-> 3, maxTile |-> 2, moveCount |-> 1]}
OneRank == <<10000>>
OneDay == <<2>>

\* Ids that spell the players' own addresses, so that claims succeed.
SpellingIds == [g \in GameId |-> IF g \in Player THEN g ELSE NULL]
=============================================================================
