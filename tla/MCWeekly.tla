------------------------------- MODULE MCWeekly -------------------------------
(* Instances of the weekly competition for TLC. *)
EXTENDS WeeklyProperties

\* Two participants activate the rewards; both win, one per tier.
SmallConfig ==
  [minParticipants |-> 2, reward |-> 100, minWinners |-> 1, maxWinners |-> 2,
   tiers |-> <<[size |-> 50, share |-> 6000, kind |-> "exponential"],
               [size |-> 50, share |-> 4000, kind |-> "equal"]>>]

\* Game ids that spell nobody's address, and ids that spell the players' ones.
HonestIds == [g \in GameId |-> NULL]
SpellingIds == [g \in GameId |-> g]
=============================================================================
