------------------------------- MODULE MCDaily -------------------------------
(* Instances of the daily competition for TLC. *)
EXTENDS DailyProperties, TLC

Symmetry == Permutations(Player)

\* A better and a worse result.
TwoResults == {[score |-> 1, maxTile |-> 4, moveCount |-> 1],
               [score |-> 2, maxTile |-> 4, moveCount |-> 1]}

TwoRanks == <<6000, 4000>>
=============================================================================
