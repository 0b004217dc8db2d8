------------------------------ MODULE MCNestBFT ------------------------------
(***************************************************************************)
(* An instance of the consensus of a height for TLC: three validators with *)
(* two, one and one of the power; two rounds, then a new root height.      *)
(***************************************************************************)
EXTENDS BFTProperties, TLC

CONSTANTS n1, n2, n3

At(root, round) == [root |-> root, round |-> round]
ThreeViews == {At(0, 0), At(0, 1), At(1, 0)}

\* Two thirds of four is three: n1 and another.
HeavyFirst == {{n1, n2}, {n1, n3}}
Pairs == {{n1, n2}, {n1, n3}, {n2, n3}}

\* The small validator leads first, then the large one.
FirstThenLarge ==
    [v \in View |-> IF v = At(0, 0) THEN {n2, NULL} ELSE {n1}]

\* Bound: n3 takes part in the second round only, n2 in the others; out of
\* their rounds they reset, restart, and report their locks, but do not vote.
Away == {<<At(0, 0), n3>>, <<At(0, 1), n2>>, <<At(1, 0), n3>>}
Attendance ==
    /\ \A n \in Node : <<view[n], n>> \in Away => phase[n] \in {"ElectionVote", "Propose"}
    /\ \A m \in electionVotes : <<m.view, m.from>> \in Away => m.high # NULL

BlockSymmetry == Permutations(Block)
=============================================================================
