------------------------------ MODULE MCStaking ------------------------------
(***************************************************************************)
(* An instance of the staking of validators for TLC: a validator of both    *)
(* committees, and an address that may stake, also as a delegate.          *)
(***************************************************************************)
EXTENDS StakingProperties

Parameters ==
  [unstakingBlocks |-> 1, delegateUnstakingBlocks |-> 2, maxPauseBlocks |-> 2,
   nonSignWindow |-> 5, maxNonSign |-> 0, nonSignSlash |-> 50, doubleSignSlash |-> 70,
   maxSlashPerCommittee |-> 80, earlyWithdrawalPenalty |-> 50,
   minimumStake |-> 2, minimumDelegateStake |-> 2]

Founder ==
  [validator |-> [a \in Address |->
     IF a = 1 THEN [committees |-> Chain, delegate |-> FALSE, compound |-> TRUE,
                    paused |-> 0, unstaking |-> 0]
     ELSE NULL],
   stake |-> [a \in Address |-> IF a = 1 THEN 6 ELSE 0]]

Holdings == [a \in Address |-> IF a = 1 THEN 4 ELSE 3]

Offers ==
  {[amount |-> 3, committees |-> {"nested"}, delegate |-> FALSE, compound |-> FALSE],
   [amount |-> 3, committees |-> Chain, delegate |-> TRUE, compound |-> TRUE]}

Half == [a \in Address |-> 50]
Reports ==
  {[missing |-> {1}, double |-> {}, percent |-> Half],
   [missing |-> {}, double |-> {1}, percent |-> Nobody]}
=============================================================================
