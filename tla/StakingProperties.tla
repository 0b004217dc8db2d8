-------------------------- MODULE StakingProperties --------------------------
(* What makes the staking of validators correct. *)
EXTENDS Staking

\* "An organized view of the overall financial status" (Supply, account.go): the
\* tracker, moved by many small steps, is what accounts, pools and stakes hold.
\* The figures of delegates are never too low, so that a delegate can leave.
SupplyAddsUp ==
  LET delegates == {a \in Address : IsDelegate(validator[a])} IN
  /\ supply.total = SumOver([a \in Address |-> account[a] + stake[a]], Address)
                      + SumOver(pool, Pool)
  /\ supply.staked = SumOver(stake, Address)
  /\ supply.delegated >= SumOver(stake, delegates)
  /\ \A c \in Chain :
       /\ supply.committee[c] = SumOver([a \in Address |-> StakeFor(Book, a, c)], Address)
       /\ supply.committeeDelegated[c]
            >= SumOver([a \in delegates |-> StakeFor(Book, a, c)], delegates)

\* Whoever is unstaking or paused has a key at a height that is not over, so that
\* it is released or forced to unstake, and nobody is both (SetValidatorUnstaking).
NobodyForgotten ==
  \A a \in Address :
    /\ IsUnstaking(validator[a]) =>
         /\ <<validator[a].unstaking, a>> \in unstakingKeys
         /\ validator[a].unstaking >= height
         /\ ~IsPaused(validator[a])
    /\ IsPaused(validator[a]) =>
         <<validator[a].paused, a>> \in pausedKeys /\ validator[a].paused >= height

\* "Their tokens remain locked until the unstaking period completes"
\* (validator.md): the end of a block releases exactly whose height has come,
\* unless a slash has removed a validator of that address before.
ReleasedWhenDue ==
  [][height' # height =>
       \A a \in Address \ orphaned :
          validator[a] # NULL => (validator'[a] = NULL <=> validator[a].unstaking = height)]_vars

\* "DeleteValidator() completely removes a validator from the state"
\* (validator.go): the end of a block finds the validator of each key.
RemovedCompletely == \A k \in unstakingKeys : validator[k[2]] # NULL
=============================================================================
