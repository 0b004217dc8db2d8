----------------------------- MODULE StakingBook -----------------------------
(***************************************************************************)
(* What the state machine of a node keeps about validators (fsm/validator, *)
(* byzantine, committee and account): their records, the keys that say at   *)
(* which height one is to be released or forced to unstake, the supply      *)
(* tracker, and what was slashed in this block.  A book is a record of      *)
(* these; the operators are what a handler does to it.                      *)
(***************************************************************************)
EXTENDS Sums

CONSTANTS
  Address, Chain, NULL,
  Param       \* the governance parameters, a record named as in ValidatorParams

ASSUME ParamAssumption ==
  Param \in [unstakingBlocks : Nat \ {0}, delegateUnstakingBlocks : Nat \ {0},
             maxPauseBlocks : Nat \ {0}, nonSignWindow : Nat \ {0}, maxNonSign : Nat,
             nonSignSlash : 0 .. 100, doubleSignSlash : 0 .. 100,
             maxSlashPerCommittee : 0 .. 100, earlyWithdrawalPenalty : 0 .. 100,
             minimumStake : Nat, minimumDelegateStake : Nat]

\* The stake of a validator is kept beside its record.  Committees have no
\* duplicates (checkCommittees).  A height of 0 stands for none.
Validator ==
  [committees : SUBSET Chain, delegate : BOOLEAN, compound : BOOLEAN,
   paused : Nat, unstaking : Nat]

ASSUME NoValidatorAssumption == NULL \notin Validator

IsPaused(v) == v # NULL /\ v.paused # 0
IsUnstaking(v) == v # NULL /\ v.unstaking # 0
IsDelegate(v) == v # NULL /\ v.delegate

\* What the committee of c has of the stake of a.
StakeFor(book, a, c) ==
  IF book.validator[a] # NULL /\ c \in book.validator[a].committees THEN book.stake[a] ELSE 0

MinimumStake(delegate) == IF delegate THEN Param.minimumDelegateStake ELSE Param.minimumStake
UnstakingBlocks(delegate) ==
  IF delegate THEN Param.delegateUnstakingBlocks ELSE Param.unstakingBlocks

-----------------------------------------------------------------------------
\* How the supply tracker follows from one book to another.  The figures of
\* delegates follow for those in tracked.
Tracked(old, new, tracked) ==
  [old.supply EXCEPT
     !.staked = @ + SumOver([a \in Address |-> new.stake[a] - old.stake[a]], Address),
     !.committee = [c \in Chain |-> @[c] +
        SumOver([a \in Address |-> StakeFor(new, a, c) - StakeFor(old, a, c)], Address)],
     !.delegated = @ + SumOver([a \in tracked |-> new.stake[a] - old.stake[a]], tracked),
     !.committeeDelegated = [c \in Chain |-> @[c] +
        SumOver([a \in tracked |-> StakeFor(new, a, c) - StakeFor(old, a, c)], tracked)]]

\* SetValidatorUnstaking sets a key and the height; SetValidatorPaused and
\* SetValidatorUnpaused set and delete theirs.  DeleteValidator leaves the keys.
UnstakingKeysAfter(keys, old, new) ==
  keys \cup {<<new[a].unstaking, a>> : a \in {x \in Address :
               IsUnstaking(new[x]) /\ (old[x] = NULL \/ old[x].unstaking # new[x].unstaking)}}

PausedKeysAfter(keys, old, new) ==
  (keys \ {<<old[a].paused, a>> : a \in {x \in Address :
               IsPaused(old[x]) /\ new[x] # NULL /\ ~IsPaused(new[x])}})
     \cup {<<new[a].paused, a>> : a \in {x \in Address : IsPaused(new[x])}}

\* The book when the records and stakes become new.
Moved(book, new, stake, untracked) ==
  LET old == book.validator
      delegates == {a \in Address : IsDelegate(old[a]) \/ IsDelegate(new[a])}
  IN [validator |-> new,
      stake |-> stake,
      unstakingKeys |-> UnstakingKeysAfter(book.unstakingKeys, old, new),
      pausedKeys |-> PausedKeysAfter(book.pausedKeys, old, new),
      supply |-> Tracked(book, [validator |-> new, stake |-> stake], delegates \ untracked),
      slashed |-> book.slashed]

\* SetValidatorUnstaking: a validator that unstakes is not paused any more.
Unstaked(v, finish) == [v EXCEPT !.unstaking = finish, !.paused = 0]

-----------------------------------------------------------------------------
\* SetValidatorsPaused: those it cannot pause are passed over.
CanPause(v, c, scoped) ==
  /\ v # NULL /\ ~v.delegate /\ v.paused = 0 /\ v.unstaking = 0
  /\ scoped => c \in v.committees

\* Mutant: one that is unstaking is paused as well.
PauseUnstaking(book, L, c, scoped, height) ==
  LET val == book.validator
      new == [a \in Address |->
                IF a \in L /\ val[a] # NULL /\ ~val[a].delegate /\ val[a].paused = 0
                THEN [val[a] EXCEPT !.paused = height + Param.maxPauseBlocks] ELSE val[a]]
  IN Moved(book, new, book.stake, {})

PauseAll(book, L, c, scoped, height) ==
  LET val == book.validator
      new == [a \in Address |->
                IF a \in L /\ CanPause(val[a], c, scoped)
                THEN [val[a] EXCEPT !.paused = height + Param.maxPauseBlocks] ELSE val[a]]
  IN Moved(book, new, book.stake, {})

\* SlashValidator for one record: with no stake left it is removed, with less
\* than the minimum it is forced to unstake.
Slashed(v, stake, committees, height) ==
  LET kept == [v EXCEPT !.committees = committees]
  IN IF stake = 0
     THEN NULL
     ELSE IF v.unstaking = 0 /\ stake < MinimumStake(v.delegate)
          THEN Unstaked(kept, height + UnstakingBlocks(v.delegate))
          ELSE kept

\* SlashValidators for addresses that differ.  With version 2 of the protocol a
\* committee slashes its members only, so much in a block at most, and ejects
\* whom it has slashed so much.  The committees are updated as those of a
\* validator also when a delegate is slashed.
SlashAll(book, L, c, percent, scoped, height) ==
  LET val == book.validator
      done(a) == book.slashed[a][c]
      struck == {a \in L : val[a] # NULL /\
                   (scoped => c \in val[a].committees /\ done(a) < Param.maxSlashPerCommittee)}
      ejects(a) == scoped /\ done(a) + percent >= Param.maxSlashPerCommittee
      cut(a) == IF ejects(a) THEN Param.maxSlashPerCommittee - done(a) ELSE percent
      stake == [a \in Address |-> IF a \in struck
                                  THEN (book.stake[a] * (100 - cut(a))) \div 100
                                  ELSE book.stake[a]]
      new == [a \in Address |->
                IF a \in struck
                THEN Slashed(val[a], stake[a], IF ejects(a) THEN val[a].committees \ {c}
                                               ELSE val[a].committees, height)
                ELSE val[a]]
      moved == Moved(book, new, stake, {a \in struck : new[a] # NULL})
      burnt == SumOver([a \in struck |-> book.stake[a] - stake[a]], struck)
  IN [moved EXCEPT
        !.supply.total = @ - burnt,
        !.slashed = [a \in Address |-> [d \in Chain |->
                       @[a][d] + (IF scoped /\ a \in struck /\ d = c THEN cut(a) ELSE 0)]]]

\* ForceUnstakeMaxPaused: with the unstaking blocks of validators, whoever it is.
ForceUnstakeMaxPaused(book, height) ==
  LET val == book.validator
      new == [a \in Address |->
                IF <<height, a>> \in book.pausedKeys /\ val[a] # NULL /\ val[a].unstaking = 0
                THEN Unstaked(val[a], height + Param.unstakingBlocks) ELSE val[a]]
      moved == Moved(book, new, book.stake, {})
  IN [moved EXCEPT !.pausedKeys = {k \in @ : k[1] # height}]

\* DeleteFinishedUnstaking, of the addresses that have a key of this height.
Due(book, height) == {a \in Address : <<height, a>> \in book.unstakingKeys}

DeleteFinishedUnstaking(book, height) ==
  LET due == Due(book, height)
      moved == Moved(book, [a \in Address |-> IF a \in due THEN NULL ELSE book.validator[a]],
                     [a \in Address |-> IF a \in due THEN 0 ELSE book.stake[a]], {})
  IN [moved EXCEPT !.unstakingKeys = {k \in @ : k[1] # height}]
=============================================================================
