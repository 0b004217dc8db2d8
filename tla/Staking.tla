------------------------------- MODULE Staking -------------------------------
(***************************************************************************)
(* Validators and delegates on the root chain, block by block: what begins  *)
(* and ends a block, the messages of validators, and the certificates of    *)
(* committees, that report who did not sign, who signed twice and who is   *)
(* paid (fsm/automatic, message, byzantine, committee).                    *)
(*                                                                         *)
(* The addresses of the model are some of all validators; the others hold   *)
(* the majority of every committee, so that any of these may be missing in  *)
(* a certificate.  A certificate of another chain names the current height  *)
(* of this chain as its root height.  Fees, transfers, output addresses     *)
(* other than the validator's, retired committees and the size of a         *)
(* committee are left out.                                                 *)
(***************************************************************************)
EXTENDS StakingBook

CONSTANTS
  Own,              \* this chain, which is its own root chain
  Genesis,          \* the validators at genesis, [validator, stake]
  InitialAccount,
  Offer,            \* what is staked: [amount, committees, delegate, compound]
  Report,           \* what a certificate says: [missing, double, percent]
  Subsidized,       \* the committees with enough stake to be paid, the own one too
  Mint, DaoReward,  \* minted per block, and the DAO's part of it
  Upgrade,          \* the heights at which version 2 may begin
  MaxHeight, MaxTransactions

ASSUME StakingAssumption ==
  /\ Own \in Subsidized /\ Subsidized \subseteq Chain
  /\ Genesis.validator \in [Address -> Validator \cup {NULL}]
  /\ \A a \in Address : ~IsPaused(Genesis.validator[a]) /\ ~IsUnstaking(Genesis.validator[a])
  /\ Offer \subseteq [amount : Nat, committees : SUBSET Chain, delegate : BOOLEAN,
                      compound : BOOLEAN]

\* Amounts are unsigned, who has no record has no stake, and the DAO's part is a
\* percentage of what is minted.
ASSUME AmountAssumption ==
  /\ IsFiniteSet(Address) /\ IsFiniteSet(Chain)
  /\ Genesis.stake \in [Address -> Nat] /\ InitialAccount \in [Address -> Nat]
  /\ \A a \in Address : Genesis.validator[a] = NULL => Genesis.stake[a] = 0
  /\ Report \subseteq [missing : SUBSET Address, double : SUBSET Address,
                       percent : [Address -> Nat]]
  /\ Mint \in Nat /\ DaoReward \in 0 .. Mint

VARIABLES
  height,
  room,             \* transactions the block may still take, NULL between blocks
  upgrade,          \* the height of version 2 of the protocol: slashing by committee
  validator, stake, unstakingKeys, pausedKeys, supply, slashed,
  account, pool,
  nonSigner,        \* certificates not signed in this window: in all, and by chain
  data,             \* by committee: certificates since the last reward, percents
  committee,        \* by chain: the members when this block began
  orphaned          \* history: addresses removed by a slash while they had a key

\* IsFeatureEnabled(2).
scoped == height >= upgrade

books == <<validator, stake, unstakingKeys, pausedKeys, supply, slashed>>
vars == <<height, room, upgrade, books, account, pool, nonSigner, data, committee, orphaned>>

Pool == Chain \cup {"DAO"}
Nobody == [a \in Address |-> 0]
Unslashed == [a \in Address |-> [c \in Chain |-> 0]]
AllSigned == [a \in Address |-> [all |-> 0, chain |-> [c \in Chain |-> 0]]]

Book == [validator |-> validator, stake |-> stake, unstakingKeys |-> unstakingKeys,
         pausedKeys |-> pausedKeys, supply |-> supply, slashed |-> slashed]

BookBecomes(book) ==
  /\ validator' = book.validator
  /\ stake' = book.stake
  /\ unstakingKeys' = book.unstakingKeys
  /\ pausedKeys' = book.pausedKeys
  /\ supply' = book.supply
  /\ slashed' = book.slashed

\* getValidatorSet.
Members(val, c) ==
  {a \in Address : /\ val[a] # NULL /\ c \in val[a].committees /\ ~val[a].delegate
                   /\ ~IsPaused(val[a]) /\ ~IsUnstaking(val[a])}

NoBook ==
  [validator |-> [a \in Address |-> NULL], stake |-> Nobody, unstakingKeys |-> {}, pausedKeys |-> {},
   supply |-> [total |-> SumOver([a \in Address |-> Genesis.stake[a] + InitialAccount[a]], Address),
               staked |-> 0, delegated |-> 0,
               committee |-> [c \in Chain |-> 0], committeeDelegated |-> [c \in Chain |-> 0]],
   slashed |-> Unslashed]

\* SetValidators, for validators that neither unstake nor are paused.
Init ==
  LET book == Moved(NoBook, Genesis.validator, Genesis.stake, {}) IN
  /\ height = 1 /\ room = NULL /\ upgrade \in Upgrade
  /\ validator = book.validator /\ stake = book.stake
  /\ unstakingKeys = book.unstakingKeys /\ pausedKeys = book.pausedKeys
  /\ supply = book.supply /\ slashed = book.slashed
  /\ account = InitialAccount
  /\ pool = [p \in Pool |-> 0]
  /\ nonSigner = AllSigned
  /\ data = [c \in Chain |-> [samples |-> 0, percent |-> Nobody]]
  /\ committee = [c \in Chain |-> {}]
  /\ orphaned = {}

-----------------------------------------------------------------------------
\* The count that settles a window: the chain's own once counts are kept by chain.
Count(a, c) ==
  IF scoped /\ \E d \in Chain : nonSigner[a].chain[d] # 0
  THEN nonSigner[a].chain[c] ELSE nonSigner[a].all

AtWindowEnd == height % Param.nonSignWindow = 0

\* SlashAndResetNonSigners.  Every counter is reset, of every chain.
Settled(book, c) ==
  LET bad == {a \in Address : Count(a, c) > Param.maxNonSign}
  IN SlashAll(PauseAll(book, bad, c, scoped, height), bad, c, Param.nonSignSlash, scoped, height)

\* HandleByzantine, on the book.
Punished(book, c, report) ==
  SlashAll(IF AtWindowEnd THEN Settled(book, c) ELSE book, report.double, c,
           Param.doubleSignSlash, scoped, height)

\* HandleByzantine, on the counters.
Counted(c, report) ==
  LET kept == IF AtWindowEnd THEN AllSigned ELSE nonSigner
  IN [a \in Address |->
        IF a \notin report.missing THEN kept[a]
        ELSE [all |-> kept[a].all + 1,
              chain |-> [d \in Chain |-> kept[a].chain[d] + (IF scoped /\ d = c THEN 1 ELSE 0)]]]

\* UpsertCommitteeData.
Sampled(c, report) ==
  [data EXCEPT ![c] = [samples |-> @.samples + 1,
                       percent |-> [a \in Address |-> @.percent[a] + report.percent[a]]]]

\* HandleCertificateResults.  The committee is the one of the certificate, so whoever
\* is missing was a member then.  Evidence is of any earlier height, and so about
\* anybody; HandleDoubleSigners asks only that it is new.  The percents are those that
\* the missing power has reduced.
Certified(book, c, report) ==
  LET after == Punished(book, c, report) IN
  /\ report.missing \subseteq committee[c]
  /\ BookBecomes(after)
  /\ nonSigner' = Counted(c, report)
  /\ data' = Sampled(c, report)
  /\ orphaned' = orphaned \cup
       {a \in Address : validator[a] # NULL /\ after.validator[a] = NULL
           /\ \E k \in after.unstakingKeys \cup after.pausedKeys : k[2] = a}

-----------------------------------------------------------------------------
\* FundCommitteeRewardPools: the share of a committee is rounded down.
Minted ==
  [p \in Pool |-> IF p = "DAO" THEN DaoReward
                 ELSE IF p \in Subsidized THEN (Mint - DaoReward) \div Cardinality(Subsidized)
                 ELSE 0]

Funded ==
  [Book EXCEPT !.supply.total = @ + SumOver(Minted, Pool)]

\* BeginBlock.  The certificate of the last block may have no results.  It is held
\* against the committee with which that block began (LoadCommittee of the height
\* before), in which somebody may still be who left in it.
BeginBlock ==
  /\ room = NULL /\ height < MaxHeight
  /\ room' = MaxTransactions
  /\ committee' = [c \in Chain |-> Members(validator, c)]
  /\ \/ /\ height = 1
        /\ UNCHANGED <<books, pool, nonSigner, data, orphaned>>
     \/ /\ height > 1
        /\ pool' = [p \in Pool |-> pool[p] + Minted[p]]
        /\ \/ BookBecomes(Funded) /\ UNCHANGED <<nonSigner, data, orphaned>>
           \/ \E report \in Report : Certified(Funded, Own, report)
  /\ UNCHANGED <<height, upgrade, account>>

Transaction ==
  /\ room # NULL /\ room > 0
  /\ room' = room - 1
  /\ UNCHANGED <<height, upgrade, pool, committee>>

\* HandleMessageCertificateResults, for a committee of another chain.
Certificate(c, report) ==
  /\ Transaction
  /\ c # Own /\ Certified(Book, c, report)
  /\ UNCHANGED account

\* The record of a becomes v, its stake grows.
Become(a, v, added) ==
  /\ BookBecomes(Moved(Book, [validator EXCEPT ![a] = v], [stake EXCEPT ![a] = @ + added], {}))
  /\ account[a] >= added
  /\ account' = [account EXCEPT ![a] = @ - added]
  /\ UNCHANGED <<nonSigner, data, orphaned>>

\* HandleMessageStake.
Stake(a, offer) ==
  /\ Transaction
  /\ validator[a] = NULL
  /\ offer.amount >= MinimumStake(offer.delegate)
  /\ Become(a, [committees |-> offer.committees, delegate |-> offer.delegate,
                compound |-> offer.compound, paused |-> 0, unstaking |-> 0], offer.amount)

\* HandleMessageEditStake.  Less than the stake adds nothing.
EditStake(a, offer) ==
  /\ Transaction
  /\ validator[a] # NULL /\ ~IsUnstaking(validator[a])
  /\ Become(a, [validator[a] EXCEPT !.committees = offer.committees, !.compound = offer.compound],
            IF offer.amount > stake[a] THEN offer.amount - stake[a] ELSE 0)

BeginUnstaking(a) ==
  Become(a, Unstaked(validator[a], height + UnstakingBlocks(validator[a].delegate)), 0)

\* Mutant: one that is unstaking may unstake again.
UnstakeAgain(a) == Transaction /\ validator[a] # NULL /\ BeginUnstaking(a)

\* HandleMessageUnstake.
Unstake(a) ==
  /\ Transaction
  /\ validator[a] # NULL /\ ~IsUnstaking(validator[a])
  /\ BeginUnstaking(a)

\* HandleMessagePause.
Pause(a) ==
  /\ Transaction
  /\ CanPause(validator[a], Own, FALSE)
  /\ Become(a, [validator[a] EXCEPT !.paused = height + Param.maxPauseBlocks], 0)

\* HandleMessageUnpause.
Unpause(a) ==
  /\ Transaction
  /\ IsPaused(validator[a]) /\ ~IsUnstaking(validator[a]) /\ ~validator[a].delegate
  /\ Become(a, [validator[a] EXCEPT !.paused = 0], 0)

-----------------------------------------------------------------------------
\* DistributeCommitteeReward: the whole reward is added to a stake that
\* compounds; an account gets it less the penalty.
FullReward(a, c) ==
  IF data[c].samples = 0 THEN 0
  ELSE (data[c].percent[a] * pool[c]) \div (data[c].samples * 100)

EarlyReward(a, c) == (FullReward(a, c) * (100 - Param.earlyWithdrawalPenalty)) \div 100

Compounds(a) ==
  validator[a] # NULL /\ validator[a].compound /\ ~IsUnstaking(validator[a])

\* DistributeCommitteeRewards: the committees that report payments, what each
\* address gets of them, and what is burnt of their pools.
Paying == {c \in Chain : \E a \in Address : data[c].percent[a] # 0}

Reward(a, c) == IF Compounds(a) THEN FullReward(a, c) ELSE EarlyReward(a, c)
RewardOf(a) == SumOver([c \in Paying |-> Reward(a, c)], Paying)

\* Mutant: the penalty of an early withdrawal stays in the supply.
BurntInFull == SumOver([c \in Paying |->
  pool[c] - SumOver([a \in Address |-> FullReward(a, c)], Address)], Paying)

Burnt == SumOver([c \in Paying |->
  pool[c] - SumOver([a \in Address |-> Reward(a, c)], Address)], Paying)

Rewarded ==
  LET paid == Moved(Book, validator, [a \in Address |->
                      IF Compounds(a) THEN stake[a] + RewardOf(a) ELSE stake[a]], {})
  IN [paid EXCEPT !.supply.total = @ - Burnt]

\* EndBlock.  A key of this height without a validator is an error, and then
\* there is no block.
EndBlock ==
  LET forced == ForceUnstakeMaxPaused(Rewarded, height)
      freed == DeleteFinishedUnstaking(forced, height)
      due == Due(forced, height)
  IN /\ room # NULL
     /\ \A a \in due : forced.validator[a] # NULL
     /\ BookBecomes([freed EXCEPT !.slashed = Unslashed])
     /\ account' = [a \in Address |-> account[a]
                      + (IF Compounds(a) THEN 0 ELSE RewardOf(a))
                      + (IF a \in due THEN forced.stake[a] ELSE 0)]
     /\ pool' = [p \in Pool |-> IF p \in Paying THEN 0 ELSE pool[p]]
     /\ data' = [c \in Chain |-> IF c \in Paying THEN [samples |-> 0, percent |-> Nobody]
                                 ELSE data[c]]
     /\ height' = height + 1 /\ room' = NULL
     /\ UNCHANGED <<upgrade, nonSigner, committee, orphaned>>

Next ==
  \/ BeginBlock
  \/ \E c \in Chain, report \in Report : Certificate(c, report)
  \/ \E a \in Address : \/ \E offer \in Offer : Stake(a, offer) \/ EditStake(a, offer)
                        \/ Unstake(a) \/ Pause(a) \/ Unpause(a)
  \/ EndBlock

Spec == Init /\ [][Next]_vars
=============================================================================
