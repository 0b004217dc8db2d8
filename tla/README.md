# ProofArcade: TLA+ models of the arcade contract and its node

ProofArcade is an arcade on a blockchain. A TypeScript plugin
(`src/plugin/typescript`) holds the arcade contract, and a Go node (the rest, a
fork of Canopy) agrees on blocks, executes transactions, pays validators, trades
with other chains and talks to the plugin over a local socket. This directory
holds TLA+ modules for the contract, the socket, the consensus, the staking, the
order book and the exchange, configurations that check them with TLC, and theorems that TLAPS
proves. The definitions follow the source; `PROJECT.json` lists, for each, the
lines it stands for.

Contents: [inventory](#inventory), [modules](#modules-and-the-code),
[runs](#runs), [bounds](#bounds-and-why-they-are-enough), [fairness](#fairness),
[proofs](#proofs), [findings](#findings), [observations](#other-observations),
[limits](#what-is-not-modelled), [next](#what-could-follow).

## Inventory

### The contract

All handlers are in `contract.ts`. Each reads a batch of keys, computes, and
writes one batch. The node wraps every transaction in a store transaction that
it discards when the handler fails (`fsm/state.go`, `ApplyTransactions`), so one
message is one atomic step, and a message that is refused changes nothing. What
is hard is not a race inside a message but the *sequences* of messages: which
records two of them share, which were written under another key, by another mode,
or on another day. Every message carries the time of its sender; no handler
compares it with a block time.

| part | state | operations | shares with |
|---|---|---|---|
| accounts and pools | `Account`, eight `Pool`s, `GameTreasury` (a mirror of three pools) | all messages | everybody |
| sessions and counters | `GameSession` by game id, `PlayerStats` | start, submit | all three modes: a game id belongs to no mode and no player |
| daily competition | attempt, submission, prize record, board, allocations, claim, by day | start, submit, claim (finalizes lazily) | pool DAILY across days, sessions |
| Weekly Blitz | runs by day; total, board, claim, allocation by week; week metadata | start, submit (timed), claim | pool WEEKLY across weeks |
| classic season | all-time board; entry record, board, claim, allocation by month | start, submit, claim | pool MONTHLY across months, points |
| points, login, shop | points in `PlayerStats`, daily ledger, login claims, redemptions | submit, login claim, redeem | pool SHOP and its mirror, DAO |
| administration | none of its own | send, pool transfer, deposit, withdrawal | all pools |
| usernames | identity, older registration, reverse lookup | set username | nobody |
| reward engine | none (functions) | distribution, tier of a player, boundaries | weekly and monthly claims |
| 2048 rules | board, score and moves of a replay | replay of the moves of a game | every submission, and the page |

What makes each part correct: one paid entry per player and day, and one payment
per winner out of the money of that day, by an allocation that never changes; a
weekly board that shows the totals of paid runs; points that are earned within the
cap and a bonus that pays on one day only; monthly entries that the player's
record finds again; pools, mirror and records that tell the same story; names that
are unique without regard to case and a lookup that agrees with them; rewards that
exhaust their pool; and a score that the tiles on the board explain.

### The link between node and plugin

The node (`lib/plugin.go`) keeps two state machines, one for blocks and one for
the mempool, that share one socket to the plugin (`plugin.ts`). A machine asks
the plugin to check or deliver a transaction; while the plugin works it sends
the node reads and writes under the id of the request, and the node finds the
machine, and so the store, in a table of open requests. Every message the node
receives gets a goroutine. Hard behaviours: the lookup and the use of a machine
are two steps; an answer races a timeout; either process exits when it sees an id
that is not in its table; and everybody waits for somebody.

### The node

| part | state | operations | what is hard |
|---|---|---|---|
| consensus (`bft`) | view, phase, proposal, lock and votes of a replica; all in memory | eight phases, round interrupt, pacemaker, reset by a new root height | lost and late messages, changed leaders, locks, a restart that forgets |
| validators (`fsm`) | records, keys by height, supply tracker, non-signers, committee data | stake, edit, unstake, pause, unpause, certificate results, begin and end of a block | certificates of several chains against messages of the same block; slashing of one who unstakes; figures that are never counted again |
| exchange (`fsm/dex.go`) | next and locked batch of a chain, holding and liquidity pools, points | limit order, deposit, withdrawal, remote batch, fallback | two chains that wait for each other, batches late, lost or read again |
| order book (`fsm/swap.go`) | sell orders, their escrow pool and two indexes; blocks of the nested chain | create, edit, delete; lock, reset, close by certificates | certificates lost, overtaken, or built on a book that has changed since |
| controller, mempool | blocks in flight, transactions | gossip, sync, recheck | a reset while a block is under way |
| store, network | versions, sparse Merkle tree; peers | commit, proofs; connect, multiplex | crash between two writes; churn |

Consensus is correct when nodes never commit two blocks at one height, however
locks move; staking when nobody is left unstaking or paused for good, is released
exactly when due, and the supply tracker is what the parts add up to; the exchange
when both sides compute the same pools, pay an order once or refund it, and no
order waits for ever; the order book when an order leaves its buyer only paid or
too late, and the escrow pool holds what the orders sell.

## Modules and the code

```
 the contract
   PrizeEscrow     ArcadeState        RewardEngine      NameRegistry
        |        /    |    |   \        |    |  |           |
     DailyCompetition |    |  WeeklyBlitz ---+  |    UsernameRegistry
        |     PoolAdmin  ClassicPoints |        |      |
  DailyProperties |      ClassicSeason-|--------+      |    Board2048
     |        \   |      ClassicProperties      \      |    Replay2048
  MCDaily      Arcade -------- | -- WeeklyProperties  \ |      |
                |  |       MCSeasons    |            MCResults
          MCArcade |                 MCWeekly            |
              ArcadeProofs                          ResultsProofs
 sums
   Sums (whatever adds amounts up)    SumProofs (whatever proves about them)
 the node
   PluginLink     HeightDecision       StakingBook        DexLedger
    |      |        NestBFT              Staking          DexExchange
   MC*  *Proofs   BFTProperties      StakingProperties   DexProperties
                   |        |          |         |         |      |
                MCNestBFT *Proofs   MCStaking *Proofs    MCDex *Proofs
                                       |
                      OrderBook ---- MCRootChain
                          |
                   OrderBookProofs
```

- **`ArcadeState`**: accounts, pools, mirror, sessions and counters, with the
  helpers all handlers use: `SplitFee` (each share rounded down on its own),
  `ChargeEntry`, `PayFrom`, `NewSession`, `CompletedSession`,
  `OwnsActiveSession`. It declares the shared constants.
- **`DailyCompetition`**: `StartDailyGame`, `SubmitDailyResult` and
  `ClaimDailyReward`. A claim is the whole handler: it finalizes the day if
  nobody did (`Finalized`), looks its allocation up, or ranks the board again
  when it finds none, pays from the pool or the DAO, and rewrites the prize
  record. **`DailyProperties`** states what it guarantees; **`PrizeEscrow`** is what
  a prize competition promises at its simplest: pots that entries fill, and at
  most one payment per player and contest out of the pot. Daily, weekly and
  monthly competitions all implement it.
- **`WeeklyBlitz`**, **`WeeklyProperties`**: `StartWeeklyGame`,
  `SubmitWeeklyResult`, `ClaimWeeklyReward`. A board entry is keyed by total and
  player, so `BoardAfter` deletes the old key; sets are applied before deletes,
  as `StateWrite` in `fsm/state.go` does.
- **`RewardEngine`**: the distribution over tiers as functions, no state.
- **`ClassicPoints`**, **`ClassicSeason`**, **`ClassicProperties`**: points, logins
  and the shop; games, boards, monthly records and claims. `StoredGame` is the
  32-byte slot in which the monthly record keeps a game id.
- **`PoolAdmin`**: transfers and pool administration. **`Arcade`** composes the
  three modes, points and administration over the shared state: the whole
  contract but usernames, which share nothing with it.
- **`UsernameRegistry`**: one action, three records, begun from any state that an
  older version of the contract may have left. **`NameRegistry`** is its abstract
  specification: a name has one owner and an owner one name.
- **`Board2048`**, **`Replay2048`**: how a line is compressed, what a move does,
  when no move is left; and `replayGame` as a machine, one step per move. The
  tiles the seed yields are any tiles in any empty places.
- **`PluginLink`**: both processes, both directions of the socket, the tables, the
  goroutines and the timeouts.
- **`NestBFT`**: one height of consensus. A replica has a view (root height and
  round), a phase, a proposal and a lock; messages that were sent stay in a set
  and are received late, out of order, by some, or never. `RoundInterrupt`,
  `RootReset` and `Restart` change the view. **`BFTProperties`** states agreement and
  what it rests on, **`HeightDecision`** one decision that nodes learn, which the
  consensus implements.
- **`StakingBook`**, **`Staking`**: what the state machine keeps about validators as
  one record, with an operator for each thing a handler does to it (`Moved`,
  `PauseAll`, `SlashAll`, `ForceUnstakeMaxPaused`, `DeleteFinishedUnstaking`); and
  the blocks: `BeginBlock` with the certificate of the chain's own committee,
  the messages of validators, `Certificate` of another committee, `EndBlock` with
  rewards and releases. **`StakingProperties`** says what makes it correct.
- **`OrderBook`**: sell orders on the root chain and the nested chain that acts on
  them. `CreateOrder`, `EditOrder` and `DeleteOrder` are the seller's messages.
  `CommitBlock` appends a block of the nested chain, with a request to lock, a
  payment or nothing, and keeps the book its certificate was built on (`built`), as
  `NewRootInfo` last read it. What the certificate of block *n* says follows from
  both (`LockOrders`, `ResetOrders`, `CloseOrders`), with the few old blocks that
  are read again (`Window`). `HandleCertificate(n)` is the root chain's handler: of
  certificates it takes only later and later ones, so any may be lost or overtaken.
  A proposer is taken to read a book no older than the one of the block before:
  proposals are built again on every new root block.
- **`DexLedger`**, **`DexExchange`**: the books of one chain and how a batch is
  settled or executed on them; the two chains with their next and locked batches
  and what each may still read of the other. A batch has a serial number and names
  the batch it answers. **`DexProperties`** says what makes it correct.
- **`Sums`**: `SumOver`, the sum of the values of a function over a finite set, with
  which all modules add amounts up. **`SumProofs`** holds the lemmas about it.
- **`*Proofs`**: the theorems. **`MC*`**: values for TLC. `MCResults`,
  `MCSeasons` and `MCRootChain` put independent machines side by side: a behaviour is
  of one of them, and the others stand still.

How data is abstracted: a time is a number, and days, weeks and months are
intervals of it of given lengths (months have equal lengths). Keys that spell
several fields are sets of entries with an explicit order (`Before`,
`WeekBefore`, `MonthBefore`), which is the byte order of the key. Percentages of
the reward engine, floating-point numbers in the code, are hundredths. For the
competitions a result is any of a small set; `Replay2048` says which results there
are. Blocks, certificates and batches are compared, never looked into.
A definition marked *Mutant* is a deliberately faulty variant of the definition
after it. No specification uses it; it shows that a property would notice such a
bug.

## Runs

| run | question | properties |
|---|---|---|
| `daily_late` | three players, two game ids, two days sharing a pool; entries, results and claims also after somebody was paid | `OnePaidEntryPerPlayer` `PrizeAccounted` `ClaimsBacked` `AllocationsImmutable` `EscrowSpec` |
| `seasons` | two weeks sharing a pool, with reused ids, late results and claims; points, logins and redemptions over three days in any order; two months with a short id and claims | `BoardShowsTotals` `EarnedIsExplained` `StreakWitnessed` `BoardResultsPaid` `EntriesReachable` `SeasonEscrowsSpec` |
| `weekly_claims` | can a ranked player claim? *(no)* | `RankedCanClaim` |
| `results` | both reward configurations for up to 520 participants; all replays of six moves on small boards; two players, two names, two spellings, older records | `RewardsAgree` `ResultExplained` `LookupAgrees` `RegistrationKept` `RegistrySpec` |
| `arcade_whole` | the whole contract with administration, one player in all modes over one game id | `ArcadeTypeOK` `CountedRunsPaid` `TokensNeverCreated` `GamesKeepBooks` |
| `plugin_link` | two machines, two transactions, a timeout on either side, every order of messages and goroutines | `TouchesOwnTransaction` `FlushedWithItsWrite` `TablesHoldOpenCalls` `DeathNeedsTimeout` `CallsReturn` |
| `bft_height` | three validators, two rounds and a new root height, messages late or lost, one that restarts | `Agreement` `PromiseKept` `ElectorsHeeded` `UnlockedWhenRefuted` `DecisionSpec` |
| `dex_batches` | two chains, orders on both, a deposit and a withdrawal, batches late or lost, one lock given up | `EscrowKept` `PointsMirrored` `MirrorExact` `ExchangeAtomic` `OrdersSettle` |
| `dex_fallback` | is an order paid at most once when a lock is given up? *(no)* | `PaidAtMostOnce` |
| `root_chain` | staking: five blocks of messages, certificates, slashes, rewards and releases with two committees; orders: an order, two buyers, four blocks whose certificates are lost or come late | `SupplyAddsUp` `NobodyForgotten` `ReleasedWhenDue` `OrderBookKept` `LocksHonoured` |
| `staking_erased` | does every key to release find its validator? *(no)* | `RemovedCompletely` |
| `orders_lost` | is an order reset only if its buyer did not pay? *(no)* | `ResetOnlyUnpaid` |

The runs marked *(no)* are expected to fail: each shows a statement of the
documentation or of a comment that the code does not keep. All other runs pass,
each within three minutes with two workers.

What the passing runs show, in words:

- Whatever ids are reused and however modes interleave, a result counts only for a
  game that was paid for. A claim pays once, out of its own contest, and pool,
  prize records and claims add up to the rounding of the entry fees. No game
  message makes a pool drift from its mirror or its records. The streak of logins
  and the bonus cannot be tricked by claiming days out of order.
- The engine hands out exactly its pool, for every number of participants. A score
  is what the tiles on the board are worth less the spawned fours, and a game ends
  when no direction would change the board, which `canMove` decides without trying
  one.
- On the link, a request touches only its own machine and, as long as nobody timed
  out, only its own transaction; a flushed transaction contains its write; and
  every call returns without help from a timer.
- Locks, leaders that take over a lock, resets by the root chain and restarts of a
  few never lead to two committed blocks. What makes it so is shown apart: a
  promise is kept, a proposal heeds the locks of the leader's electors, and a
  validator unlocks only when the block of its lock can no longer be committed.
  `SafeNode` compares rounds whatever root height they are of; the run reaches that
  arm and it does no harm.
- Both chains of an exchange keep every token and agree on liquidity points whenever
  one has answered the other, unless a lock was given up and somebody deposits on
  the root chain. Until a lock is given up they agree on pool sizes to the token
  and pay an order exactly when it is not refunded.
- The supply tracker, moved by many rounded steps in many functions, stays what
  accounts, pools and stakes add up to, through slashes of several committees in a
  block, rewards with penalties and ejections.
- An order never leaves its buyer but for this buyer's payment or after this buyer's
  deadline, although a certificate may be built on a book from before the lock,
  after it was reset, or from under another buyer. The escrow pool and the two
  indexes follow the orders.

`CHECK_DEADLOCK` is off everywhere, because every system here really may stop: no
player has to send another message, a process that has exited does nothing, a
height may find no majority, and a block with a dangling key has no end.

### Bounds and why they are enough

- Contract: two or three players, since all guards compare a sender with an owner
  and one entry with another; `daily_late` needs three, so that one enters, plays
  and claims after another was paid while a third is still ranked. Two game ids
  force ids to be taken over; in `arcade_whole` one id and one player are taken
  over by the three modes. Entry fees are chosen so that rounding bites (25
  leaves dust in the daily split); initial balances bound the number of entries.
  `Time` and the day sets of `MCSeasons` list only the instants that differ: inside
  and after a period, on both sides of a day or week boundary, before and after
  the timer with its grace. `MaxTotal` stands for the largest monthly total that
  the four bytes of the record hold. Payout tables and tier configurations of two
  ranks reach renormalization, remainder, an unpaid rank and two tiers; the real
  tables are checked by `results` up to 520 participants, by which both limits on
  the winners are in force. `SpellingIds` makes game ids spell the address of
  their player: claims of weeks and months only succeed for such ids (see the
  findings), and without them that half of both modes would go unchecked. Claims of
  weeks are also made from week 10, whose id has one more digit (`WeekIdBefore`).
- `results`: boards of two rows of three have lines long enough for a double merge,
  a merge that must not merge again, and a stuck board; six moves (`ReplayBound`)
  go past the cap of four in `MoveCaps` and reach the end of a game.
- `plugin_link`: `MaxTxn` two (one per machine, or two in sequence on one),
  `MaxReads` one read before a write, `MaxTimeouts` one request in which either
  side, or both, stop waiting.
- `bft_height`: `View` has rounds 0 and 1 of one root height and round 0 of the
  next, so that a lock of round 0 meets a later certificate of the same root
  height, and one of round 1 a lower round of a later root height. Power is 2, 1, 1:
  two quorums meet in the large validator only. `Attendance` lets one small
  validator vote in round 1 only and the other in the other views; elsewhere they
  report locks, reset and restart. The proofs need none of these.
- `dex_batches`: serial numbers go round 1 to 3 (`Serial`), one more than the batches
  of a chain that can be read at a time; one lock is given up (`FallbackMax`); the
  orders are such that one can be below its minimum after another was executed.
- `root_chain`, staking: five blocks, so that unstaking (one block, two for a delegate),
  a pause (two) and the window of non-signers (five) all end inside it; one
  transaction a block besides the certificate, which is an order of two steps in
  every block; slashes of 50 and 70 percent with a cap of 80, so that two in a
  block reach the cap and eject; stakes small enough that a slash goes below the
  minimum and, twice, to nothing. Version 2 of the protocol, slashing by committee,
  begins at the third block or after the last (`Upgrade`).
- `root_chain`, orders: one order, because handlers look at one at a time and the
  proofs are for any number; two buyers (alike, hence the symmetry), since a stale
  certificate can confuse two; two offers, a cheap and a dear one, so that editing
  moves escrow both ways. The deadline of 60 blocks is 2, the blocks 15 to 11 back
  that are read again are the one before (`RecheckFrom`, `RecheckTo`), so that a
  payment is read again in time when it comes early, and too late when it comes in
  the last block, as in the code. `LastBlock` four and two transactions
  (`MaxOrderTransactions`) fit a lock with its payment, or two locks with a reset
  and the second buyer between them. `orders_lost` allows three in three blocks. A
  block holds one transaction that the order book reads.

### Fairness

- `PluginLink`: weak fairness of `NodeStep` (the Go scheduler keeps running
  goroutines that are ready) and of `PluginStep` (the event loop keeps handling
  events). Timers, new transactions and the start of work on a transaction are
  *not* fair, so `CallsReturn` does not lean on a timeout to save it.
- `DexExchange`: weak fairness of `EndBlock` (blocks end) and of `Receive` on each
  chain: the nested chain reads the root chain in every block, and a certificate
  is sent again every `TriggerModuloBlocks` blocks until one gets through. Orders
  and the fallback are not fair. `OrdersSettle` says that then all orders settle,
  unless the lock was given up.

Everything else is a safety property: players send what they like, and consensus
guarantees progress only when messages arrive in time, which the model does not say.

## Proofs

| theorem | statement |
|---|---|
| `ArcadeProofs!OneEntryAlways` | `DailySpec => []OnePaidEntryPerPlayer` |
| `ArcadeProofs!ClaimsAlwaysBacked` | `DailySpec => []ClaimsBacked` |
| `ArcadeProofs!PrizeAlwaysAccounted` | `DailySpec => []PrizeAccounted` |
| `ArcadeProofs!AllocationsNeverChange` | `DailySpec => AllocationsImmutable` |
| `ArcadeProofs!DailyImplementsEscrow` | `DailySpec => EscrowSpec` |
| `ArcadeProofs!ArcadeAlwaysTyped` | `ArcadeSpec => []ArcadeTypeOK` |
| `ArcadeProofs!StreaksAlwaysWitnessed` | `ArcadeSpec => []StreakWitnessed` |
| `ArcadeProofs!EntriesAlwaysReachable` | `ArcadeSpec => []EntriesReachable` |
| `ArcadeProofs!BoardAlwaysShowsTotals` | `ArcadeSpec => []BoardShowsTotals` |
| `ArcadeProofs!BoardResultsAlwaysPaid` | `ArcadeSpec => []BoardResultsPaid` |
| `ArcadeProofs!RunsAlwaysPaid` | `ArcadeSpec => []CountedRunsPaid` |
| `ArcadeProofs!EarnedAlwaysExplained` | `ArcadeSpec => []EarnedIsExplained` |
| `ArcadeProofs!TokensAreNeverCreated` | `ArcadeSpec => TokensNeverCreated` |
| `ArcadeProofs!GamesAlwaysKeepBooks` | `ArcadeSpec => GamesKeepBooks` |
| `ArcadeProofs!SeasonsImplementEscrow` | `GameSpec => WeeklyEscrowSpec /\ MonthlyEscrowSpec` |
| `ResultsProofs!LookupAlwaysAgrees` | `Spec => [](TypeOK /\ LookupAgrees)` |
| `ResultsProofs!NamesAlwaysUnique` | `Spec => []UniqueNames` |
| `ResultsProofs!RegistrationAlwaysKept` | `Spec => RegistrationKept` |
| `ResultsProofs!RegistryImplemented` | `Spec => RegistrySpec` |
| `ResultsProofs!RewardsAlwaysAgree` | `ResultsSpec => []RewardsAgree` |
| `ResultsProofs!ResultsAlwaysExplained` | `ResultsSpec => []ResultExplained` |
| `PluginLinkProofs!TouchesAlwaysOwn` | `LinkSpec => []TouchesOwnTransaction` |
| `PluginLinkProofs!AlwaysFlushedWithWrite` | `LinkSpec => []FlushedWithItsWrite` |
| `PluginLinkProofs!TablesAlwaysOpenCalls` | `LinkSpec => []TablesHoldOpenCalls` |
| `PluginLinkProofs!DeathAlwaysNeedsTimeout` | `LinkSpec => []DeathNeedsTimeout` |
| `NestBFTProofs!PromisesAlwaysKept` | `BFTSpec => []PromiseKept` |
| `NestBFTProofs!ElectorsAlwaysHeeded` | `BFTSpec => []ElectorsHeeded` |
| `NestBFTProofs!AlwaysUnlockedWhenRefuted` | `BFTSpec => []UnlockedWhenRefuted` |
| `NestBFTProofs!AlwaysAgreement` | `BFTSpec => []Agreement` |
| `NestBFTProofs!DecisionImplemented` | `BFTSpec => DecisionSpec` |
| `StakingProofs!NobodyEverForgotten` | `Spec => []NobodyForgotten` |
| `StakingProofs!AlwaysReleasedWhenDue` | `Spec => ReleasedWhenDue` |
| `StakingProofs!SupplyAlwaysAddsUp` | `Spec => []SupplyAddsUp` |
| `OrderBookProofs!OrdersTyped` | `OrdersSpec => []OrdersTypeOK` |
| `OrderBookProofs!LocksAlwaysHonoured` | `OrdersSpec => LocksHonoured` |
| `OrderBookProofs!IndexAlwaysExact` | `OrdersSpec => []IndexExact` |
| `OrderBookProofs!OrderBookAlwaysKept` | `OrdersSpec => []OrderBookKept` |
| `DexProofs!EscrowIsKept` | `DexSpec => []EscrowKept` |
| `DexProofs!AlternatingBatches` | `DexSpec => []FlowFacts` |
| `DexProofs!MirrorIsExact` | `DexSpec => []MirrorExact` |
| `DexProofs!PointsAreMirrored` | `DexSpec => []PointsMirrored` |
| `DexProofs!ExchangeIsAtomic` | `DexSpec => []ExchangeAtomic` |

They hold for every value of the constants that satisfies the assumptions the
modules name: the constants have their types, the sets that are added up over
(players, times, days, orders, users, addresses, chains) are finite, `NULL` is not one of the values it
stands for the absence of, weeks begin and end with a day, and for consensus two
quorums have a member in common that does not restart. A board has room for more
than two tiles (`BoardAssumption`), pools of leaderboards are amounts
(`PoolAssumption`), and in the exchange percentages are percentages and there are
more serial numbers than locks that are given up, and one (`ExchangeAssumption`):
the serial numbers of the model stand for hashes of batches, which never return.

*Sums.* `SumOver` is a fold, a recursive function chosen by `CHOOSE`, so the first
lemmas of `SumProofs` show that such a function exists and is the only one, by
counting the elements down from the cardinality of the set, and that taking one
element out of the set takes its value out of the sum (`SumRest`). Induction
principles that take a predicate as a parameter are out of reach; the lemmas that
need one (`SumPlus`, `SumUpdate`, `SumMonotone`, `SumZero`, ...) argue by the smallest
set that would be a counterexample, which is a set and not a predicate. What the
invariants need of sums is then that a step that changes one summand changes the
sum by the difference (`SumUpdate`).

*Daily.* `OnePaidEntryPerPlayer` is not inductive: it says nothing of sessions,
and it is a session that lets a result onto the board. The invariant `DailyInv`
adds `SessionsPaid` (a daily session points at the attempt that paid for it, and
while it is active its owner has no entry on that day's board) and
`RecordsOfOneGame` (submission, allocation and attempt are of one game, and only
a finalized day has allocations). With one entry per player, the summary of a
board has one allocation per player (`SummaryOfOneEntry`), which is what makes
the recomputed allocation equal to the recorded one and so allocations immutable.
The refinement maps the reward pool of a day to its pot and the claim record to
the receipt; a start is `Fund`, a claim is `Pay`, and `CoversReward` is why a pot
never pays more than it holds. `PrizeAccounted` follows the same steps with
amounts: a start adds to the pool of its day the fee less the treasury's part, but
for what rounding left of each of the four shares (`SplitDust`), and a claim moves
from the pool to the claims of the day what it pays, because the player had no
claim before (`ClaimedOnAfter`).

*The whole contract.* `ArcadeProofs` is about `ArcadeSpec`: all modes, over shared
accounts, pools, sessions and counters, with administrators.

- *Types* (`TypeInv`, with `PeriodsKnown`: a session that is being played names a day
  or week there is). That a reward is an amount is the hard part. In the reward
  engine every rewarded rank is in some tier (`RewardsNat`). On a daily board the
  keys are pairwise different, so ranks are different and without gaps, shares that
  are rounded down never add up to more than the pool, and what the last rank takes
  is not negative; so a summary distributes the pool or nothing, and
  `leftover` is never negative.
- *Streaks, boards.* Each is inductive beside the types, once the records behind the
  property are in the invariant: a streak in the counters is a claim of its date;
  a board entry's total is the record's, or zero.
- *Results and runs that count* are paid for because of the games being played: open
  sessions and results together are no more than games started (`BoardResultsPaid`),
  and for weeks no more than the runs of the days of that week (`CountedRunsPaid`),
  where a week is a whole number of days and a start pays on a day of its own week. A
  start that takes over a game id only closes other games.
- *Points.* `EarnedIsExplained` is inductive with one more part: a bonus in force was
  won by the login claim of that day. The bonus is rounded for each game and the
  bound for the whole day, and rounded parts never exceed the rounded whole
  (`SharesAdd`).
- *Money.* Every message charges an entry, pays out of a pool, or moves tokens by hand
  (`MoneySteps`). The rounded shares of a fee add up to no more than the fee
  (`SplitCovered`), and a transfer to oneself loses tokens and never makes any.
  `GamesKeepBooks` looks at the same cases one book at a time; when the DAO pool has
  not changed, a payout came from the pool the records name. `SeasonsImplementEscrow`
  is about `GameSpec`, what players send, since an administrator may take from the
  weekly pool what its claims do not know of.

*Usernames.* `LookupAgrees` together with `TypeOK` is inductive; the case that
needs care is a player who only has the older record and takes another spelling
of the same name, where the old key is the new one. Uniqueness and the
refinement follow from it.

*Link.* The invariant follows a request around. As long as nobody stopped waiting in
it, a request is at one place of the two processes at a time (one direction of
the socket, a goroutine, the plugin), that place is the one the plugin's progress
says, and its machine waits for it with its transaction open. So a goroutine that
looks a machine up finds the one whose transaction it will touch, an answer finds
its table entry, and the answer follows the confirmation of the write. Once
somebody timed out the invariant claims nothing of that request but that the
machine is its own.

*Consensus.* The invariant `IInv` says of votes what they promise. `VotesBehind`: nobody
votes in a view ahead of its own. `OneVote`: one proposal gets the vote of a
validator in a view. `Certified`: two thirds of votes are behind every lock and
whatever follows. `RootsBehind`: no lock is of a later root height than its holder.
`PromiseKept`, `PromiseReported`: a lock, and the vote for a leader that reports it, is
as late as the votes to commit before it. `HeardHeeded`, `ElectorsHeeded`: a leader
has, and proposes, a lock as late as those it heard of, or one of its own root
height. `UnlockedWhenRefuted` is what all this is for: a vote against a block that
the voter once voted to commit is cast only when that block is refuted, that is,
when every two thirds has a member that has not voted to commit it and is past
that view. `SafeNodeIsSafe` is the step that matters: a justification of a later view
refutes the certificate of the lock, because its own two thirds share a member
with any that could still commit; one of an earlier view has a smaller root
height, and then no elector of the leader voted to commit, or the leader would
have heeded it. So comparing rounds whatever root height they are of does no harm.
Of two commits for different blocks the later one would refute the earlier
(`AlwaysAgreement`), and the refinement maps the certificates to commit to the
blocks that are chosen.

*Staking.* The invariant says that records and keys tell the same: whoever unstakes
or is paused has its key at a height that is not over (`HasKeys`), and each key to
release, but for addresses a slash removed, has a record that unstakes at exactly
that height (`HasRecords`). `FollowsTidy` shows it once for all handlers: records
change in few allowed ways (`Allowed`), and keys follow records (`Follows`). One
lemma for each operator of the book shows that it makes allowed changes only.
`ForcedTidy` and `DeletedTidy` are the end of a block, after which what was in
order for this height is in order for the next one. None of this depends on amounts.

`SupplyAlwaysAddsUp` has an invariant of its own, `SupplyInv`, that uses of the other
only that heights are positive. `Figures` says that who has no record has no stake and
that nothing was slashed past the maximum of a block; `Tallied` that the tracker has the
figures of the records, for delegates at least. `MovedTallied` shows once for all
handlers that the tracker follows records and stakes, if a record stays one of a
delegate or of a validator (`Steady`) and whoever the tracker passes over loses stake
and committees and gains none (`Shrinks`): that is why a slash, which passes over
delegates, leaves their figures too high and never too low. What the tracker
holds beside the stakes (`Unstaken`) is then followed through each step: a slash burns
from both alike, a block adds what it mints, who stakes pays from the account, and at
the end of a block the rewards of a table of addresses and committees are added up by
address and burnt by committee (`SumExchange`).

*Orders.* What a certificate may do wrong is to act on a lock or an open order that
its book has and the root chain's has not. `Books` lists the books on which the
certificates still to come are built, the next block's included. The invariant
`LockInv` relates them: a lock that one of them knows is the lock there is, if there
is one (`SameLock`, which gives the theorem); after a book with an open order none
has a lock while the order is open (`OpenSince`), so no certificate that is still to
come knows a lock from before the one that a certificate sets; and a lock that a later
book lost is gone (`GoneForGood`), so a reset order is not taken for open under it.
Each needs the others when a certificate arrives. That later blocks never read older
books is what carries them through a new block and a new book. Keys of the indexes
end with the id of their order, so each order is looked at alone. Escrow and tokens
are sums over orders and users of which each handler changes one or two summands.

*Exchange.* Three invariants, each on top of the one before.

- *Types and accounts* (`ExchangeTypes`, `AllAccounted`). The holding pool of a chain is
  what its two batches escrow, and a chain's tokens together (`Wealth`) never change.
  `SettleKeeps`, `ExecuteKeeps`, `WithdrawKeeps` and `DepositKeeps` show it for the four
  parts of a batch, whose loops are folds. That the liquidity pool never goes below
  zero is arithmetic: a constant product pays out less than there is, and the shares
  of all who withdraw, rounded down one by one, are no more than the pool. That the
  points are amounts needs the integer square root to be monotone.
- *Alternation* (`DexInv`). Of two chains that wait for each other, one is ahead: nothing
  was locked yet (`NotStarted`), or the batch of the nested chain answers that of the
  root chain (`NestedAhead`), or the other way round (`RootAhead`). `InSequence` says
  that serial numbers follow each other without a gap. Each lock that is given up lets
  the nested chain be one more batch ahead, so up to `FallbackMax + 1` of its batches
  may still be read, and `Serial` must tell them apart. `FlowFacts` is what it comes
  to: a batch that is read late, or again, is not taken for the one that is waited
  for. On top of it, `Reflects` and `InStep` say that
  the chain ahead has in its books what the other will have once it settles the answer:
  both then burn and mint the same points from the same pools, in the same order.
- *Atomicity* (`ExchangeIsAtomic`). An order that is still locked is open, and it was
  paid exactly when the receipt in the answer says so (`PaidAsAnswered`); an order that
  waits was never paid; and none is in two places of these lists (`Distinct`).

*Rewards.* The ranks of the tiers are cut one after another from those that are paid,
so each paid rank is in one tier. In a tier the rewards are rounded, and their
sum is at most the part of the tier; the first rank takes what is left of the pool.
Winners are never more than participants, so that the three places that cut the
ranking (rewards, the tier of a player, the boundaries shown) cut it alike.

*2048.* What a tile is worth, `Worth`, is a recursive function; a least number at which
two such functions differ, or none is defined, does not exist. `compressLine` is a
fold over the tiles of a line: tiles already in front are worth what was read plus
what was scored, and none has moved or merged as long as the line read so far has
neither a gap nor two equal neighbours (`Stuck`). The lines of a direction are a
partition of the board, so what holds of lines adds up: a move keeps what the board
is worth but for the score, and changes nothing exactly when all lines are stuck.
`canMove` agrees: with an empty cell and a tile, some row or column has a gap that one
of two opposite directions closes; on a full board, two equal neighbours are in a line
that is not stuck. Without a tile an empty board would be a counterexample, so the
invariant `GameInv` adds to `ResultExplained` that there is one.

*Only model-checked* is liveness under fairness (`CallsReturn`, `OrdersSettle`), which is
out of the provers' reach. Every safety property of a passing run is proved, with `SeasonEscrowsSpec`
in the form of `SeasonsImplementEscrow`, whose two parts it joins. Where
an argument is by induction, over a number, a sequence or a set, the proof takes the
set of counterexamples and its least element, because the induction theorems of
the library take a predicate as a parameter.

## Findings

1. `weekly_claims` (`contract.ts:2270`). Board entries are protobuf messages, and the
   claim reads their first twenty bytes as the address of a player, which they are
   not. Unless a game id was made to spell an address, no winner is found.
2. `dex_fallback` (`fsm/dex.go:681`). The nested chain locks its batch N2 in the step
   that executes batch R1 of the root chain, and N2 carries the receipts of R1.
   When it gives up the lock on N2 it drops these receipts, finds no lock and
   executes R1, which is still published, again: the orders of R1 are paid twice.
3. `staking_erased` (`fsm/validator.go:273`). A slash that leaves no stake removes
   a validator that is unstaking and leaves its key. At the height of the key
   `DeleteFinishedUnstaking` finds no validator, `EndBlock` returns the error, and no
   block of that height can be applied; if the address has staked again, the new
   stake is released at once. With the default parameters (no minimum stake,
   two blocks of unstaking, a window of five) a stake of 1 is enough.
4. `orders_lost` (`fsm/swap.go:138`). An expired lock is reset without a look for a
   payment. When the one certificate that closed the order is lost or overtaken, the
   payment is found again 11 to 15 blocks later, but only if the deadline is not
   over by then: a payment in the last ten blocks before it is lost with its
   certificate, and the order is for sale again.

## Other observations

Met while modelling; the models behave as the code does in each case, unless a
line says otherwise, and no run is kept for them.

*Contract*

- A player who enters and plays after the first claim of a day has no allocation;
  its claim ranks the board again and pays from what is left, so that an earlier
  winner who has not claimed yet finds less than its recorded allocation and is
  refused (`contract.ts:1841`; `docs/2048-daily-prize-pool-v1.md:11` promises the top
  ten a claimable reward).
- A transfer to oneself computes both new amounts from the old one and writes the
  debit last: the amount is lost (`contract.ts:674`).
- The monthly claim parses its board as the weekly one does (`contract.ts:2041`).
- The winners of a finalized day are not final: late entries get allocations of
  their own on a later claim. A day with fewer results than paid ranks pays
  everything to those there are, so `leftover` stays zero.
- Each share of a fee is rounded down and the rest is credited to nobody.
- Tier sizes are rounded down one by one, so there can be more winners than paid
  ranks: 24 weekly participants have 7 winners and 6 paid ranks. Fifty monthly
  participants have 10 paid ranks, and rank 5 gets less than rank 6, which opens the
  next tier: rewards descend within a tier only.
- A first weekly run that scores zero leaves a board entry that later runs do not
  delete (`contract.ts:1562`), and a later run that scores zero deletes the key it
  has just written, because deletes are applied last: the player is off the board
  until the next run (`fsm/state.go:861`).
- Weeks are compared by the text of their ids (`contract.ts:2183`), so that `week_10`
  comes before `week_9`: where the number of digits grows, claims of finished weeks
  are refused and weeks to come pass. It takes a time of the year 2161 to get there.
- A weekly run that is started before the end of a week counts for that week when
  its result arrives after it, also after others have claimed.
- A game id that is not 32 bytes long is changed by the slot of the monthly record,
  and the old entry stays on the board (`contract.ts:1622`).
- Two redemptions with the same time and points share a key, and one record is
  lost (`contract.ts:2598`). A monthly total beyond four bytes makes the write throw
  (`contract.ts:1633`).
- The DAO pool pays for a redemption when an administrator has emptied the shop
  pool (`contract.ts:2524`), and prize pools can be emptied as well.
- A transaction without a time takes the date from the clock of the node that
  executes it (`utils/time.ts:12`), so replicas may disagree about it.
- When the list of moves ends before the game does, the contract records whatever
  reason was declared, and 0 as *player stopped* (`replay.ts:55`,
  `contract.ts:1426`). The cap on moves is looked at before the end of the game,
  and moves that change nothing count towards it.

*Link and page*

- After a timeout a late write of the plugin can land in the machine's *next* store
  transaction (`TouchesOwnTransaction` excepts exactly this), and the late answer
  makes the node exit. The node waits one second by default, the plugin ten.
- The page that plays the game (not modelled) keeps one record of a run per
  browser: two tabs share it, a late response about one run marks another as
  submitted, and a double click on start pays twice.

*Consensus*

- `SafeNode` (`bft.go:729`) compares rounds only, while its comment speaks of an older
  view and `View.Less` orders by root height first. `UnlockedWhenRefuted` holds all
  the same.
- A leader that learns a later lock from a vote takes the block from the vote, not
  from the lock (`vote.go:141`), so its proposal is gone and nobody accepts what it
  would send; the round is lost.
- A leader may give up a lock it heard of by locking in the current view after an
  early vote, which is why `ElectorsHeeded` allows a certificate of the same root
  height.

*Staking*

- A slash of a delegate updates committees as for a validator and never reduces
  the figures of delegates (`byzantine.go:370`), which stay too high; `SupplyAddsUp`
  asks only that they are never too low.
- Every certificate at the end of a window settles and resets the counters of all
  chains, so that the first committee to report in that block decides for the
  others; a comment documents that as intended.
- `ForceUnstakeMaxPaused` uses the unstaking blocks of validators for whoever has the
  key, also for an address that is a delegate by now.

*Exchange and order book*

- A nested chain that gives up its lock copies the points of the root chain, and then
  executes the root chain's batch again, with the mirror of a pool that the root chain
  had half way through its own step. The orders of the batch leave that mirror
  elsewhere than the first time, so deposits of the root chain mint other points on
  the two chains, and nothing brings them together again (`fsm/dex.go`,
  `HandleLivenessFallback`). `PointsMirrored` excepts this; the instance of
  `dex_batches` has its deposit on the nested chain.
- After a refund by the fallback, an order of a batch in flight may still be
  executed by the root chain.
- A lock transaction that is read again 11 to 15 blocks later can lock an order
  that was reset, or edited, in the meantime, with a new deadline and perhaps on
  terms that its buyer never saw (`swap.go:105`, `LockOrder`).
- Replicas accept a proposal built on a root height as old as the one of the
  second last block (`bft.go:383`), so a proposer that does not follow
  `ProduceProposal` could read an older book than the block before; the order book
  assumes it does not.

## What is not modelled

- *Contract*: the bytes of keys and values, except where a property is about them;
  stateless message checks (the actions are offered only what passes them);
  changes of the game configuration, for which there is no message; execution of
  one block by several replicas, and block times. The hash that draws tiles is any
  draw.
- *Link*: the handshake, detached queries, Genesis, Begin and End, the lengths of the
  timers, and reconnection (the code has none).
- *Consensus*: validators that lie, and evidence of it; sortition (any
  candidate of a view may be followed), the delay functions, a set of validators
  that changes with the root height, a root height that is announced twice, and
  the reuse of stored proposals after a silent change of root height. Restart stands
  for a restart of the process and for the reset at the same height in
  `controller.go`.
- *Staking*: fees, transfers, subsidies, transfers of the DAO, output addresses,
  retired committees, caps on committee sizes and overflow of 64 bits. The
  addresses of the model do not decide a committee: others hold the majority. The
  committee of another chain's certificate is that of the current root height.
  Evidence of double signing is given once per certificate and may be about anybody,
  as in `HandleDoubleSigners`; how old it may be is left to those who vote for it. Which
  committees are subsidized does not change.
- *Exchange*: all users of a chain are one account; how old a lock is before it is
  given up is any time; failures of the books (`ErrRemotePoolSizeDebit`,
  `ErrInvalidLiquidityPool`) are steps that are not taken; the cap on liquidity
  providers.
- *Order book*: a chain that is its own root, the fee and the cap of 1000 lock
  orders, separate addresses of a buyer for paying and receiving, several
  transactions for an order in one block, the queries by page.
- *Not at all*: governance, mempool, block sync and gossip, store,
  network, query interfaces, command line, wallet and explorer, deployment,
  maintenance tools, and the plugin templates in other languages. About half of the
  repository's lines are generated protobuf code (`index.cjs`, `index.js`) and a
  third are user interface; neither has state of its own that a model could follow
  faithfully, which is why the modules stand for a small share of all lines.

## What could follow

The mempool with dropping and recheck; the store's commit with a crash between two writes; a root
height that changes the set of validators during a height; progress of consensus
once messages arrive in time.
