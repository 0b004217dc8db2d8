----------------------------- MODULE ArcadeState -----------------------------
(***************************************************************************)
(* The state every ProofArcade message handler shares: accounts, the       *)
(* protocol pools, the GameTreasury mirror of three of those pools, the    *)
(* game sessions and the per-player counters.  The competition modules     *)
(* extend this one and add the records of their own mode.                  *)
(*                                                                         *)
(* One DeliverTx is one atomic step: the state machine wraps it in a store *)
(* transaction that it discards when the handler returns an error          *)
(* (fsm/state.go, ApplyTransactions), so a rejected message is a disabled  *)
(* action, and a handler that writes twice is one action.                  *)
(*                                                                         *)
(* Time is the sender's: tx.time is never compared with a block time, so   *)
(* every action picks the time of its transaction freely.                  *)
(***************************************************************************)
EXTENDS Sums

CONSTANTS
  Player,          \* player addresses
  GameId,          \* game ids, ordered as their bytes are
  NULL,            \* an absent record
  Time,            \* the times a transaction may carry
  DayLength,       \* how many units of Time a UTC day has
  InitialBalance,  \* what every account holds at genesis
  InitialDao       \* what the DAO pool holds at genesis

ASSUME StateAssumption ==
  /\ IsFiniteSet(Player)
  /\ GameId \subseteq Nat
  /\ NULL \notin Int \cup Player
  /\ IsFiniteSet(Time) /\ Time \subseteq Nat
  /\ DayLength \in Nat \ {0}
  /\ InitialBalance \in Nat
  /\ InitialDao \in Nat

VARIABLES
  account,   \* Account.amount of every player
  pool,      \* Pool.amount of every protocol pool
  treasury,  \* the GameTreasury record that mirrors three of the pools
  session,   \* the GameSession record of every game id
  stats      \* the PlayerStats counters of every player

stateVars == <<account, pool, treasury, session, stats>>

-----------------------------------------------------------------------------
\* The UTC day a time falls in, as a number.
DateOf(now) == now \div DayLength
Day == {DateOf(t) : t \in Time}

\* The pools a fee or a payout touches; FEE is the fee pool of the chain.
PoolId == {"FEE", "DAO", "PLATFORM", "RESERVE", "SHOP", "DAILY", "MONTHLY", "WEEKLY"}

\* The pools that GameTreasury mirrors.
MirroredPool == {"PLATFORM", "RESERVE", "SHOP"}

BpsDenominator == 10000

\* amount * bps / 10000, rounded down.
BpsAmount(amount, bps) == (amount * bps) \div BpsDenominator

\* The four default splits of an entry fee, in basis points.
DailyBps   == [PLATFORM |-> 500, DAILY |-> 8000, RESERVE |-> 1000, SHOP |-> 500]
ClassicBps == [PLATFORM |-> 500, MONTHLY |-> 3000, RESERVE |-> 2000, SHOP |-> 4500]
WeeklyBps  == [PLATFORM |-> 500, WEEKLY |-> 6000, RESERVE |-> 1500, SHOP |-> 2000]

\* What each pool receives of an entry fee: every share is rounded down on its
\* own and nothing collects what the rounding leaves.
SplitFee(bps, fee) ==
  [i \in PoolId |-> IF i \in DOMAIN bps THEN BpsAmount(fee, bps[i]) ELSE 0]

\* The part of an entry fee that goes to no reward pool.
TreasuryPart(split) == split["PLATFORM"] + split["RESERVE"] + split["SHOP"]

\* Charge p an entry fee and credit the pools with its split.  The mirror moves
\* with the three pools it covers.
ChargeEntry(p, fee, split) ==
  /\ account[p] >= fee
  /\ account' = [account EXCEPT ![p] = @ - fee]
  /\ pool' = [i \in PoolId |-> pool[i] + split[i]]
  /\ treasury' = [i \in MirroredPool |-> treasury[i] + split[i]]

\* Mutant: the player is credited and the pool is not debited.
CreditOnly(i, p, amount) ==
  /\ pool[i] >= amount
  /\ account' = [account EXCEPT ![p] = @ + amount]
  /\ UNCHANGED pool

\* Move amount out of pool i to p's account.
PayFrom(i, p, amount) ==
  /\ pool[i] >= amount
  /\ pool' = [pool EXCEPT ![i] = @ - amount]
  /\ account' = [account EXCEPT ![p] = @ + amount]

-----------------------------------------------------------------------------
Mode == {"daily", "classic", "weekly"}

\* A session as a start handler writes it.  It replaces whatever the game id
\* held: no start handler reads the session it writes.
NewSession(p, mode, period, expires) ==
  [owner |-> p, mode |-> mode, period |-> period, expires |-> expires,
   status |-> "active"]

\* Mutant: the completed session stays active.
StillActiveSession(s) == [s EXCEPT !.expires = 0]

\* completeSession writes every field but the ones of Weekly Blitz.
CompletedSession(s) ==
  [owner |-> s.owner, mode |-> s.mode, status |-> "completed", expires |-> 0,
   period |-> IF s.mode = "daily" THEN s.period ELSE 0]

\* Mutant: the status of the session is not checked.
OwnsSession(p, g) == session[g] # NULL /\ session[g].owner = p

\* The guards a submission passes before its replay: the session exists,
\* belongs to the sender and is active.
OwnsActiveSession(p, g) ==
  /\ session[g] # NULL
  /\ session[g].owner = p
  /\ session[g].status = "active"

\* The counters of p after one more game of a kind was started or completed.
CountGame(p, kind) == [stats EXCEPT ![p][kind] = @ + 1]

-----------------------------------------------------------------------------
StateInit ==
  /\ account = [p \in Player |-> InitialBalance]
  /\ pool = [i \in PoolId |-> IF i = "DAO" THEN InitialDao ELSE 0]
  /\ treasury = [i \in MirroredPool |-> 0]
  /\ session = [g \in GameId |-> NULL]
  /\ stats = [p \in Player |-> [daily |-> 0, classic |-> 0, completed |-> 0]]

SessionRecord ==
  [owner : Player, mode : Mode, period : Nat, expires : Nat,
   status : {"active", "completed"}]

StateTypeOK ==
  /\ account \in [Player -> Nat]
  /\ pool \in [PoolId -> Nat]
  /\ treasury \in [MirroredPool -> Nat]
  /\ session \in [GameId -> SessionRecord \cup {NULL}]
  /\ stats \in [Player -> [daily : Nat, classic : Nat, completed : Nat]]

\* Everything the players and the pools hold.
TotalTokens == SumOver(account, Player) + SumOver(pool, PoolId)

\* A split of one fee in four shares loses less than one unit per share.
MaxDust == 3
=============================================================================
