----------------------------- MODULE DexExchange -----------------------------
(***************************************************************************)
(* The exchange between a root chain and a chain nested in it (fsm/dex.go). *)
(* Each chain collects orders, deposits and withdrawals in its next batch,  *)
(* locks a batch, and keeps the lock until the other chain answers it: a    *)
(* batch answers the one it was locked after, and carries its receipts.     *)
(*                                                                         *)
(* The nested chain reads the batch of the root chain at the root height a  *)
(* block was built on, which may lag; the root chain learns the batch of    *)
(* the nested chain from certificate transactions, which are sent again     *)
(* every TriggerModuloBlocks blocks and may be lost or late.  Both are the  *)
(* outbox here: what was published and may still be read.                   *)
(***************************************************************************)
EXTENDS DexLedger, Functions

CONSTANTS
  NULL,
  Order,            \* records [id, chain, sale, min]
  Deposit,          \* records [id, chain, who, amount]
  Withdrawal,       \* records [id, chain, who, percent]
  Provider,         \* who may hold liquidity points, with DeadAddress
  InitialAccount,   \* chain -> what its users hold
  InitialLiquidity, \* chain -> the pool it was started with
  MaxOrdersPerDexBatch, MaxDepositsPerDexBatch, MaxWithdrawsPerDexBatch,
  Serial,           \* Bound: batches are numbered around 1 .. Serial
  FallbackMax       \* Bound: how often the nested chain gives up a lock

Chain == {"root", "nested"}
Other(c) == IF c = "root" THEN "nested" ELSE "root"

\* A percentage is one, and a batch number does not return while a batch with it
\* may still be read: the code compares hashes, which never return.
ASSUME ExchangeAssumption ==
  /\ \A o \in Order : o.chain \in Chain /\ o.sale \in Nat /\ o.min \in Nat
  /\ \A d \in Deposit : d.chain \in Chain /\ d.who \in Provider /\ d.amount \in Nat
  /\ \A w \in Withdrawal : w.chain \in Chain /\ w.who \in Provider /\ w.percent \in 0 .. 100
  /\ IsFiniteSet(Provider)
  /\ InitialAccount \in [Chain -> Nat] /\ InitialLiquidity \in [Chain -> Nat]
  /\ {MaxOrdersPerDexBatch, MaxDepositsPerDexBatch, MaxWithdrawsPerDexBatch} \subseteq Nat
  /\ FallbackMax \in Nat /\ Serial \in Nat /\ Serial > FallbackMax + 1
  /\ NULL \notin Nat

VARIABLES
  ledger,     \* chain -> its books
  next,       \* chain -> the operations that wait for the next batch
  locked,     \* chain -> the batch that waits for its answer
  fresh,      \* chain -> the batch was locked in the block that is still open
  serial,     \* chain -> the number of its last batch
  outbox,     \* chain -> the batches published that may still be read
  fallbacks,  \* how often the nested chain gave up its lock
  placed,     \* history: the operations sent
  outcome,    \* history: order -> "open", "kept" or "returned" by its chain
  payments    \* history: order -> how often the other chain paid it

vars == <<ledger, next, locked, fresh, serial, outbox, fallbacks, placed, outcome, payments>>

-----------------------------------------------------------------------------
NoOps == [orders |-> <<>>, deposits |-> <<>>, withdrawals |-> <<>>]

\* A batch that was never locked: no receipt hash, no operation.
NoBatch(pool) ==
  [id |-> 0, answers |-> NULL, ops |-> NoOps, receipts |-> <<>>,
   poolSize |-> pool, counterPoolSize |-> 0]

IsEmpty(batch) == batch.answers = NULL /\ batch.receipts = <<>> /\ batch.ops = NoOps

\* A batch as the other chain reads it, with the liquidity points of the moment.
Published(batch, points) == [batch |-> batch, points |-> points]

Init ==
  /\ ledger = [c \in Chain |->
        [account |-> InitialAccount[c], holding |-> 0, liquidity |-> InitialLiquidity[c],
         points |-> [p \in Provider \cup {DeadAddress} |-> 0]]]
  /\ next = [c \in Chain |-> NoOps]
  /\ locked = [c \in Chain |-> NoBatch(InitialLiquidity[c])]
  /\ fresh = [c \in Chain |-> FALSE]
  /\ serial = [c \in Chain |-> 0]
  /\ outbox = [c \in Chain |-> <<Published(locked[c], ledger[c].points)>>]
  /\ fallbacks = 0
  /\ placed = {}
  /\ outcome = [o \in Order |-> "open"]
  /\ payments = [o \in Order |-> 0]

-----------------------------------------------------------------------------
(* Transactions of users. *)

Escrowed(books, amount) == [books EXCEPT !.account = @ - amount, !.holding = @ + amount]

\* HandleMessageDexLimitOrder
PlaceOrder(o) ==
  LET c == o.chain IN
  /\ o \notin placed
  /\ ledger[c].liquidity > 0
  /\ Len(next[c].orders) < MaxOrdersPerDexBatch
  /\ ledger[c].account >= o.sale
  /\ ledger' = [ledger EXCEPT ![c] = Escrowed(@, o.sale)]
  /\ next' = [next EXCEPT ![c].orders = Append(@, o)]
  /\ placed' = placed \cup {o}
  /\ UNCHANGED <<locked, fresh, serial, outbox, fallbacks, outcome, payments>>

\* HandleMessageDexLiquidityDeposit
PlaceDeposit(d) ==
  LET c == d.chain IN
  /\ d \notin placed
  /\ ledger[c].liquidity > 0
  /\ Len(next[c].deposits) < MaxDepositsPerDexBatch
  /\ ledger[c].account >= d.amount
  /\ ledger' = [ledger EXCEPT ![c] = Escrowed(@, d.amount)]
  /\ next' = [next EXCEPT ![c].deposits = Append(@, d)]
  /\ placed' = placed \cup {d}
  /\ UNCHANGED <<locked, fresh, serial, outbox, fallbacks, outcome, payments>>

\* HandleMessageDexLiquidityWithdraw
PlaceWithdrawal(w) ==
  LET c == w.chain IN
  /\ w \notin placed
  /\ ledger[c].liquidity > 0
  /\ Len(next[c].withdrawals) < MaxWithdrawsPerDexBatch
  /\ ledger[c].points[w.who] > 0
  /\ next' = [next EXCEPT ![c].withdrawals = Append(@, w)]
  /\ placed' = placed \cup {w}
  /\ UNCHANGED <<ledger, locked, fresh, serial, outbox, fallbacks, outcome, payments>>

-----------------------------------------------------------------------------
(* The batches. *)

Opened(books, counter) ==
  [account |-> books.account, holding |-> books.holding, liquidity |-> books.liquidity,
   points |-> books.points, counter |-> counter, receipts |-> <<>>]
Closed(books) ==
  [account |-> books.account, holding |-> books.holding,
   liquidity |-> books.liquidity, points |-> books.points]

\* Mutants: the receipts are counted, the hash is not compared; a batch without
\* receipts answers nothing.
AnswersInNumber(remote, own) == Len(remote.receipts) = Len(own.ops.orders)
AnswersWithReceipts(remote, own) ==
  /\ remote.answers = own.id /\ Len(remote.receipts) = Len(own.ops.orders)
  /\ remote.receipts # <<>>

\* HandleReceiptsForOurLockedBatch: a lock is lifted by the batch that carries
\* its hash and a receipt for each of its orders.
Answers(remote, own) ==
  remote.answers = own.id /\ Len(remote.receipts) = Len(own.ops.orders)

OrdersOf(ops) == {ops.orders[i] : i \in DOMAIN ops.orders}

\* RotateDexBatches: what was collected becomes the locked batch.
Rotate(c, remote, mid, books) ==
  LET id == (serial[c] % Serial) + 1 IN
  /\ serial' = [serial EXCEPT ![c] = id]
  /\ locked' = [locked EXCEPT ![c] =
        [id |-> id, answers |-> remote.id, ops |-> next[c],
         receipts |-> books.receipts, poolSize |-> mid, counterPoolSize |-> books.counter]]
  /\ next' = [next EXCEPT ![c] = NoOps]
  /\ fresh' = [fresh EXCEPT ![c] = TRUE]

\* The orders of a batch that got something.
PaidBy(ops, receipts) == {ops.orders[i] : i \in {j \in DOMAIN receipts : receipts[j] # 0}}

\* HandleRemoteDexBatch for a batch of the other chain, when the books are these
\* and this is the own batch: its receipts, then the batch, whose orders are
\* taken in an order drawn from the last block, then a new lock.
HandleBatch(c, remote, books, own) ==
  \/ /\ IsEmpty(remote) /\ IsEmpty(own)
     /\ Rotate(c, remote, books.liquidity, Opened(books, remote.poolSize))
     /\ ledger' = [ledger EXCEPT ![c] = books]
     /\ UNCHANGED payments
  \/ /\ ~IsEmpty(remote)
     /\ IsEmpty(own) \/ Answers(remote, own)
     /\ \E traded \in {SettleOrders(Opened(books, remote.poolSize), own.ops.orders,
                                    remote.receipts)} :
        \E withdrawn \in {WithdrawAll(traded, own.ops.withdrawals)} :
        \E settled \in {DepositAll(withdrawn, own.ops.deposits, TRUE)} :
        \E ordering \in Bijection(DOMAIN remote.ops.orders, DOMAIN remote.ops.orders) :
        \E executed \in {ExecuteOrders(settled, remote.ops.orders, ordering)} :
        \E shared \in {WithdrawAll(executed, remote.ops.withdrawals)} :
        \E done \in {DepositAll(shared, remote.ops.deposits, FALSE)} :
          /\ traded.counter > 0
          /\ settled.counter > 0 /\ settled.liquidity > 0
          /\ ledger' = [ledger EXCEPT ![c] = Closed(done)]
          /\ Rotate(c, remote, settled.liquidity, done)
          /\ payments' = [o \in Order |->
                IF o \in PaidBy(remote.ops, done.receipts) THEN payments[o] + 1
                ELSE payments[o]]

\* What the receipts make of the orders of a batch.
Decided(own, receipts) ==
  [o \in Order |->
     IF o \notin OrdersOf(own.ops) THEN outcome[o]
     ELSE IF o \in PaidBy(own.ops, receipts) THEN "kept" ELSE "returned"]

\* HandleDexBatch at the beginning of a block of the nested chain, or when a
\* certificate of the nested chain is delivered to the root chain.  What was
\* published before is not read again; a read that changes nothing is left out.
Receive(c) ==
  /\ ledger[c].liquidity > 0
  /\ \E i \in DOMAIN outbox[Other(c)] :
       LET remote == outbox[Other(c)][i].batch IN
       /\ c = "root" => ~IsEmpty(remote)
       /\ HandleBatch(c, remote, ledger[c], locked[c])
       /\ outcome' = Decided(locked[c], remote.receipts)
       /\ outbox' = [outbox EXCEPT ![Other(c)] = SubSeq(@, i, Len(@))]
  /\ UNCHANGED <<fallbacks, placed>>

\* What the holding pool keeps for the operations of a batch.
Escrow(ops) == Sold(ops.orders) + Put(ops.deposits)

\* Mutant: the points are not those of the root chain.
RefundedOnly(books, own, points) ==
  [books EXCEPT !.holding = @ - Escrow(own.ops), !.account = @ + Escrow(own.ops)]

\* HandleLivenessFallback: refunded, and the points of the root chain.
Refunded(books, own, points) ==
  [books EXCEPT !.holding = @ - Escrow(own.ops), !.account = @ + Escrow(own.ops),
                !.points = points]

\* The nested chain gives up a lock that is LivenessFallbackBlocks old, by a
\* batch of the root chain that a block has read and that does not answer it,
\* and handles that batch again.
Fallback ==
  LET own == locked["nested"] IN
  /\ fallbacks < FallbackMax
  /\ ~IsEmpty(own) /\ ~fresh["nested"]
  /\ ledger["nested"].liquidity > 0
  /\ \E i \in DOMAIN outbox["root"] :
       LET seen == outbox["root"][i] IN
       /\ IsEmpty(seen.batch) \/ ~Answers(seen.batch, own)
       /\ HandleBatch("nested", seen.batch, Refunded(ledger["nested"], own, seen.points),
                      NoBatch(0))
       /\ outbox' = [outbox EXCEPT !["root"] = SubSeq(@, i, Len(@))]
  /\ outcome' = [o \in Order |-> IF o \in OrdersOf(own.ops) THEN "returned" ELSE outcome[o]]
  /\ fallbacks' = fallbacks + 1
  /\ UNCHANGED placed

\* canMove of IncludeSameBlockDex
Moved(ops, waiting, max) == SubSeq(waiting, 1, Min({Len(waiting), max - Len(ops)}))
Left(ops, waiting, max) == SubSeq(waiting, Len(Moved(ops, waiting, max)) + 1, Len(waiting))

\* IncludeSameBlockDex: operations of the block that locked the batch join it.
Included(ops, late) ==
  [orders |-> ops.orders \o Moved(ops.orders, late.orders, MaxOrdersPerDexBatch),
   deposits |-> ops.deposits \o Moved(ops.deposits, late.deposits, MaxDepositsPerDexBatch),
   withdrawals |-> ops.withdrawals
                     \o Moved(ops.withdrawals, late.withdrawals, MaxWithdrawsPerDexBatch)]
LeftOver(ops, late) ==
  [orders |-> Left(ops.orders, late.orders, MaxOrdersPerDexBatch),
   deposits |-> Left(ops.deposits, late.deposits, MaxDepositsPerDexBatch),
   withdrawals |-> Left(ops.withdrawals, late.withdrawals, MaxWithdrawsPerDexBatch)]

\* The end of the block that locked the batch, which makes it public.
EndBlock(c) ==
  /\ fresh[c]
  /\ \E batch \in {[locked[c] EXCEPT !.ops = Included(@, next[c])]} :
       /\ locked' = [locked EXCEPT ![c] = batch]
       /\ outbox' = [outbox EXCEPT ![c] = Append(@, Published(batch, ledger[c].points))]
  /\ next' = [next EXCEPT ![c] = LeftOver(locked[c].ops, @)]
  /\ fresh' = [fresh EXCEPT ![c] = FALSE]
  /\ UNCHANGED <<ledger, serial, fallbacks, placed, outcome, payments>>

Next ==
  \/ \E o \in Order : PlaceOrder(o)
  \/ \E d \in Deposit : PlaceDeposit(d)
  \/ \E w \in Withdrawal : PlaceWithdrawal(w)
  \/ \E c \in Chain : Receive(c) \/ EndBlock(c)
  \/ Fallback

\* Blocks end, the nested chain keeps reading the root chain, and a certificate
\* that is sent again gets through.
Fairness == \A c \in Chain : WF_vars(Receive(c)) /\ WF_vars(EndBlock(c))

DexSpec == Init /\ [][Next]_vars /\ Fairness
=============================================================================
