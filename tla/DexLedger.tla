------------------------------ MODULE DexLedger ------------------------------
(***************************************************************************)
(* What one chain of the exchange does to its books when it settles a batch *)
(* of its own or executes a batch of the counter chain (fsm/dex.go).       *)
(*                                                                         *)
(* The books are a record: what all accounts hold together, the holding    *)
(* pool, the liquidity pool, the liquidity points by holder, and while a   *)
(* batch is handled the mirror of the counter chain's liquidity pool and    *)
(* the receipts.  The code carries the size of the liquidity pool in a     *)
(* variable beside the pool; the two never differ and are one field here.  *)
(***************************************************************************)
EXTENDS Sums, Sequences

CONSTANT DeadAddress   \* the holder of the points that belong to nobody

-----------------------------------------------------------------------------
\* lib.SafeMulDiv and lib.SqrtProductUint64: both round down.
MulDiv(a, b, c) == (a * b) \div c

Root == [n \in Nat |-> CHOOSE r \in 0 .. n : r * r <= n /\ (r + 1) * (r + 1) > n]
SqrtProduct(a, b) == Root[a * b]

\* The total of the points, kept beside them in the code.
TotalPoints(points) == SumOver(points, DOMAIN points)

\* What a list of orders sells, and what a list of deposits puts in.
Sales(orders) == [i \in DOMAIN orders |-> orders[i].sale]
Sold(orders) == SumOver(Sales(orders), DOMAIN orders)
Put(deposits) == SumOver([i \in DOMAIN deposits |-> deposits[i].amount], DOMAIN deposits)

-----------------------------------------------------------------------------
\* SafeComputeDY: what a constant product pays for dx, less a fee of one percent.
AmountOut(x, y, dx) == (dx * 990 * y) \div (x * 1000 + dx * 990)

\* One order of the counter chain: it is paid from the liquidity pool, or fails
\* when it would receive less than it asks for.
ExecuteOrder(books, i, order) ==
  LET out == AmountOut(books.counter, books.liquidity, order.sale)
  IN IF out < order.min \/ out = 0
     THEN books
     ELSE [books EXCEPT !.counter = @ + order.sale,
                        !.liquidity = @ - out,
                        !.account = @ + out,
                        !.receipts[i] = out]

\* HandleDexBatchOrders, with the orders taken in the given order.
ExecuteOrders(books, orders, ordering) ==
  LET executed[n \in 0 .. Len(orders)] ==
        IF n = 0 THEN [books EXCEPT !.receipts = [i \in DOMAIN orders |-> 0]]
        ELSE ExecuteOrder(executed[n - 1], ordering[n], orders[ordering[n]])
  IN executed[Len(orders)]

\* Mutant: the mirror is not advanced by what the counter chain paid.
SettleUnmirrored(books, orders, receipts) ==
  LET paid == {i \in DOMAIN orders : receipts[i] # 0}
  IN [books EXCEPT !.holding = @ - Sold(orders),
                   !.liquidity = @ + SumOver(Sales(orders), paid),
                   !.account = @ + SumOver(Sales(orders), DOMAIN orders \ paid)]

\* HandleOrderReceipts: what an order sold moves to the liquidity pool and the
\* mirror loses what the counter chain paid for it, or the order is refunded.
SettleOrders(books, orders, receipts) ==
  LET paid == {i \in DOMAIN orders : receipts[i] # 0}
  IN [books EXCEPT !.holding = @ - Sold(orders),
                   !.liquidity = @ + SumOver(Sales(orders), paid),
                   !.account = @ + SumOver(Sales(orders), DOMAIN orders \ paid),
                   !.counter = @ - SumOver(receipts, paid)]

\* The points after each withdrawal of a batch.  A holder without points is
\* passed over.
Remaining(points, withdrawals) ==
  LET left[n \in 0 .. Len(withdrawals)] ==
        IF n = 0 THEN points
        ELSE [left[n - 1] EXCEPT ![withdrawals[n].who] =
                @ - MulDiv(@, withdrawals[n].percent, 100)]
  IN left

\* HandleBatchWithdraw: the same on both chains, each pays the shares of its own
\* pool and the mirror loses those of the other one.  What is requested counts
\* the points before the first withdrawal, what is burnt those before each.
WithdrawAll(books, withdrawals) ==
  LET left == Remaining(books.points, withdrawals)
      burnt(i) == left[i - 1][withdrawals[i].who] - left[i][withdrawals[i].who]
      requested == SumOver([i \in DOMAIN withdrawals |->
                              MulDiv(books.points[withdrawals[i].who],
                                     withdrawals[i].percent, 100)], DOMAIN withdrawals)
      points == TotalPoints(books.points)
      paid(pool) == SumOver([i \in DOMAIN withdrawals |->
                               MulDiv(MulDiv(pool, requested, points), burnt(i), requested)],
                            DOMAIN withdrawals)
  IN IF requested = 0 \/ points = 0
     THEN books
     ELSE [books EXCEPT !.points = left[Len(withdrawals)],
                        !.account = @ + paid(books.liquidity),
                        !.liquidity = @ - paid(books.liquidity),
                        !.counter = @ - paid(books.counter)]

\* The points when the first deposit finds none: all there is is nobody's.
Endowed(points, x, y) ==
  IF TotalPoints(points) = 0
  THEN [points EXCEPT ![DeadAddress] = SqrtProduct(x, y)]
  ELSE points

\* HandleBatchDeposit: the points by which the product of the two pools grows,
\* shared by amount; what rounding leaves over goes to the dead address.
PointsAfter(points, deposits, x, y) ==
  LET amount == Put(deposits)
      endowed == Endowed(points, x, y)
      oldK == SqrtProduct(x, y)
      minted == MulDiv(TotalPoints(endowed), SqrtProduct(x + amount, y) - oldK, oldK)
      share == [i \in DOMAIN deposits |-> MulDiv(minted, deposits[i].amount, amount)]
      shared == [p \in DOMAIN points |->
                   endowed[p] + SumOver(share, {i \in DOMAIN deposits : deposits[i].who = p})]
  IN [shared EXCEPT ![DeadAddress] = @ + minted - SumOver(share, DOMAIN deposits)]

\* Mutant: the chain that only mirrors deposits moves them as well.
DepositHere(books, deposits, local) ==
  LET amount == Put(deposits)
  IN [books EXCEPT !.liquidity = @ + amount, !.holding = @ - amount]

\* HandleBatchDeposit: only the chain of the deposits moves tokens, the other one
\* advances its mirror.  Nothing happens when one of the pools is empty.
DepositAll(books, deposits, local) ==
  LET amount == Put(deposits)
      x == IF local THEN books.liquidity ELSE books.counter
      y == IF local THEN books.counter ELSE books.liquidity
  IN IF amount = 0 \/ x = 0 \/ y = 0
     THEN books
     ELSE IF local
     THEN [books EXCEPT !.points = PointsAfter(@, deposits, x, y),
                        !.liquidity = @ + amount, !.holding = @ - amount]
     ELSE [books EXCEPT !.points = PointsAfter(@, deposits, x, y), !.counter = @ + amount]
=============================================================================
