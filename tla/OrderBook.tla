------------------------------ MODULE OrderBook ------------------------------
(***************************************************************************)
(* Sell orders of the root chain for the coin of a nested chain            *)
(* (fsm/swap.go).  A seller escrows what an order sells; a buyer locks the *)
(* order and pays the seller by transactions of the nested chain.  Every    *)
(* block of the nested chain yields a certificate that tells the root chain *)
(* which orders to lock, to reset and to close.                            *)
(*                                                                         *)
(* A certificate is sent once, by the proposer of its block: it may be lost *)
(* or overtaken by a later one, and a few old blocks are read again to make *)
(* up for that.  It is built on the order book as the nested chain last     *)
(* read it; the proposer of a later block has not read an older book.      *)
(*                                                                         *)
(* There is one nested chain.  The terms of an order stand for the amount   *)
(* requested and the address to pay it to; what a buyer owns on either     *)
(* chain has one address.  A block holds one transaction at most that the   *)
(* order book reads, and no certificate has more than 1000 locks.          *)
(***************************************************************************)
EXTENDS Sequences, Sums

CONSTANTS
  OrderId,            \* hashes of the transactions that create orders
  User,
  Seller, Buyer,      \* the users who sell and who buy
  Terms,
  Listing,            \* what is sold on which terms: [sale, terms]
  MinimumOrderSize,
  InitialFunds,       \* what every user owns on the root chain
  BuyDeadlineBlocks,
  RecheckFrom,        \* 15: the oldest block that is read again
  RecheckTo,          \* 10: blocks younger than this are not read again
  NoOrder, NoBuyer, NoTx,
  LastBlock,          \* Bound: the blocks of the nested chain
  MaxOrderTransactions     \* Bound: its transactions that the order book reads

ASSUME OrderBookAssumption ==
  /\ IsFiniteSet(OrderId) /\ IsFiniteSet(User)
  /\ Seller \subseteq User /\ Buyer \subseteq User
  /\ Listing \subseteq [sale : Nat, terms : Terms]
  /\ InitialFunds \in Nat
  /\ BuyDeadlineBlocks \in Nat
  /\ RecheckFrom \in Nat /\ RecheckTo \in Nat
  /\ NoBuyer \notin User

VARIABLES
  orders,    \* root chain: the order book
  used,      \* root chain: the ids of all orders there ever were
  index,     \* root chain: the keys by seller and by buyer
  escrow,    \* root chain: the escrow pool of the nested chain
  funds,     \* root chain: the accounts
  applied,   \* root chain: the height of the last certificate it handled
  blocks,    \* nested chain: the transaction of every block, or NoTx
  built,     \* nested chain: the order book the certificate of every block was built on
  seen       \* nested chain: the order book last read

rootVars == <<orders, used, index, escrow, funds, applied>>
nestedVars == <<blocks, built, seen>>
orderVars == <<rootVars, nestedVars>>

-----------------------------------------------------------------------------
Order == [seller : User, sale : Nat, terms : Terms,
          buyer : User \cup {NoBuyer}, deadline : Nat]

ASSUME NoOrderAssumption == NoOrder \notin Order

Open(seller, sale, terms) ==
  [seller |-> seller, sale |-> sale, terms |-> terms, buyer |-> NoBuyer, deadline |-> 0]

Exists(o) == o # NoOrder
Locked(o) == Exists(o) /\ o.buyer # NoBuyer

\* The order o with another buyer and deadline.
HeldBy(o, buyer, deadline) ==
  [seller |-> o.seller, sale |-> o.sale, terms |-> o.terms,
   buyer |-> buyer, deadline |-> deadline]

\* The keys of an order in the two indexes.
Keys(id, o) ==
  {<<"seller", o.seller, id>>} \cup (IF Locked(o) THEN {<<"buyer", o.buyer, id>>} ELSE {})

\* Mutant: the key of a buyer stays when the order has no buyer any more.
NoStaleKeys(id, old, new) ==
  IF Locked(old) /\ Locked(new) /\ old.buyer # new.buyer THEN {<<"buyer", old.buyer, id>>} ELSE {}

\* cleanupStaleBuyerIndex: the key of a buyer who no longer holds the order.
StaleKeys(id, old, new) ==
  IF Locked(old) /\ old.buyer # new.buyer THEN {<<"buyer", old.buyer, id>>} ELSE {}

-----------------------------------------------------------------------------
LockTx(id, from) == [kind |-> "lock", id |-> id, from |-> from]
CloseTx(id, from, terms) == [kind |-> "close", id |-> id, from |-> from, terms |-> terms]

Tx == {LockTx(id, b) : id \in OrderId, b \in Buyer}
        \cup {CloseTx(id, b, t) : id \in OrderId, b \in Buyer, t \in Terms}

\* The blocks that the certificate of block n is drawn from.
Window(n) ==
  {n} \cup (IF n > RecheckFrom THEN (n - RecheckFrom) .. (n - RecheckTo - 1) ELSE {})

\* The blocks with a request to lock an order, and the user of the first one that
\* is read: the own block comes before the older ones.
Requests(n, id) == {h \in Window(n) : \E b \in Buyer : blocks[h] = LockTx(id, b)}
Requester(n, id) ==
  blocks[IF n \in Requests(n, id) THEN n ELSE Min(Requests(n, id))].from

\* ProcessRootChainOrderBook: what the certificate of block n says.  Every order of
\* the book is in one of the three sets at most.
LockOrders(n) ==
  {id \in OrderId : /\ Exists(built[n][id]) /\ ~Locked(built[n][id])
                    /\ Requests(n, id) # {}}

ResetOrders(n) == {id \in OrderId : Locked(built[n][id]) /\ n > built[n][id].deadline}

\* Mutant: anybody's payment counts.
PaidByAnyone(n, id) ==
  \E h \in Window(n), b \in Buyer : blocks[h] = CloseTx(id, b, built[n][id].terms)

\* A payment by the buyer, of what was requested, to the seller.
ValidClose(n, id) ==
  \E h \in Window(n) : blocks[h] = CloseTx(id, built[n][id].buyer, built[n][id].terms)

CloseOrders(n) ==
  {id \in OrderId : /\ Locked(built[n][id]) /\ n <= built[n][id].deadline
                    /\ ValidClose(n, id)}

-----------------------------------------------------------------------------
OrdersInit ==
  /\ orders = [id \in OrderId |-> NoOrder]
  /\ used = {}
  /\ index = {}
  /\ escrow = 0
  /\ funds = [u \in User |-> InitialFunds]
  /\ applied = 0
  /\ blocks = <<>> /\ built = <<>>
  /\ seen = orders

SetOrder(id, o) ==
  /\ orders' = [orders EXCEPT ![id] = o]
  /\ index' = (index \ StaleKeys(id, orders[id], o)) \cup Keys(id, o)

\* HandleMessageCreateOrder.
CreateOrder(id, seller, sale, terms) ==
  /\ id \notin used
  /\ sale >= MinimumOrderSize
  /\ funds[seller] >= sale
  /\ funds' = [funds EXCEPT ![seller] = @ - sale]
  /\ escrow' = escrow + sale
  /\ used' = used \cup {id}
  /\ SetOrder(id, Open(seller, sale, terms))
  /\ UNCHANGED <<applied, nestedVars>>

\* Mutant: an order may be edited or deleted under its buyer.
AnyOrder(id) == Exists(orders[id])

\* A seller changes only orders that nobody has locked.
Editable(id) == Exists(orders[id]) /\ ~Locked(orders[id])

\* Mutant: a seller who lowers the amount for sale gets nothing back.
OnlyMore(id, sale) == Max({sale - orders[id].sale, 0})

\* What the seller adds to the escrow, or gets back.
Added(id, sale) == sale - orders[id].sale

\* HandleMessageEditOrder.
EditOrder(id, sale, terms) ==
  LET seller == orders[id].seller
      added == Added(id, sale)
  IN /\ Editable(id)
     /\ sale >= MinimumOrderSize
     /\ funds[seller] >= added /\ escrow + added >= 0
     /\ funds' = [funds EXCEPT ![seller] = @ - added]
     /\ escrow' = escrow + added
     /\ SetOrder(id, Open(seller, sale, terms))
     /\ UNCHANGED <<used, applied, nestedVars>>

\* HandleMessageDeleteOrder.
DeleteOrder(id) ==
  /\ Editable(id)
  /\ escrow >= orders[id].sale
  /\ escrow' = escrow - orders[id].sale
  /\ funds' = [funds EXCEPT ![orders[id].seller] = @ + orders[id].sale]
  /\ orders' = [orders EXCEPT ![id] = NoOrder]
  /\ index' = index \ Keys(id, orders[id])
  /\ UNCHANGED <<used, applied, nestedVars>>

-----------------------------------------------------------------------------
\* Mutant: a certificate is handled whenever it comes.
AnyCertificate(n) == n \in DOMAIN blocks

\* HandleCertificateResults: certificates come in the order of their heights, or
\* not at all.
NewCertificate(n) == n \in DOMAIN blocks /\ n > applied

\* HandleCommitteeSwaps passes over what does not apply to an order any more.
Locking(n) == {id \in LockOrders(n) : Exists(orders[id]) /\ ~Locked(orders[id])}
Resetting(n) == {id \in ResetOrders(n) \ CloseOrders(n) : Exists(orders[id])}
Closing(n) == {id \in CloseOrders(n) : Locked(orders[id]) /\ escrow >= orders[id].sale}

OrderAfter(n, id) ==
  IF id \in Locking(n) THEN HeldBy(orders[id], Requester(n, id), n + BuyDeadlineBlocks)
  ELSE IF id \in Resetting(n) THEN HeldBy(orders[id], NoBuyer, 0)
  ELSE IF id \in Closing(n) THEN NoOrder
  ELSE orders[id]

\* What the orders pay out that certificate n closes, in all or to one user.
PaidOut(ids) == SumOver([id \in ids |-> orders[id].sale], ids)

HandleCertificate(n) ==
  LET stored == Locking(n) \cup Resetting(n)
  IN /\ NewCertificate(n)
     /\ applied' = n
     /\ orders' = [id \in OrderId |-> OrderAfter(n, id)]
     /\ escrow' = escrow - PaidOut(Closing(n))
     /\ funds' = [u \in User |->
                    funds[u] + PaidOut({id \in Closing(n) : orders[id].buyer = u})]
     /\ index' = (index \ UNION ({StaleKeys(id, orders[id], OrderAfter(n, id)) : id \in stored}
                                  \cup {Keys(id, orders[id]) : id \in Closing(n)}))
                   \cup UNION {Keys(id, OrderAfter(n, id)) : id \in stored}
     /\ UNCHANGED <<used, nestedVars>>

-----------------------------------------------------------------------------
\* The nested chain learns of a new block of the root chain.
NewRootInfo ==
  /\ seen # orders
  /\ seen' = orders
  /\ UNCHANGED <<rootVars, blocks, built>>

\* The nested chain commits a block, and its certificate is sent.
CommitBlock(tx) ==
  /\ Len(blocks) < LastBlock
  /\ tx # NoTx =>
       Cardinality({h \in DOMAIN blocks : blocks[h] # NoTx}) < MaxOrderTransactions
  /\ blocks' = Append(blocks, tx)
  /\ built' = Append(built, seen)
  /\ UNCHANGED <<rootVars, seen>>

SellerNext ==
  \/ \E id \in OrderId, s \in Seller, o \in Listing : CreateOrder(id, s, o.sale, o.terms)
  \/ \E id \in OrderId, o \in Listing : EditOrder(id, o.sale, o.terms)
  \/ \E id \in OrderId : DeleteOrder(id)

OrdersNext ==
  \/ SellerNext
  \/ \E n \in 1 .. LastBlock : HandleCertificate(n)
  \/ NewRootInfo
  \/ \E tx \in Tx \cup {NoTx} : CommitBlock(tx)

OrdersSpec == OrdersInit /\ [][OrdersNext]_orderVars

-----------------------------------------------------------------------------
\* The order books, the blocks and the certificates keep their shape; what there
\* is in the escrow pool and in the indexes OrderBookKept tells.
OrdersTypeOK ==
  /\ orders \in [OrderId -> Order \cup {NoOrder}]
  /\ used \subseteq OrderId
  /\ applied \in 0 .. Len(blocks)
  /\ blocks \in Seq(Tx \cup {NoTx})
  /\ built \in Seq([OrderId -> Order \cup {NoOrder}])
  /\ Len(built) = Len(blocks)
  /\ seen \in [OrderId -> Order \cup {NoOrder}]

\* The escrow pool holds what the open orders sell, so that every one of them can
\* be closed, and nothing else: the tokens are on accounts or in escrow.
EscrowHoldsOrders ==
  /\ escrow = PaidOut({id \in OrderId : Exists(orders[id])})
  /\ escrow + SumOver(funds, User) = SumOver([u \in User |-> InitialFunds], User)

\* The two indexes have the keys of the orders there are and no others, although
\* buyers come and go by certificates.
IndexExact ==
  index = UNION {Keys(id, orders[id]) : id \in {i \in OrderId : Exists(orders[i])}}

\* What is kept beside the order book follows it.
OrderBookKept == EscrowHoldsOrders /\ IndexExact

\* The buyer of an order paid its seller what it asks, by the deadline.
PaidInTime(id) ==
  \E h \in DOMAIN blocks :
    /\ h <= orders[id].deadline
    /\ blocks[h] = CloseTx(id, orders[id].buyer, orders[id].terms)

\* A step takes an order from its buyer only because this buyer paid, or too late.
LockHonoured(id) ==
  Locked(orders[id]) /\ orders'[id] # orders[id] =>
    \/ orders'[id] = NoOrder /\ PaidInTime(id)
    \/ Exists(orders'[id]) /\ ~Locked(orders'[id]) /\ applied' > orders[id].deadline

\* A lock is honoured: whatever is lost, late or out of date, an order leaves its
\* buyer only because this buyer paid what the order asks, or once certificates of
\* blocks after the buyer's own deadline arrive.  Nobody receives an order for the
\* payment of a buyer who held it before.
LocksHonoured == [][\A id \in OrderId : LockHonoured(id)]_orderVars

\* "reset orders are a result of the committee witnessing 'no-action' from the
\* buyer of the sell order" (HandleCommitteeSwaps): the certificate that reset an
\* order did not do so to a buyer who had paid for this lock.
ResetOnlyUnpaid ==
  \A id \in OrderId :
    applied # 0 /\ id \in ResetOrders(applied) /\ Exists(orders[id]) /\ ~Locked(orders[id]) =>
      ~\E h \in DOMAIN blocks :
         LET held == built[applied][id]
         IN /\ h \in (held.deadline - BuyDeadlineBlocks) .. held.deadline
            /\ blocks[h] = CloseTx(id, held.buyer, held.terms)
=============================================================================
