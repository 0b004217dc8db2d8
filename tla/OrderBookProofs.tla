--------------------------- MODULE OrderBookProofs ---------------------------
(***************************************************************************)
(* Proofs about the order book, for any orders, users, terms, deadlines and *)
(* windows.  Certificates are lost and come late, so what the book says     *)
(* when one is handled may differ from the book it was built on.  The       *)
(* inductive invariant says how the books that certificates still to come   *)
(* were built on relate to each other and to the book of the root chain: a  *)
(* lock that one of them knows is the lock there is, if there is one; after *)
(* one that knows an order as open, none knows a lock while the order is    *)
(* open; and a lock that a later book has lost is never seen again.         *)
(***************************************************************************)
EXTENDS OrderBook, SumProofs, TLAPS

Book == [OrderId -> Order \cup {NoOrder}]

IsOpen(o) == Exists(o) /\ ~Locked(o)

\* The books certificates are built on, that of the next block included.
Books ==
  [n \in 1 .. Len(built) + 1 |-> IF n \in 1 .. Len(built) THEN built[n] ELSE seen]

\* The blocks whose certificates may still be handled.
Pending == applied + 1 .. Len(built) + 1

\* A lock that a pending certificate knows is the lock there is, if there is one.
SameLock ==
  \A id \in OrderId, n \in Pending :
    Locked(Books[n][id]) /\ Locked(orders[id]) => orders[id] = Books[n][id]

\* After a book with an open order comes no book with a lock while it is open.
OpenSince ==
  \A id \in OrderId, j \in Pending, k \in Pending :
    j < k /\ IsOpen(Books[j][id]) /\ IsOpen(orders[id]) => ~Locked(Books[k][id])

\* A lock that a later book does not have any more is gone.
GoneForGood ==
  \A id \in OrderId, j \in Pending, k \in Pending :
    j < k /\ Locked(Books[j][id]) /\ Books[k][id] # Books[j][id] => orders[id] # Books[j][id]

\* No book knows of orders that were never created.
NothingUnused ==
  \A id \in OrderId \ used :
    orders[id] = NoOrder /\ \A n \in DOMAIN Books : Books[n][id] = NoOrder

LockInv == OrdersTypeOK /\ NothingUnused /\ SameLock /\ OpenSince /\ GoneForGood

-----------------------------------------------------------------------------
LEMMA OpenIsOrder ==
  ASSUME NEW seller \in User, NEW sale \in Nat, NEW terms \in Terms
  PROVE  /\ Open(seller, sale, terms) \in Order
         /\ IsOpen(Open(seller, sale, terms))
         /\ Open(seller, sale, terms).seller = seller
BY NoOrderAssumption DEF Open, Order, IsOpen, Exists, Locked

LEMMA HeldByIsOrder ==
  ASSUME NEW o \in Order, NEW buyer \in User \cup {NoBuyer}, NEW deadline \in Nat
  PROVE  /\ HeldBy(o, buyer, deadline) \in Order
         /\ Exists(HeldBy(o, buyer, deadline))
         /\ Locked(HeldBy(o, buyer, deadline)) <=> buyer # NoBuyer
         /\ HeldBy(o, buyer, deadline).seller = o.seller
         /\ HeldBy(o, buyer, deadline).sale = o.sale
BY NoOrderAssumption DEF HeldBy, Order, Exists, Locked

\* The blocks a certificate reads are there, and none is later than its own.
LEMMA WindowPast ==
  ASSUME NEW n \in Nat \ {0}, NEW h \in Window(n)
  PROVE  h \in 1 .. n
BY OrderBookAssumption DEF Window

\* Who locks an order is a buyer.
LEMMA RequesterBuys ==
  ASSUME OrdersTypeOK, NEW n \in DOMAIN blocks, NEW id \in OrderId, Requests(n, id) # {}
  PROVE  Requester(n, id) \in Buyer
<1>1. n \in Nat \ {0} BY DEF OrdersTypeOK
<1>2. \A h \in Requests(n, id) : h \in 1 .. n /\ \E b \in Buyer : blocks[h] = LockTx(id, b)
  BY <1>1, WindowPast DEF Requests
<1>3. Min(Requests(n, id)) \in Requests(n, id)
  BY <1>2, MinOfNats
<1>4. ASSUME NEW h \in Requests(n, id)
      PROVE  blocks[h].from \in Buyer
  <2>1. PICK b \in Buyer : blocks[h] = LockTx(id, b)
    BY <1>2
  <2>. QED BY <2>1 DEF LockTx
<1>. QED BY <1>3, <1>4 DEF Requester

-----------------------------------------------------------------------------
\* What a certificate does to an order.
LEMMA CertificateEffect ==
  ASSUME OrdersTypeOK, NEW n, HandleCertificate(n), NEW id \in OrderId
  PROVE  \/ /\ IsOpen(built[n][id]) /\ IsOpen(orders[id])
            /\ orders'[id] \in Order /\ Locked(orders'[id])
            /\ orders'[id].seller = orders[id].seller
         \/ /\ Locked(built[n][id]) /\ n > built[n][id].deadline
            /\ Exists(orders[id])
            /\ orders'[id] \in Order /\ ~Locked(orders'[id])
            /\ orders'[id].seller = orders[id].seller
         \/ /\ Locked(built[n][id]) /\ n <= built[n][id].deadline /\ ValidClose(n, id)
            /\ Locked(orders[id])
            /\ orders'[id] = NoOrder
         \/ orders'[id] = orders[id]
<1>1. n \in DOMAIN blocks /\ n \in Nat /\ orders[id] \in Order \cup {NoOrder}
  BY DEF HandleCertificate, NewCertificate, OrdersTypeOK
<1>2. orders'[id] = OrderAfter(n, id)
  BY DEF HandleCertificate
<1>3. CASE id \in Locking(n)
  <2>1. IsOpen(built[n][id]) /\ IsOpen(orders[id]) /\ Requests(n, id) # {}
    BY <1>3 DEF Locking, LockOrders, IsOpen
  <2>2. Requester(n, id) \in User /\ Requester(n, id) # NoBuyer
    BY <1>1, <2>1, RequesterBuys, OrderBookAssumption
  <2>3. orders[id] \in Order /\ n + BuyDeadlineBlocks \in Nat
    BY <1>1, <2>1, OrderBookAssumption DEF IsOpen, Exists
  <2>. QED BY <1>2, <1>3, <2>1, <2>2, <2>3, HeldByIsOrder DEF OrderAfter
<1>4. CASE id \notin Locking(n) /\ id \in Resetting(n)
  <2>1. Locked(built[n][id]) /\ n > built[n][id].deadline /\ Exists(orders[id])
    BY <1>4 DEF Resetting, ResetOrders
  <2>2. orders[id] \in Order
    BY <1>1, <2>1 DEF Exists
  <2>3. orders'[id] = HeldBy(orders[id], NoBuyer, 0)
    BY <1>2, <1>4 DEF OrderAfter
  <2>. QED BY <2>1, <2>2, <2>3, HeldByIsOrder
<1>5. CASE id \notin Locking(n) /\ id \notin Resetting(n) /\ id \in Closing(n)
  BY <1>2, <1>5 DEF OrderAfter, Closing, CloseOrders
<1>6. CASE id \notin Locking(n) /\ id \notin Resetting(n) /\ id \notin Closing(n)
  BY <1>2, <1>6 DEF OrderAfter
<1>. QED BY <1>3, <1>4, <1>5, <1>6

-----------------------------------------------------------------------------
LEMMA BooksShape ==
  ASSUME OrdersTypeOK
  PROVE  /\ Len(built) \in Nat /\ applied \in Nat
         /\ Books \in [1 .. Len(built) + 1 -> Book]
         /\ \A n \in DOMAIN blocks : n \in 1 .. Len(built) /\ Books[n] = built[n]
BY DEF OrdersTypeOK, Books, Book

LEMMA BooksUnchanged ==
  ASSUME UNCHANGED <<built, seen>>
  PROVE  Books' = Books /\ Len(built)' = Len(built)
BY DEF Books

LEMMA BooksAfterBlock ==
  ASSUME OrdersTypeOK, NEW tx, CommitBlock(tx)
  PROVE  /\ Len(built)' = Len(built) + 1
         /\ DOMAIN Books' = 1 .. Len(built) + 2
         /\ \A n \in 1 .. Len(built) + 1 : Books'[n] = Books[n]
         /\ Books'[Len(built) + 2] = Books[Len(built) + 1]
BY DEF OrdersTypeOK, CommitBlock, Books

LEMMA BooksAfterInfo ==
  ASSUME OrdersTypeOK, NewRootInfo
  PROVE  /\ Len(built)' = Len(built) /\ Len(built) \in Nat
         /\ DOMAIN Books' = DOMAIN Books /\ DOMAIN Books = 1 .. Len(built) + 1
         /\ \A n \in 1 .. Len(built) : Books'[n] = Books[n]
         /\ Books'[Len(built) + 1] = orders
BY DEF OrdersTypeOK, NewRootInfo, nestedVars, rootVars, Books

\* A seller touches no order that is locked, and creates none that there was.
LEMMA SellerEffect ==
  ASSUME OrdersTypeOK, NothingUnused, SellerNext
  PROVE  /\ UNCHANGED <<applied, blocks, built, seen>>
         /\ orders' \in Book
         /\ used' \in SUBSET OrderId /\ used \subseteq used'
         /\ \A id \in OrderId :
              \/ orders'[id] = orders[id]
              \/ /\ id \in used' /\ ~Locked(orders[id]) /\ ~Locked(orders'[id])
                 /\ IsOpen(orders'[id]) => IsOpen(orders[id]) \/ id \notin used
<1>. USE DEF nestedVars
<1>1. ASSUME NEW id \in OrderId, NEW s \in Seller, NEW o \in Listing,
             CreateOrder(id, s, o.sale, o.terms)
      PROVE  UNCHANGED <<applied, blocks, built, seen>> /\ orders' \in Book
             /\ used' = used \cup {id} /\ id \notin used
             /\ orders[id] = NoOrder /\ IsOpen(orders'[id])
             /\ \A i \in OrderId \ {id} : orders'[i] = orders[i]
  <2>1. Open(s, o.sale, o.terms) \in Order /\ IsOpen(Open(s, o.sale, o.terms))
    BY OpenIsOrder, OrderBookAssumption
  <2>. QED BY <1>1, <2>1 DEF CreateOrder, SetOrder, OrdersTypeOK, NothingUnused, Book
<1>2. ASSUME NEW id \in OrderId, NEW o \in Listing, EditOrder(id, o.sale, o.terms)
      PROVE  UNCHANGED <<applied, blocks, built, seen>> /\ orders' \in Book
             /\ used' = used /\ id \in used
             /\ IsOpen(orders[id]) /\ IsOpen(orders'[id])
             /\ \A i \in OrderId \ {id} : orders'[i] = orders[i]
  <2>1. IsOpen(orders[id]) /\ orders[id] \in Order
    BY <1>2 DEF EditOrder, Editable, IsOpen, Exists, OrdersTypeOK
  <2>2. orders[id].seller \in User
    BY <2>1 DEF Order
  <2>3. /\ Open(orders[id].seller, o.sale, o.terms) \in Order
        /\ IsOpen(Open(orders[id].seller, o.sale, o.terms))
    BY <2>2, OpenIsOrder, OrderBookAssumption
  <2>4. id \in used
    BY <2>1 DEF NothingUnused, IsOpen, Exists
  <2>. QED BY <1>2, <2>1, <2>3, <2>4 DEF EditOrder, SetOrder, OrdersTypeOK, Book
<1>3. ASSUME NEW id \in OrderId, DeleteOrder(id)
      PROVE  UNCHANGED <<applied, blocks, built, seen>> /\ orders' \in Book
             /\ used' = used /\ id \in used
             /\ ~Locked(orders[id]) /\ orders'[id] = NoOrder
             /\ \A i \in OrderId \ {id} : orders'[i] = orders[i]
  <2>1. Exists(orders[id]) /\ ~Locked(orders[id])
    BY <1>3 DEF DeleteOrder, Editable
  <2>2. id \in used
    BY <2>1 DEF NothingUnused, Exists
  <2>. QED BY <1>3, <2>1, <2>2 DEF DeleteOrder, OrdersTypeOK, Book
<1>. QED
  <2>1. ~Locked(NoOrder) /\ ~IsOpen(NoOrder)
    BY DEF Locked, IsOpen, Exists
  <2>2. used \in SUBSET OrderId
    BY DEF OrdersTypeOK
  <2>3. CASE \E id \in OrderId, s \in Seller, o \in Listing :
               CreateOrder(id, s, o.sale, o.terms)
    BY <1>1, <2>1, <2>2, <2>3 DEF IsOpen
  <2>4. CASE \E id \in OrderId, o \in Listing : EditOrder(id, o.sale, o.terms)
    BY <1>2, <2>2, <2>4 DEF IsOpen
  <2>5. CASE \E id \in OrderId : DeleteOrder(id)
    BY <1>3, <2>1, <2>2, <2>5
  <2>. QED BY <2>3, <2>4, <2>5 DEF SellerNext

-----------------------------------------------------------------------------
LEMMA TypesKept ==
  ASSUME OrdersTypeOK, NothingUnused, [OrdersNext]_orderVars
  PROVE  OrdersTypeOK'
<1>1. CASE SellerNext
  BY <1>1, SellerEffect DEF OrdersTypeOK, Book
<1>2. ASSUME NEW n, HandleCertificate(n)
      PROVE  OrdersTypeOK'
  <2>1. UNCHANGED <<used, blocks, built, seen>> /\ applied' = n /\ n \in DOMAIN blocks
    BY <1>2 DEF HandleCertificate, NewCertificate, nestedVars
  <2>2. \A id \in OrderId : orders'[id] \in Order \cup {NoOrder}
    BY <1>2, CertificateEffect DEF OrdersTypeOK
  <2>3. orders' = [id \in OrderId |-> orders'[id]]
    BY <1>2 DEF HandleCertificate
  <2>. QED BY <2>1, <2>2, <2>3 DEF OrdersTypeOK
<1>3. CASE NewRootInfo
  BY <1>3 DEF NewRootInfo, OrdersTypeOK, rootVars
<1>4. ASSUME NEW tx \in Tx \cup {NoTx}, CommitBlock(tx)
      PROVE  OrdersTypeOK'
  BY <1>4 DEF CommitBlock, OrdersTypeOK, rootVars
<1>5. CASE UNCHANGED orderVars
  BY <1>5 DEF orderVars, rootVars, nestedVars, OrdersTypeOK
<1>. QED BY <1>1, <1>2, <1>3, <1>4, <1>5 DEF OrdersNext

\* A seller's step.
LEMMA SellerKeepsLocks ==
  ASSUME LockInv, SellerNext
  PROVE  NothingUnused' /\ SameLock' /\ OpenSince' /\ GoneForGood'
<1>. USE DEF LockInv
<1>1. Books' = Books /\ Len(built)' = Len(built) /\ applied' = applied
  BY SellerEffect, BooksUnchanged
<1>2. Pending' = Pending /\ Pending \subseteq DOMAIN Books
  BY <1>1, BooksShape DEF Pending
<1>3. \A id \in OrderId :
        \/ orders'[id] = orders[id]
        \/ /\ id \in used' /\ ~Locked(orders[id]) /\ ~Locked(orders'[id])
           /\ IsOpen(orders'[id]) => IsOpen(orders[id]) \/ id \notin used
  BY SellerEffect
<1>4. NothingUnused'
  BY <1>1, <1>3, SellerEffect DEF NothingUnused
<1>5. SameLock'
  BY <1>1, <1>2, <1>3 DEF SameLock
<1>6. OpenSince'
  <2>1. \A id \in OrderId \ used, n \in Pending : ~Locked(Books[n][id])
    BY <1>2 DEF NothingUnused, Locked, Exists
  <2>. QED BY <1>1, <1>2, <1>3, <2>1 DEF OpenSince
<1>7. GoneForGood'
  BY <1>1, <1>2, <1>3 DEF GoneForGood
<1>. QED BY <1>4, <1>5, <1>6, <1>7

\* A certificate that arrives: those of earlier blocks no longer count.
LEMMA CertificateKeepsLocks ==
  ASSUME LockInv, NEW n, HandleCertificate(n)
  PROVE  NothingUnused' /\ SameLock' /\ OpenSince' /\ GoneForGood'
<1>. USE DEF LockInv
<1>1. Books' = Books /\ Len(built)' = Len(built) /\ applied' = n /\ used' = used
  BY BooksUnchanged DEF HandleCertificate, nestedVars
<1>2. /\ n \in Pending /\ Pending' \subseteq Pending
      /\ \A k \in Pending' : n < k
      /\ Books[n] = built[n] /\ Pending \subseteq DOMAIN Books
  BY <1>1, BooksShape DEF Pending, HandleCertificate, NewCertificate
<1>3. \A id \in OrderId :
        \/ IsOpen(Books[n][id]) /\ IsOpen(orders[id]) /\ Locked(orders'[id])
        \/ Locked(Books[n][id]) /\ Exists(orders[id]) /\ ~Locked(orders'[id])
        \/ orders'[id] = NoOrder /\ Exists(orders[id])
        \/ orders'[id] = orders[id]
  BY <1>2, CertificateEffect DEF Locked
<1>4. ~Locked(NoOrder) /\ ~IsOpen(NoOrder)
  BY DEF Locked, IsOpen, Exists
<1>5. NothingUnused'
  BY <1>1, <1>2, <1>3, <1>4 DEF NothingUnused, IsOpen, Exists
\* No pending certificate knows a lock of an order that this one locks.
<1>6. \A id \in OrderId, k \in Pending' :
        IsOpen(Books[n][id]) /\ IsOpen(orders[id]) => ~Locked(Books[k][id])
  BY <1>2 DEF OpenSince
<1>7. SameLock'
  BY <1>1, <1>2, <1>3, <1>4, <1>6 DEF SameLock
<1>8. GoneForGood'
  <2>. SUFFICES ASSUME NEW id \in OrderId, NEW j \in Pending', NEW k \in Pending',
                       j < k, Locked(Books[j][id]), Books[k][id] # Books[j][id]
                PROVE  orders'[id] # Books[j][id]
    BY <1>1 DEF GoneForGood
  <2>. QED BY <1>2, <1>3, <1>4, <1>6 DEF GoneForGood
<1>9. OpenSince'
  <2>. SUFFICES ASSUME NEW id \in OrderId, NEW j \in Pending', NEW k \in Pending',
                       j < k, IsOpen(Books[j][id]), IsOpen(orders'[id])
                PROVE  ~Locked(Books[k][id])
    BY <1>1 DEF OpenSince
  <2>1. CASE IsOpen(orders[id])
    BY <1>2, <2>1 DEF OpenSince
  <2>2. CASE ~IsOpen(orders[id])
    \* The order was reset, under the lock that its certificate knew.
    <3>1. Locked(Books[n][id]) /\ Locked(orders[id])
      BY <1>3, <1>4, <2>2 DEF IsOpen
    <3>2. orders[id] = Books[n][id]
      BY <1>2, <3>1 DEF SameLock
    <3>3. Books[j][id] = Books[n][id]
      BY <1>2, <3>1, <3>2 DEF GoneForGood
    <3>. QED BY <3>1, <3>3 DEF IsOpen
  <2>. QED BY <2>1, <2>2
<1>. QED BY <1>5, <1>7, <1>8, <1>9

\* The nested chain reads the book.
LEMMA InfoKeepsLocks ==
  ASSUME LockInv, NewRootInfo
  PROVE  NothingUnused' /\ SameLock' /\ OpenSince' /\ GoneForGood'
<1>. USE DEF LockInv
<1>. DEFINE N == Len(built) + 1
<1>1. UNCHANGED <<orders, used, applied>>
  BY DEF NewRootInfo, rootVars
<1>2. /\ N \in Nat /\ applied \in Nat /\ DOMAIN Books' = DOMAIN Books /\ DOMAIN Books = 1 .. N
      /\ \A n \in 1 .. N : n # N => Books'[n] = Books[n]
      /\ Books'[N] = orders
  BY BooksShape, BooksAfterInfo
<1>3. Pending' = Pending /\ Pending = applied + 1 .. N
  BY <1>1, BooksAfterInfo DEF Pending
<1>. HIDE DEF N
<1>4. \A n \in Pending : n \in 1 .. N /\ n <= N
  BY <1>2, <1>3
<1>5. NothingUnused'
  BY <1>1, <1>2 DEF NothingUnused
<1>6. SameLock'
  BY <1>1, <1>2, <1>3, <1>4 DEF SameLock
<1>7. \A j \in Pending, k \in Pending : j < k => Books'[j] = Books[j]
  BY <1>2, <1>3, <1>4
<1>8. OpenSince'
  BY <1>1, <1>2, <1>3, <1>4, <1>7 DEF OpenSince, IsOpen
<1>9. GoneForGood'
  BY <1>1, <1>2, <1>3, <1>4, <1>7 DEF GoneForGood
<1>. QED BY <1>5, <1>6, <1>8, <1>9

\* The nested chain commits a block: the next one begins with the same book.
LEMMA BlockKeepsLocks ==
  ASSUME LockInv, NEW tx, CommitBlock(tx)
  PROVE  NothingUnused' /\ SameLock' /\ OpenSince' /\ GoneForGood'
<1>. USE DEF LockInv
<1>. DEFINE N == Len(built) + 1
            Known(n) == IF n = N + 1 THEN N ELSE n
<1>1. UNCHANGED <<orders, used, applied>>
  BY DEF CommitBlock, rootVars
<1>2. /\ N \in Nat /\ applied \in Nat /\ DOMAIN Books = 1 .. N
      /\ DOMAIN Books' = 1 .. N + 1
      /\ \A n \in 1 .. N + 1 : Known(n) \in 1 .. N /\ Books'[n] = Books[Known(n)]
  BY BooksShape, BooksAfterBlock
<1>3. Pending = applied + 1 .. N /\ Pending' = applied + 1 .. N + 1
  BY <1>1, BooksAfterBlock, BooksShape DEF Pending
<1>4. NothingUnused'
  BY <1>1, <1>2 DEF NothingUnused
<1>5. applied < N
  BY DEF OrdersTypeOK
<1>6. \A n \in Pending' : Known(n) \in Pending /\ Books'[n] = Books[Known(n)]
  BY <1>2, <1>3, <1>5
<1>7. \A j \in Pending', k \in Pending' :
        j < k => Known(j) < Known(k) \/ Known(j) = Known(k)
  BY <1>2, <1>3
<1>. HIDE DEF N, Known
<1>8. SameLock'
  BY <1>1, <1>6 DEF SameLock
<1>9. OpenSince'
  BY <1>1, <1>6, <1>7 DEF OpenSince, IsOpen
<1>10. GoneForGood'
  BY <1>1, <1>6, <1>7 DEF GoneForGood
<1>. QED BY <1>4, <1>8, <1>9, <1>10

-----------------------------------------------------------------------------
LEMMA LocksHoldInitially ==
  ASSUME OrdersInit
  PROVE  LockInv
<1>1. OrdersTypeOK
  BY DEF OrdersInit, OrdersTypeOK
<1>2. /\ DOMAIN Books = 1 .. 1 /\ Pending = 1 .. 1
      /\ \A id \in OrderId : orders[id] = NoOrder /\ Books[1][id] = NoOrder
  BY DEF OrdersInit, Books, Pending
<1>3. ~Locked(NoOrder)
  BY DEF Locked, Exists
<1>4. NothingUnused
  BY <1>2 DEF NothingUnused
<1>5. SameLock /\ OpenSince /\ GoneForGood
  BY <1>2, <1>3 DEF SameLock, OpenSince, GoneForGood
<1>. QED BY <1>1, <1>4, <1>5 DEF LockInv

LEMMA LocksHoldNext ==
  ASSUME LockInv, [OrdersNext]_orderVars
  PROVE  LockInv'
<1>1. OrdersTypeOK'
  BY TypesKept DEF LockInv
<1>2. NothingUnused' /\ SameLock' /\ OpenSince' /\ GoneForGood'
  <2>1. CASE SellerNext
    BY <2>1, SellerKeepsLocks
  <2>2. CASE \E n \in 1 .. LastBlock : HandleCertificate(n)
    BY <2>2, CertificateKeepsLocks
  <2>3. CASE NewRootInfo
    BY <2>3, InfoKeepsLocks
  <2>4. CASE \E tx \in Tx \cup {NoTx} : CommitBlock(tx)
    BY <2>4, BlockKeepsLocks
  <2>5. CASE UNCHANGED orderVars
    <3>1. UNCHANGED <<orders, used, applied>> /\ Books' = Books /\ Len(built)' = Len(built)
      BY <2>5, BooksUnchanged DEF orderVars, rootVars, nestedVars
    <3>2. Pending' = Pending
      BY <3>1 DEF Pending
    <3>. QED BY <3>1, <3>2 DEF LockInv, NothingUnused, SameLock, OpenSince, GoneForGood
  <2>. QED BY <2>1, <2>2, <2>3, <2>4, <2>5 DEF OrdersNext
<1>. QED BY <1>1, <1>2 DEF LockInv

\* The books, blocks and certificates of both chains keep their shape.
THEOREM OrdersTyped == OrdersSpec => []OrdersTypeOK
<1>1. LockInv => OrdersTypeOK
  BY DEF LockInv
<1>. QED BY <1>1, LocksHoldInitially, LocksHoldNext, PTL DEF OrdersSpec

-----------------------------------------------------------------------------
LEMMA CertificateHonours ==
  ASSUME LockInv, NEW n, HandleCertificate(n), NEW id \in OrderId,
         Locked(orders[id]), orders'[id] # orders[id]
  PROVE  \/ orders'[id] = NoOrder /\ PaidInTime(id)
         \/ Exists(orders'[id]) /\ ~Locked(orders'[id]) /\ applied' > orders[id].deadline
<1>. USE DEF LockInv
<1>1. n \in Pending /\ applied' = n /\ n \in DOMAIN blocks /\ Books[n] = built[n]
  BY BooksShape DEF Pending, HandleCertificate, NewCertificate
<1>2. Locked(built[n][id]) => orders[id] = built[n][id]
  BY <1>1 DEF SameLock
<1>3. CASE n > built[n][id].deadline /\ Locked(built[n][id])
           /\ orders'[id] \in Order /\ ~Locked(orders'[id])
  BY <1>1, <1>2, <1>3, NoOrderAssumption DEF Exists
<1>4. CASE n <= built[n][id].deadline /\ Locked(built[n][id])
           /\ ValidClose(n, id) /\ orders'[id] = NoOrder
  <2>1. PICK h \in Window(n) :
          blocks[h] = CloseTx(id, orders[id].buyer, orders[id].terms)
    BY <1>2, <1>4 DEF ValidClose
  <2>2. h \in DOMAIN blocks /\ h <= n /\ n \in Nat
    BY <1>1, WindowPast DEF OrdersTypeOK
  <2>3. orders[id].deadline \in Nat /\ n <= orders[id].deadline
    BY <1>2, <1>4 DEF OrdersTypeOK, Locked, Exists, Order
  <2>4. h \in Nat
    BY <1>1, WindowPast DEF OrdersTypeOK
  <2>. QED BY <1>4, <2>1, <2>2, <2>3, <2>4 DEF PaidInTime
<1>. QED BY <1>3, <1>4, CertificateEffect DEF IsOpen

\* Whatever is lost, late or out of date, an order leaves its buyer only paid in
\* time, or after the buyer's own deadline.
THEOREM LocksAlwaysHonoured == OrdersSpec => LocksHonoured
<1>1. LockInv /\ [OrdersNext]_orderVars =>
        [\A id \in OrderId : LockHonoured(id)]_orderVars
  <2>. SUFFICES ASSUME LockInv, OrdersNext, NEW id \in OrderId,
                       Locked(orders[id]), orders'[id] # orders[id]
                PROVE  LockHonoured(id)
    BY DEF LockHonoured
  <2>1. ~SellerNext
    BY SellerEffect DEF LockInv
  <2>2. ~NewRootInfo
    BY DEF NewRootInfo, rootVars
  <2>3. ~\E tx \in Tx \cup {NoTx} : CommitBlock(tx)
    BY DEF CommitBlock, rootVars
  <2>4. PICK n \in 1 .. LastBlock : HandleCertificate(n)
    BY <2>1, <2>2, <2>3 DEF OrdersNext
  <2>. QED BY <2>4, CertificateHonours DEF LockHonoured
<1>. QED BY <1>1, LocksHoldInitially, LocksHoldNext, PTL DEF OrdersSpec, LocksHonoured

-----------------------------------------------------------------------------
(***************************************************************************)
(* The indexes.  A key ends with the id of its order, so the keys of        *)
(* different orders never meet and each can be looked at alone.             *)
(***************************************************************************)
KeysOf(id, o) == IF Exists(o) THEN Keys(id, o) ELSE {}

LEMMA KeyEndsWithId ==
  ASSUME NEW id, NEW o, NEW w
  PROVE  /\ \A k \in Keys(id, o) : k[3] = id
         /\ \A k \in StaleKeys(id, o, w) : k[3] = id
BY DEF Keys, StaleKeys

LEMMA IndexByOrder ==
  IndexExact <=> index = UNION {KeysOf(id, orders[id]) : id \in OrderId}
BY DEF IndexExact, KeysOf

\* An order that is stored over another of the same seller leaves its own keys.
LEMMA StoredKeys ==
  ASSUME NEW id, NEW old, NEW new, Exists(new), Exists(old) => new.seller = old.seller
  PROVE  (KeysOf(id, old) \ StaleKeys(id, old, new)) \cup Keys(id, new) = KeysOf(id, new)
BY DEF KeysOf, Keys, StaleKeys, Locked

\* One order that changes, with its keys, keeps the index exact.
LEMMA OneChanged ==
  ASSUME OrdersTypeOK, IndexExact, NEW id \in OrderId, NEW lost, NEW found,
         \A k \in lost \cup found : k[3] = id,
         index' = (index \ lost) \cup found,
         (KeysOf(id, orders[id]) \ lost) \cup found = KeysOf(id, orders'[id]),
         \A i \in OrderId \ {id} : orders'[i] = orders[i]
  PROVE  IndexExact'
<1>1. index = UNION {KeysOf(i, orders[i]) : i \in OrderId}
  BY IndexByOrder
<1>2. \A i \in OrderId : \A k \in KeysOf(i, orders[i]) : k[3] = i
  BY KeyEndsWithId DEF KeysOf
<1>3. index' = UNION {KeysOf(i, orders'[i]) : i \in OrderId}
  <2>1. ASSUME NEW k \in index'
        PROVE  k \in UNION {KeysOf(i, orders'[i]) : i \in OrderId}
    BY <1>1, <1>2
  <2>2. ASSUME NEW i \in OrderId, NEW k \in KeysOf(i, orders'[i])
        PROVE  k \in index'
    BY <1>1, <1>2
  <2>. QED BY <2>1, <2>2
<1>. QED BY <1>3 DEF IndexExact, KeysOf

LEMMA SellerKeepsIndex ==
  ASSUME OrdersTypeOK, NothingUnused, IndexExact, SellerNext
  PROVE  IndexExact'
<1>1. ASSUME NEW id \in OrderId, NEW s \in Seller, NEW o \in Listing,
             CreateOrder(id, s, o.sale, o.terms)
      PROVE  IndexExact'
  <2>. DEFINE new == Open(s, o.sale, o.terms)
  <2>1. Exists(new)
    BY OpenIsOrder, OrderBookAssumption DEF IsOpen
  <2>2. ~Exists(orders[id])
    BY <1>1 DEF CreateOrder, NothingUnused, Exists
  <2>3. /\ index' = (index \ StaleKeys(id, orders[id], new)) \cup Keys(id, new)
        /\ orders'[id] = new /\ \A i \in OrderId \ {id} : orders'[i] = orders[i]
    BY <1>1 DEF CreateOrder, SetOrder, OrdersTypeOK
  <2>. HIDE DEF new
  <2>4. (KeysOf(id, orders[id]) \ StaleKeys(id, orders[id], new)) \cup Keys(id, new)
          = KeysOf(id, orders'[id])
    BY <2>1, <2>2, <2>3, StoredKeys
  <2>5. \A k \in StaleKeys(id, orders[id], new) \cup Keys(id, new) : k[3] = id
    BY KeyEndsWithId
  <2>. QED BY <2>3, <2>4, <2>5, OneChanged
<1>2. ASSUME NEW id \in OrderId, NEW o \in Listing, EditOrder(id, o.sale, o.terms)
      PROVE  IndexExact'
  <2>. DEFINE new == Open(orders[id].seller, o.sale, o.terms)
  <2>1. orders[id] \in Order
    BY <1>2 DEF EditOrder, Editable, Exists, OrdersTypeOK
  <2>2. orders[id].seller \in User
    BY <2>1 DEF Order
  <2>3. Exists(new) /\ new.seller = orders[id].seller
    BY <2>2, OpenIsOrder, OrderBookAssumption DEF IsOpen
  <2>4. /\ index' = (index \ StaleKeys(id, orders[id], new)) \cup Keys(id, new)
        /\ orders'[id] = new /\ \A i \in OrderId \ {id} : orders'[i] = orders[i]
    BY <1>2 DEF EditOrder, SetOrder, OrdersTypeOK
  <2>. HIDE DEF new
  <2>5. (KeysOf(id, orders[id]) \ StaleKeys(id, orders[id], new)) \cup Keys(id, new)
          = KeysOf(id, orders'[id])
    BY <2>3, <2>4, StoredKeys
  <2>6. \A k \in StaleKeys(id, orders[id], new) \cup Keys(id, new) : k[3] = id
    BY KeyEndsWithId
  <2>. QED BY <2>4, <2>5, <2>6, OneChanged
<1>3. ASSUME NEW id \in OrderId, DeleteOrder(id)
      PROVE  IndexExact'
  <2>1. /\ index' = (index \ Keys(id, orders[id])) \cup {}
        /\ orders'[id] = NoOrder /\ \A i \in OrderId \ {id} : orders'[i] = orders[i]
    BY <1>3 DEF DeleteOrder, OrdersTypeOK
  <2>2. (KeysOf(id, orders[id]) \ Keys(id, orders[id])) \cup {} = KeysOf(id, orders'[id])
    BY <2>1 DEF KeysOf, Exists
  <2>3. \A k \in Keys(id, orders[id]) \cup {} : k[3] = id
    BY KeyEndsWithId
  <2>. QED BY <2>1, <2>2, <2>3, OneChanged
<1>. QED BY <1>1, <1>2, <1>3 DEF SellerNext

\* An order that a certificate locks or resets stays, with what it sells.
LEMMA StoredOrder ==
  ASSUME OrdersTypeOK, NEW n, HandleCertificate(n), NEW id \in Locking(n) \cup Resetting(n)
  PROVE  /\ id \in OrderId /\ Exists(orders[id])
         /\ Exists(OrderAfter(n, id))
         /\ OrderAfter(n, id).seller = orders[id].seller
         /\ OrderAfter(n, id).sale = orders[id].sale
<1>1. Exists(orders[id]) /\ id \in OrderId
  BY DEF Locking, Resetting, LockOrders, ResetOrders
<1>2. orders[id] \in Order
  BY <1>1 DEF OrdersTypeOK, Exists
<1>3. CASE id \in Locking(n)
  <2>1. OrderAfter(n, id) = HeldBy(orders[id], Requester(n, id), n + BuyDeadlineBlocks)
    BY <1>3 DEF OrderAfter
  <2>2. Requester(n, id) \in User /\ n + BuyDeadlineBlocks \in Nat
    BY <1>3, RequesterBuys, OrderBookAssumption
       DEF Locking, LockOrders, HandleCertificate, NewCertificate, OrdersTypeOK
  <2>. QED BY <1>1, <1>2, <2>1, <2>2, HeldByIsOrder
<1>4. CASE id \notin Locking(n)
  <2>1. OrderAfter(n, id) = HeldBy(orders[id], NoBuyer, 0)
    BY <1>4 DEF OrderAfter
  <2>2. NoBuyer \in User \cup {NoBuyer} /\ 0 \in Nat
    OBVIOUS
  <2>3. /\ Exists(HeldBy(orders[id], NoBuyer, 0))
        /\ HeldBy(orders[id], NoBuyer, 0).seller = orders[id].seller
        /\ HeldBy(orders[id], NoBuyer, 0).sale = orders[id].sale
    BY <1>2, <2>2, HeldByIsOrder
  <2>. QED BY <1>1, <2>1, <2>3
<1>. QED BY <1>3, <1>4

LEMMA CertificateKeepsIndex ==
  ASSUME OrdersTypeOK, IndexExact, NEW n, HandleCertificate(n)
  PROVE  IndexExact'
<1>. DEFINE stored == Locking(n) \cup Resetting(n)
            lost(id) == StaleKeys(id, orders[id], OrderAfter(n, id))
<1>1. /\ \A id \in OrderId : orders'[id] = OrderAfter(n, id)
      /\ index' = (index \ UNION ({lost(id) : id \in stored}
                                    \cup {Keys(id, orders[id]) : id \in Closing(n)}))
                   \cup UNION {Keys(id, OrderAfter(n, id)) : id \in stored}
  BY DEF HandleCertificate
<1>2. index = UNION {KeysOf(id, orders[id]) : id \in OrderId}
  BY IndexByOrder
<1>3. stored \subseteq OrderId /\ Closing(n) \subseteq OrderId /\ stored \cap Closing(n) = {}
  <2>1. n \in Nat
    BY DEF HandleCertificate, NewCertificate, OrdersTypeOK
  <2>2. \A id \in OrderId : Locked(built[n][id]) => built[n][id].deadline \in Nat
    BY DEF HandleCertificate, NewCertificate, OrdersTypeOK, Locked, Exists, Order
  <2>. QED BY <2>1, <2>2
           DEF Locking, Resetting, Closing, LockOrders, ResetOrders, CloseOrders
<1>4. ASSUME NEW id \in stored
      PROVE  /\ Exists(OrderAfter(n, id))
             /\ (KeysOf(id, orders[id]) \ lost(id)) \cup Keys(id, OrderAfter(n, id))
                  = KeysOf(id, OrderAfter(n, id))
  <2>1. /\ Exists(orders[id]) /\ Exists(OrderAfter(n, id))
        /\ OrderAfter(n, id).seller = orders[id].seller
    BY <1>4, StoredOrder
  <2>. QED BY <2>1, StoredKeys
<1>5. ASSUME NEW id \in Closing(n)
      PROVE  KeysOf(id, OrderAfter(n, id)) = {} /\ KeysOf(id, orders[id]) = Keys(id, orders[id])
  <2>1. id \notin Locking(n) /\ id \notin Resetting(n) /\ Exists(orders[id])
    BY <1>3 DEF Closing, Locked
  <2>. QED BY <2>1 DEF OrderAfter, KeysOf, Exists
<1>6. ASSUME NEW id \in OrderId, id \notin stored, id \notin Closing(n)
      PROVE  OrderAfter(n, id) = orders[id]
  BY <1>6 DEF OrderAfter
<1>7. /\ \A id \in OrderId : \A k \in KeysOf(id, orders[id]) : k[3] = id
      /\ \A id \in OrderId : \A k \in KeysOf(id, OrderAfter(n, id)) : k[3] = id
      /\ \A id : \A k \in lost(id) : k[3] = id
      /\ \A id : \A k \in Keys(id, orders[id]) : k[3] = id
      /\ \A id : \A k \in Keys(id, OrderAfter(n, id)) : k[3] = id
  BY KeyEndsWithId DEF KeysOf
<1>. HIDE DEF stored, lost
<1>8. ASSUME NEW k \in index'
      PROVE  \E id \in OrderId : k \in KeysOf(id, OrderAfter(n, id))
  <2>1. CASE \E id \in stored : k \in Keys(id, OrderAfter(n, id))
    BY <1>3, <1>4, <2>1 DEF KeysOf
  <2>2. CASE ~\E id \in stored : k \in Keys(id, OrderAfter(n, id))
    <3>1. PICK id \in OrderId : k \in KeysOf(id, orders[id])
      BY <1>1, <1>2, <2>2
    <3>2. /\ id \in stored => k \notin lost(id)
          /\ id \in Closing(n) => k \notin Keys(id, orders[id])
      BY <1>1, <2>2
    <3>. QED BY <1>4, <1>5, <1>6, <3>1, <3>2
  <2>. QED BY <2>1, <2>2
<1>9. ASSUME NEW id \in OrderId, NEW k \in KeysOf(id, OrderAfter(n, id))
      PROVE  k \in index'
  <2>1. CASE id \in stored
    BY <1>1, <1>4, <2>1 DEF KeysOf
  <2>2. CASE id \notin stored
    <3>1. id \notin Closing(n) /\ k \in KeysOf(id, orders[id])
      BY <1>5, <1>6, <2>2
    <3>2. k \in index
      BY <1>2, <3>1
    <3>3. /\ \A i \in stored : k \notin lost(i)
          /\ \A i \in Closing(n) : k \notin Keys(i, orders[i])
      BY <1>7, <2>2, <3>1
    <3>. QED BY <1>1, <3>2, <3>3
  <2>. QED BY <2>1, <2>2
<1>10. index' = UNION {KeysOf(id, orders'[id]) : id \in OrderId}
  BY <1>1, <1>8, <1>9
<1>. QED BY <1>10 DEF IndexExact, KeysOf

\* The indexes by seller and by buyer hold the keys of the orders there are.
THEOREM IndexAlwaysExact == OrdersSpec => []IndexExact
<1>. DEFINE Inv == LockInv /\ IndexExact
<1>1. OrdersInit => Inv
  BY LocksHoldInitially DEF OrdersInit, IndexExact, Exists
<1>2. Inv /\ [OrdersNext]_orderVars => Inv'
  <2>. SUFFICES ASSUME LockInv, IndexExact, [OrdersNext]_orderVars
                PROVE  IndexExact'
    BY LocksHoldNext
  <2>1. CASE SellerNext
    BY <2>1, SellerKeepsIndex DEF LockInv
  <2>2. CASE \E n \in 1 .. LastBlock : HandleCertificate(n)
    BY <2>2, CertificateKeepsIndex DEF LockInv
  <2>3. CASE UNCHANGED <<orders, index>>
    BY <2>3 DEF IndexExact
  <2>. QED BY <2>1, <2>2, <2>3
           DEF OrdersNext, NewRootInfo, CommitBlock, orderVars, rootVars
<1>. QED BY <1>1, <1>2, PTL DEF OrdersSpec

-----------------------------------------------------------------------------
(***************************************************************************)
(* The escrow pool.  An amount for every id, zero for one with no order,   *)
(* makes the orders' sales a sum over a set that never changes; a seller   *)
(* changes one amount of it, a certificate those of the orders it closes,  *)
(* which it pays to the users who hold them.                               *)
(***************************************************************************)
Sale(o) == IF Exists(o) THEN o.sale ELSE 0
Sales == [id \in OrderId |-> Sale(orders[id])]

Issued == SumOver([u \in User |-> InitialFunds], User)

MoneyInv ==
  /\ funds \in [User -> Int] /\ escrow \in Int
  /\ escrow = SumOver(Sales, OrderId)
  /\ escrow + SumOver(funds, User) = Issued

LEMMA SalesAreAmounts ==
  ASSUME OrdersTypeOK
  PROVE  \A id \in OrderId : Sales[id] \in Nat /\ Sales[id] = Sale(orders[id])
BY DEF OrdersTypeOK, Sales, Sale, Exists, Order

\* What orders pay out, as a part of the sum of all.
LEMMA PaidOutIsSum ==
  ASSUME OrdersTypeOK, NEW ids \in SUBSET OrderId, \A id \in ids : Exists(orders[id])
  PROVE  PaidOut(ids) = SumOver(Sales, ids)
<1>. DEFINE f == [id \in ids |-> orders[id].sale]
<1>1. IsFiniteSet(ids)
  BY OrderBookAssumption, FS_Subset
<1>2. \A id \in ids : f[id] = Sales[id] /\ Sales[id] \in Int
  BY SalesAreAmounts DEF Sale
<1>3. PaidOut(ids) = SumOver(f, ids)
  BY DEF PaidOut
<1>4. SumOver(f, ids) = SumOver(Sales, ids)
  <2>. HIDE DEF f
  <2>. QED BY <1>1, <1>2, SumSame
<1>. QED BY <1>3, <1>4

LEMMA AllOrdersPaidOut ==
  ASSUME OrdersTypeOK
  PROVE  PaidOut({id \in OrderId : Exists(orders[id])}) = SumOver(Sales, OrderId)
<1>. DEFINE there == {id \in OrderId : Exists(orders[id])}
<1>1. PaidOut(there) = SumOver(Sales, there)
  BY PaidOutIsSum
<1>2. /\ there \subseteq OrderId /\ \A id \in OrderId \ there : Sales[id] = 0
      /\ \A id \in there : Sales[id] \in Int
  BY SalesAreAmounts DEF Sale
<1>3. SumOver(Sales, OrderId) = SumOver(Sales, there)
  <2>. HIDE DEF there
  <2>. QED BY <1>2, SumWhere, OrderBookAssumption
<1>. QED BY <1>1, <1>3

LEMMA EscrowFromMoney ==
  ASSUME OrdersTypeOK, MoneyInv
  PROVE  EscrowHoldsOrders
BY AllOrdersPaidOut DEF EscrowHoldsOrders, MoneyInv, Issued

\* A seller's step moves what the order gains or loses.
LEMMA OneSale ==
  ASSUME OrdersTypeOK, OrdersTypeOK', MoneyInv,
         NEW id \in OrderId, NEW u \in User, NEW added \in Int,
         \A i \in OrderId \ {id} : orders'[i] = orders[i],
         Sale(orders'[id]) = Sale(orders[id]) + added,
         funds' = [funds EXCEPT ![u] = @ - added],
         escrow' = escrow + added
  PROVE  MoneyInv'
<1>1. /\ \A i \in OrderId : Sales[i] \in Int /\ Sales'[i] \in Int
      /\ \A i \in OrderId \ {id} : Sales'[i] = Sales[i]
      /\ Sales'[id] = Sales[id] + added
  BY DEF OrdersTypeOK, Sales, Sale, Exists, Order
<1>2. SumOver(Sales', OrderId) = SumOver(Sales, OrderId) - Sales[id] + Sales'[id]
  BY <1>1, SumUpdate, OrderBookAssumption
<1>. DEFINE after == funds'
<1>3. /\ after \in [User -> Int] /\ after[u] = funds[u] - added
      /\ \A w \in User \ {u} : after[w] = funds[w]
  BY DEF MoneyInv
<1>4. /\ \A w \in User : funds[w] \in Int
      /\ \A w \in User : after[w] \in Int
  BY <1>3 DEF MoneyInv
<1>5. SumOver(after, User) = SumOver(funds, User) - funds[u] + after[u]
  <2>. HIDE DEF after
  <2>. QED BY <1>3, <1>4, SumUpdate, OrderBookAssumption
<1>6. SumOver(funds, User) \in Int /\ SumOver(Sales, OrderId) \in Int
  BY <1>1, <1>4, SumInt, OrderBookAssumption
<1>7. Issued' = Issued
  BY DEF Issued
<1>. QED BY <1>1, <1>2, <1>3, <1>4, <1>5, <1>6, <1>7 DEF MoneyInv

LEMMA SellerKeepsMoney ==
  ASSUME LockInv, OrdersTypeOK', MoneyInv, SellerNext
  PROVE  MoneyInv'
<1>. USE DEF LockInv
<1>1. ASSUME NEW id \in OrderId, NEW s \in Seller, NEW o \in Listing,
             CreateOrder(id, s, o.sale, o.terms)
      PROVE  MoneyInv'
  <2>1. s \in User /\ o.sale \in Nat /\ o.terms \in Terms
    BY OrderBookAssumption
  <2>2. /\ orders'[id] = Open(s, o.sale, o.terms) /\ orders[id] = NoOrder
        /\ \A i \in OrderId \ {id} : orders'[i] = orders[i]
    BY <1>1 DEF CreateOrder, SetOrder, OrdersTypeOK, NothingUnused
  <2>3. o.sale \in Int /\ Sale(orders'[id]) = Sale(orders[id]) + o.sale
    BY <2>1, <2>2, OpenIsOrder DEF Sale, Exists, IsOpen, Open
  <2>4. funds' = [funds EXCEPT ![s] = @ - o.sale] /\ escrow' = escrow + o.sale
    BY <1>1 DEF CreateOrder
  <2>. QED BY <2>1, <2>2, <2>3, <2>4, OneSale
<1>2. ASSUME NEW id \in OrderId, NEW o \in Listing, EditOrder(id, o.sale, o.terms)
      PROVE  MoneyInv'
  <2>. DEFINE s == orders[id].seller
              added == Added(id, o.sale)
  <2>1. orders[id] \in Order /\ Exists(orders[id])
    BY <1>2 DEF EditOrder, Editable, Exists, OrdersTypeOK
  <2>2. s \in User /\ o.sale \in Nat /\ o.terms \in Terms /\ orders[id].sale \in Nat
    BY <2>1, OrderBookAssumption DEF Order
  <2>3. /\ orders'[id] = Open(s, o.sale, o.terms)
        /\ \A i \in OrderId \ {id} : orders'[i] = orders[i]
    BY <1>2 DEF EditOrder, SetOrder, OrdersTypeOK
  <2>4. Sale(orders'[id]) = o.sale /\ Sale(orders[id]) = orders[id].sale
    BY <2>1, <2>2, <2>3, OpenIsOrder DEF Sale, IsOpen, Open
  <2>5. added \in Int /\ Sale(orders'[id]) = Sale(orders[id]) + added
    BY <2>2, <2>4 DEF Added
  <2>6. funds' = [funds EXCEPT ![s] = @ - added] /\ escrow' = escrow + added
    BY <1>2 DEF EditOrder
  <2>. HIDE DEF s, added
  <2>. QED BY <2>2, <2>3, <2>5, <2>6, OneSale
<1>3. ASSUME NEW id \in OrderId, DeleteOrder(id)
      PROVE  MoneyInv'
  <2>. DEFINE s == orders[id].seller
              added == 0 - orders[id].sale
  <2>1. orders[id] \in Order /\ Exists(orders[id])
    BY <1>3 DEF DeleteOrder, Editable, Exists, OrdersTypeOK
  <2>2. s \in User /\ orders[id].sale \in Nat
    BY <2>1 DEF Order
  <2>3. orders'[id] = NoOrder /\ \A i \in OrderId \ {id} : orders'[i] = orders[i]
    BY <1>3 DEF DeleteOrder, OrdersTypeOK
  <2>4. added \in Int /\ Sale(orders'[id]) = Sale(orders[id]) + added
    BY <2>1, <2>2, <2>3 DEF Sale, Exists
  <2>5. funds' = [funds EXCEPT ![s] = @ - added] /\ escrow' = escrow + added
    <3>1. funds[s] - added = funds[s] + orders[id].sale /\ escrow + added = escrow - orders[id].sale
      BY <2>2 DEF MoneyInv
    <3>. QED BY <1>3, <3>1 DEF DeleteOrder
  <2>. HIDE DEF s, added
  <2>. QED BY <2>2, <2>3, <2>4, <2>5, OneSale
<1>. QED BY <1>1, <1>2, <1>3 DEF SellerNext

LEMMA CertificateKeepsMoney ==
  ASSUME OrdersTypeOK, OrdersTypeOK', MoneyInv, NEW n, HandleCertificate(n)
  PROVE  MoneyInv'
<1>. DEFINE C == Closing(n)
            held(u) == {id \in C : orders[id].buyer = u}
            paid == [u \in User |-> PaidOut(held(u))]
            gone == [id \in OrderId |-> IF id \in C THEN Sales[id] ELSE 0]
            buyer == [id \in C |-> orders[id].buyer]
<1>1. /\ C \subseteq OrderId
      /\ \A id \in C : Exists(orders[id]) /\ orders[id].buyer \in User
  BY DEF Closing, CloseOrders, Locked, Exists, OrdersTypeOK, Order
<1>2. IsFiniteSet(C) /\ IsFiniteSet(OrderId) /\ IsFiniteSet(User)
  BY <1>1, OrderBookAssumption, FS_Subset
<1>3. \A id \in OrderId : Sales[id] \in Int /\ Sales'[id] \in Int
  BY SalesAreAmounts DEF OrdersTypeOK, Sales, Sale, Exists, Order
\* The orders that are closed are gone, the others sell what they sold.
<1>4. \A id \in OrderId : Sales[id] = Sales'[id] + gone[id]
  <2>. SUFFICES ASSUME NEW id \in OrderId
                PROVE  Sales[id] = Sales'[id] + gone[id]
    OBVIOUS
  <2>1. orders'[id] = OrderAfter(n, id) /\ orders[id] \in Order \cup {NoOrder}
    BY DEF HandleCertificate, OrdersTypeOK
  <2>2. CASE id \in Closing(n)
    <3>1. n \in Nat /\ Locked(built[n][id]) /\ n <= built[n][id].deadline
          /\ built[n][id].deadline \in Nat /\ Locked(orders[id])
      BY <2>2 DEF Closing, CloseOrders, HandleCertificate, NewCertificate, OrdersTypeOK,
                  Locked, Exists, Order
    <3>2. orders'[id] = NoOrder
      BY <2>1, <2>2, <3>1 DEF OrderAfter, Locking, LockOrders, Resetting, ResetOrders
    <3>. QED BY <1>3, <2>2, <3>2 DEF Sales, Sale, Exists
  <2>3. CASE id \notin Closing(n)
    <3>1. Sale(orders'[id]) = Sale(orders[id])
      <4>1. CASE id \in Locking(n) \cup Resetting(n)
        BY <2>1, <4>1, StoredOrder DEF Sale
      <4>2. CASE id \notin Locking(n) \cup Resetting(n)
        BY <2>1, <2>3, <4>2 DEF OrderAfter
      <4>. QED BY <4>1, <4>2
    <3>2. Sales'[id] = Sales[id]
      BY <3>1 DEF Sales
    <3>. QED BY <1>3, <2>3, <3>2
  <2>. QED BY <2>2, <2>3
<1>5. \A id \in OrderId : gone[id] \in Int
  BY <1>3
<1>6. SumOver(Sales, OrderId) = SumOver(Sales', OrderId) + SumOver(gone, OrderId)
  <2>. HIDE DEF gone
  <2>. QED BY <1>2, <1>3, <1>4, <1>5, SumPlus
<1>7. SumOver(gone, OrderId) = SumOver(Sales, C)
  <2>1. /\ \A id \in C : Sales[id] \in Int
        /\ \A id \in C : gone[id] = Sales[id]
        /\ \A id \in OrderId \ C : gone[id] = 0
    BY <1>1, <1>3
  <2>. HIDE DEF gone, C
  <2>. QED BY <1>1, <1>2, <2>1, SumWhere
\* Every order that is closed is paid to one user.
<1>8. \A u \in User : paid[u] = SumOver(Sales, Group(buyer, C, u))
  <2>. SUFFICES ASSUME NEW u \in User
                PROVE  paid[u] = SumOver(Sales, Group(buyer, C, u))
    OBVIOUS
  <2>1. held(u) = Group(buyer, C, u)
    BY DEF Group
  <2>2. PaidOut(held(u)) = SumOver(Sales, held(u))
    <3>1. held(u) \in SUBSET OrderId /\ \A id \in held(u) : Exists(orders[id])
      BY <1>1
    <3>. HIDE DEF held
    <3>. QED BY <3>1, PaidOutIsSum
  <2>3. paid[u] = PaidOut(held(u))
    OBVIOUS
  <2>. HIDE DEF held, paid, buyer
  <2>. QED BY <2>1, <2>2, <2>3
<1>9. SumOver(paid, User) = SumOver(Sales, C)
  <2>1. \A id \in C : buyer[id] \in User
    BY <1>1
  <2>2. \A id \in C : Sales[id] \in Int
    BY <1>1, <1>3
  <2>3. IsFiniteSet(C)
    BY <1>2
  <2>4. IsFiniteSet(User)
    BY <1>2
  <2>. HIDE DEF paid, buyer, C
  <2>. QED BY <1>8, <2>1, <2>2, <2>3, <2>4, SumGroups
<1>10. \A u \in User : paid[u] \in Int
  <2>1. \A A \in SUBSET C : IsFiniteSet(A) /\ \A id \in A : Sales[id] \in Int
    BY <1>1, <1>2, <1>3, FS_Subset
  <2>2. \A A \in SUBSET C : SumOver(Sales, A) \in Int
    BY <2>1, SumInt
  <2>3. \A u \in User : Group(buyer, C, u) \in SUBSET C
    BY DEF Group
  <2>. HIDE DEF paid, buyer, C
  <2>. QED BY <1>8, <2>2, <2>3
<1>11. /\ funds' \in [User -> Int]
       /\ \A u \in User : funds'[u] = funds[u] + paid[u]
       /\ \A u \in User : funds[u] \in Int
  <2>1. \A u \in User : funds[u] \in Int
    BY DEF MoneyInv
  <2>2. funds' = [u \in User |-> funds[u] + paid[u]]
    BY DEF HandleCertificate
  <2>. HIDE DEF paid
  <2>. QED BY <1>10, <2>1, <2>2
<1>12. SumOver(funds', User) = SumOver(funds, User) + SumOver(paid, User)
  <2>. HIDE DEF paid
  <2>. QED BY <1>2, <1>10, <1>11, SumPlus
<1>13. escrow' = escrow - SumOver(Sales, C)
  <2>1. PaidOut(C) = SumOver(Sales, C)
    <3>. HIDE DEF C
    <3>. QED BY <1>1, PaidOutIsSum
  <2>. QED BY <2>1 DEF HandleCertificate
<1>14. /\ SumOver(Sales, C) \in Int /\ SumOver(funds, User) \in Int
       /\ SumOver(Sales', OrderId) \in Int
  <2>1. \A id \in C : Sales[id] \in Int
    BY <1>1, <1>3
  <2>. HIDE DEF C
  <2>. QED BY <1>2, <1>3, <1>11, <2>1, SumInt
<1>15. Issued' = Issued
  BY DEF Issued
<1>. HIDE DEF C, paid, gone
<1>. QED BY <1>6, <1>7, <1>9, <1>11, <1>12, <1>13, <1>14, <1>15 DEF MoneyInv

LEMMA MoneyHoldsInitially ==
  ASSUME OrdersInit
  PROVE  MoneyInv
<1>1. \A id \in OrderId : Sales[id] = 0
  BY DEF OrdersInit, Sales, Sale, Exists
<1>2. SumOver(Sales, OrderId) = 0
  BY <1>1, SumZero, OrderBookAssumption
<1>3. funds \in [User -> Int] /\ SumOver(funds, User) = Issued
  BY OrderBookAssumption DEF OrdersInit, Issued
<1>4. SumOver(funds, User) \in Int
  BY <1>3, SumInt, OrderBookAssumption
<1>. QED BY <1>2, <1>3, <1>4 DEF OrdersInit, MoneyInv

\* The escrow pool holds what the open orders sell, no more and no less, and the
\* tokens of the root chain are on accounts or in escrow; the indexes hold the keys
\* of these orders: whatever certificates close, reset or lock, and whenever.
THEOREM OrderBookAlwaysKept == OrdersSpec => []OrderBookKept
<1>. DEFINE Inv == LockInv /\ MoneyInv
<1>1. OrdersInit => Inv
  BY LocksHoldInitially, MoneyHoldsInitially
<1>2. Inv /\ [OrdersNext]_orderVars => Inv'
  <2>. SUFFICES ASSUME LockInv, MoneyInv, [OrdersNext]_orderVars
                PROVE  MoneyInv'
    BY LocksHoldNext
  <2>1. OrdersTypeOK'
    BY TypesKept DEF LockInv
  <2>2. CASE SellerNext
    BY <2>1, <2>2, SellerKeepsMoney
  <2>3. CASE \E n \in 1 .. LastBlock : HandleCertificate(n)
    BY <2>1, <2>3, CertificateKeepsMoney DEF LockInv
  <2>4. CASE UNCHANGED <<orders, funds, escrow>>
    BY <2>4 DEF MoneyInv, Sales, Issued
  <2>. QED BY <2>2, <2>3, <2>4
           DEF OrdersNext, NewRootInfo, CommitBlock, orderVars, rootVars
<1>3. Inv => EscrowHoldsOrders
  BY EscrowFromMoney DEF LockInv
<1>4. OrdersSpec => []EscrowHoldsOrders
  BY <1>1, <1>2, <1>3, PTL DEF OrdersSpec
<1>. QED BY <1>4, IndexAlwaysExact, PTL DEF OrderBookKept
=============================================================================
