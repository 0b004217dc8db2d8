------------------------------ MODULE DexProofs ------------------------------
(***************************************************************************)
(* Proofs about the exchange of the two chains, for any orders, deposits,  *)
(* withdrawals, pools, limits of a batch and number of fallbacks.          *)
(*                                                                         *)
(*   1. one chain: its holding pool is what its batches escrow, and no     *)
(*      operation creates tokens or pays more than a pool holds            *)
(*   2. the batches of the chains answer each other in turn                *)
(*   3. the chains compute with the same pools and have the same points    *)
(*   4. an exchange is atomic                                              *)
(***************************************************************************)
EXTENDS DexProperties, SumProofs, TLAPS

-----------------------------------------------------------------------------
(***************************************************************************)
(* Arithmetic: rounded division and the integer square root.               *)
(***************************************************************************)
\* Division of natural numbers.
LEMMA DivNat ==
  ASSUME NEW a \in Nat, NEW b \in Nat, b > 0
  PROVE  /\ a \div b \in Nat
         /\ b * (a \div b) <= a
         /\ a < b * (a \div b) + b
OBVIOUS

\* A product grows with its factors.
LEMMA TimesMonotone ==
  ASSUME NEW a \in Nat, NEW b \in Nat, NEW c \in Nat, b <= c
  PROVE  a * b <= a * c
OBVIOUS

\* A common factor can be left out of a comparison.
LEMMA Quotient ==
  ASSUME NEW b \in Nat, b > 0, NEW q \in Nat, NEW c \in Nat, b * q <= b * c
  PROVE  q <= c
OBVIOUS

\* A product divided and rounded down is no more than the exact quotient.
LEMMA MulDivNat ==
  ASSUME NEW a \in Nat, NEW b \in Nat, NEW c \in Nat, c > 0
  PROVE  MulDiv(a, b, c) \in Nat /\ c * MulDiv(a, b, c) <= a * b
<1>1. a * b \in Nat
  OBVIOUS
<1>. QED BY <1>1, DivNat DEF MulDiv

\* A part of an amount is no more than the amount.
LEMMA MulDivPart ==
  ASSUME NEW a \in Nat, NEW b \in Nat, NEW c \in Nat, c > 0, b <= c
  PROVE  MulDiv(a, b, c) \in Nat /\ MulDiv(a, b, c) <= a
<1>1. MulDiv(a, b, c) \in Nat /\ c * MulDiv(a, b, c) <= a * b
  BY MulDivNat
<1>2. a * b <= a * c
  BY TimesMonotone
<1>3. c * MulDiv(a, b, c) <= c * a
  BY <1>1, <1>2
<1>. QED BY <1>1, <1>3, Quotient

\* Every natural number has an integer square root.
LEMMA RootExists ==
  ASSUME NEW n \in Nat
  PROVE  \E r \in 0 .. n : r * r <= n /\ (r + 1) * (r + 1) > n
<1>. DEFINE above == {r \in Nat : (r + 1) * (r + 1) > n}
<1>1. n \in above
  <2>1. (n + 1) * (n + 1) = n * n + 2 * n + 1 /\ n * n \in Nat
    OBVIOUS
  <2>. QED BY <2>1
<1>2. PICK m \in above : \A k \in above : m <= k
  <2>1. above \subseteq Nat /\ above # {}
    BY <1>1
  <2>. QED BY <2>1, LeastNat
<1>3. m \in Nat /\ (m + 1) * (m + 1) > n /\ m <= n
  BY <1>1, <1>2
<1>4. m * m <= n
  <2>1. CASE m = 0
    BY <2>1
  <2>2. CASE m > 0
    <3>1. m - 1 \in Nat /\ m - 1 \notin above
      BY <1>2, <1>3, <2>2
    <3>2. ((m - 1) + 1) * ((m - 1) + 1) = m * m
      BY <1>3
    <3>. QED BY <1>3, <3>1, <3>2
  <2>. QED BY <1>3, <2>1, <2>2
<1>. QED BY <1>3, <1>4

\* The integer square root of a product, as the code computes it.
LEMMA RootFound ==
  ASSUME NEW n \in Nat
  PROVE  Root[n] \in Nat /\ Root[n] * Root[n] <= n /\ (Root[n] + 1) * (Root[n] + 1) > n
<1>1. Root[n] = CHOOSE r \in 0 .. n : r * r <= n /\ (r + 1) * (r + 1) > n
  BY DEF Root
<1>2. /\ Root[n] \in 0 .. n
      /\ Root[n] * Root[n] <= n /\ (Root[n] + 1) * (Root[n] + 1) > n
  BY <1>1, RootExists
<1>. QED BY <1>2

\* A greater number has a greater square.
LEMMA Squares ==
  ASSUME NEW a \in Nat, NEW b \in Nat, a <= b
  PROVE  a * a <= b * b
<1>1. a * a <= a * b /\ b * a <= b * b
  BY TimesMonotone
<1>. QED BY <1>1

\* A greater number has a root that is not smaller.
LEMMA RootMonotone ==
  ASSUME NEW n \in Nat, NEW m \in Nat, n <= m
  PROVE  Root[n] <= Root[m]
<1>. DEFINE p == Root[n]
            q == Root[m]
<1>1. /\ p \in Nat /\ p * p <= n
      /\ q \in Nat /\ (q + 1) * (q + 1) > m
  BY RootFound
<1>. HIDE DEF p, q
<1>2. ASSUME q + 1 <= p PROVE FALSE
  <2>1. (q + 1) * (q + 1) <= p * p
    BY <1>1, <1>2, Squares
  <2>2. p * p \in Nat /\ (q + 1) * (q + 1) \in Nat
    BY <1>1
  <2>. QED BY <1>1, <2>1, <2>2
<1>3. p <= q
  BY <1>1, <1>2
<1>. QED BY <1>3 DEF p, q

\* The root of a positive number is positive.
LEMMA RootPositive ==
  ASSUME NEW n \in Nat, n > 0
  PROVE  Root[n] > 0
<1>1. Root[n] \in Nat /\ (Root[n] + 1) * (Root[n] + 1) > n
  BY RootFound
<1>2. ASSUME Root[n] = 0 PROVE FALSE
  BY <1>1, <1>2
<1>. QED BY <1>1, <1>2

\* The square root of the product of two pools that are not empty, and how it grows
\* with a deposit.
LEMMA SqrtProductNat ==
  ASSUME NEW x \in Nat, NEW y \in Nat, NEW amount \in Nat, x > 0, y > 0
  PROVE  /\ SqrtProduct(x, y) \in Nat /\ SqrtProduct(x, y) > 0
         /\ SqrtProduct(x + amount, y) \in Nat
         /\ SqrtProduct(x, y) <= SqrtProduct(x + amount, y)
         /\ SqrtProduct(x, y) = SqrtProduct(y, x)
<1>1. x * y \in Nat /\ x * y > 0 /\ x * y = y * x
  OBVIOUS
<1>2. (x + amount) * y \in Nat /\ x * y <= (x + amount) * y
  <2>1. x + amount \in Nat /\ x <= x + amount
    OBVIOUS
  <2>2. y * x <= y * (x + amount)
    BY <2>1, TimesMonotone
  <2>. QED BY <2>1, <2>2
<1>. QED BY <1>1, <1>2, RootFound, RootMonotone, RootPositive DEF SqrtProduct

-----------------------------------------------------------------------------
(***************************************************************************)
(* The ledger of one chain, lemma by lemma for orders, withdrawals and     *)
(* deposits: amounts stay amounts, and no token is created.                *)
(***************************************************************************)
Holder == Provider \cup {DeadAddress}

Book == [account : Nat, holding : Int, liquidity : Nat, points : [Holder -> Nat]]

\* The books while a batch is handled, with a mirror in C.
OpenBook(C) ==
  [account : Nat, holding : Int, liquidity : Nat, points : [Holder -> Nat],
   counter : C, receipts : Seq(Nat)]

\* What no step of a batch may change.
Wealth(books) == books.account + books.holding + books.liquidity

\* The indices of a sequence.
LEMMA SeqDomain ==
  ASSUME NEW S, NEW s \in Seq(S)
  PROVE  /\ DOMAIN s = 1 .. Len(s) /\ Len(s) \in Nat
         /\ IsFiniteSet(DOMAIN s)
         /\ \A i \in DOMAIN s : s[i] \in S
<1>1. DOMAIN s = 1 .. Len(s) /\ Len(s) \in Nat /\ \A i \in DOMAIN s : s[i] \in S
  OBVIOUS
<1>2. IsFiniteSet(1 .. Len(s))
  BY <1>1, FS_Interval
<1>. QED BY <1>1, <1>2

\* What a list of orders sells is an amount.
LEMMA SalesNat ==
  ASSUME NEW orders \in Seq(Order)
  PROVE  /\ DOMAIN Sales(orders) = DOMAIN orders
         /\ \A i \in DOMAIN orders : Sales(orders)[i] \in Nat /\ Sales(orders)[i] = orders[i].sale
         /\ Sold(orders) \in Nat
<1>1. \A i \in DOMAIN orders : Sales(orders)[i] \in Nat /\ Sales(orders)[i] = orders[i].sale
  BY SeqDomain, ExchangeAssumption DEF Sales
<1>2. IsFiniteSet(DOMAIN orders)
  BY SeqDomain
<1>3. Sold(orders) \in Nat
  BY <1>1, <1>2, SumNat DEF Sold
<1>. QED BY <1>1, <1>3 DEF Sales

Amounts(deposits) == [i \in DOMAIN deposits |-> deposits[i].amount]

\* What a list of deposits puts in is an amount.
LEMMA PutNat ==
  ASSUME NEW deposits \in Seq(Deposit)
  PROVE  /\ \A i \in DOMAIN deposits : Amounts(deposits)[i] \in Nat
         /\ Put(deposits) \in Nat /\ Put(deposits) = SumOver(Amounts(deposits), DOMAIN deposits)
<1>1. \A i \in DOMAIN deposits : Amounts(deposits)[i] \in Nat
  BY SeqDomain, ExchangeAssumption DEF Amounts
<1>2. IsFiniteSet(DOMAIN deposits)
  BY SeqDomain
<1>3. Put(deposits) = SumOver(Amounts(deposits), DOMAIN deposits)
  BY DEF Put, Amounts
<1>. QED BY <1>1, <1>2, <1>3, SumNat

PaidOrders(orders, receipts) == {i \in DOMAIN orders : receipts[i] # 0}

\* Settling orders moves what they sold out of the holding pool and creates nothing.
LEMMA SettleKeeps ==
  ASSUME NEW books \in OpenBook(Nat), NEW orders \in Seq(Order), NEW receipts,
         \A i \in DOMAIN orders : receipts[i] \in Nat
  PROVE  /\ SettleOrders(books, orders, receipts) \in OpenBook(Int)
         /\ Wealth(SettleOrders(books, orders, receipts)) = Wealth(books)
         /\ SettleOrders(books, orders, receipts).holding = books.holding - Sold(orders)
         /\ SettleOrders(books, orders, receipts).points = books.points
         /\ SettleOrders(books, orders, receipts).liquidity >= books.liquidity
         /\ SettleOrders(books, orders, receipts).liquidity
              = books.liquidity + SumOver(Sales(orders), PaidOrders(orders, receipts))
         /\ SettleOrders(books, orders, receipts).counter
              = books.counter - SumOver(receipts, PaidOrders(orders, receipts))
<1>. DEFINE D == DOMAIN orders
            paid == PaidOrders(orders, receipts)
            kept == SumOver(Sales(orders), paid)
            back == SumOver(Sales(orders), D \ paid)
            out == SumOver(receipts, paid)
            b == SettleOrders(books, orders, receipts)
<1>1. IsFiniteSet(D) /\ \A i \in D : Sales(orders)[i] \in Nat
  BY SeqDomain, SalesNat
<1>2. paid \subseteq D /\ D \cap paid = paid /\ IsFiniteSet(paid) /\ IsFiniteSet(D \ paid)
  <2>1. paid \subseteq D
    BY DEF PaidOrders
  <2>2. IsFiniteSet(paid) /\ IsFiniteSet(D \ paid)
    BY <1>1, <2>1, FS_Subset
  <2>. QED BY <2>1, <2>2
<1>3. kept \in Nat /\ back \in Nat /\ out \in Nat
  <2>1. kept \in Nat
    BY <1>1, <1>2, SumNat
  <2>2. back \in Nat
    BY <1>1, <1>2, SumNat
  <2>3. out \in Nat
    BY <1>1, <1>2, SumNat
  <2>. QED BY <2>1, <2>2, <2>3
<1>4. Sold(orders) = kept + back
  <2>1. \A i \in D : Sales(orders)[i] \in Int
    BY <1>1
  <2>2. SumOver(Sales(orders), D) = SumOver(Sales(orders), D \cap paid) + back
    BY <1>1, <2>1, SumParts
  <2>. QED BY <1>2, <2>2 DEF Sold
<1>5. b = [books EXCEPT !.holding = @ - Sold(orders), !.liquidity = @ + kept,
                        !.account = @ + back, !.counter = @ - out]
  BY DEF SettleOrders, PaidOrders
<1>6. Sold(orders) \in Nat
  BY SalesNat
<1>. HIDE DEF b, kept, back, out, paid, D
<1>7. /\ b \in OpenBook(Int)
      /\ b.holding = books.holding - Sold(orders) /\ b.points = books.points
      /\ b.liquidity = books.liquidity + kept /\ b.counter = books.counter - out
      /\ b.account = books.account + back
  <2>0. /\ books.holding \in Int /\ books.liquidity \in Nat
        /\ books.account \in Nat /\ books.counter \in Nat
    BY DEF OpenBook
  <2>1. /\ books.holding - Sold(orders) \in Int /\ books.liquidity + kept \in Nat
        /\ books.account + back \in Nat /\ books.counter - out \in Int
    <3>1. books.holding - Sold(orders) \in Int
      BY <1>6, <2>0
    <3>2. books.liquidity + kept \in Nat
      BY <1>3, <2>0
    <3>3. books.account + back \in Nat
      BY <1>3, <2>0
    <3>4. books.counter - out \in Int
      BY <1>3, <2>0
    <3>. QED BY <3>1, <3>2, <3>3, <3>4
  <2>2. b = [account |-> books.account + back, holding |-> books.holding - Sold(orders),
             liquidity |-> books.liquidity + kept, points |-> books.points,
             counter |-> books.counter - out, receipts |-> books.receipts]
    BY <1>5 DEF OpenBook
  <2>3. books.points \in [Holder -> Nat] /\ books.receipts \in Seq(Nat)
    BY DEF OpenBook
  <2>. QED BY <2>1, <2>2, <2>3 DEF OpenBook
<1>8. books.account \in Nat /\ books.holding \in Int /\ books.liquidity \in Nat
  BY DEF OpenBook
<1>9. Wealth(b) = Wealth(books) /\ b.liquidity >= books.liquidity
  BY <1>3, <1>4, <1>6, <1>7, <1>8 DEF Wealth
<1>. QED BY <1>7, <1>9 DEF b, kept, out, paid

Burn(points, w) == [points EXCEPT ![w.who] = @ - MulDiv(@, w.percent, 100)]

RemainingBody(points, withdrawals, m, g) ==
  [n \in 0 .. m |-> IF n = 0 THEN points ELSE Burn(g[n - 1], withdrawals[n])]

\* The points after each withdrawal are well defined.
LEMMA RemainingExists ==
  ASSUME NEW points, NEW withdrawals, NEW m \in Nat
  PROVE  \E g : g = RemainingBody(points, withdrawals, m, g)
<1>. DEFINE bad == {k \in Nat : ~ (\E g : g = RemainingBody(points, withdrawals, k, g))}
<1>1. SUFFICES ASSUME bad # {} PROVE FALSE
  OBVIOUS
<1>2. PICK k \in bad : \A j \in bad : k <= j
  <2>1. bad \subseteq Nat
    OBVIOUS
  <2>. QED BY <1>1, <2>1, LeastNat
<1>3. k \in Nat /\ ~ (\E g : g = RemainingBody(points, withdrawals, k, g))
  BY <1>2
<1>4. CASE k = 0
  <2>. DEFINE g == [n \in 0 .. 0 |-> points]
  <2>1. g = RemainingBody(points, withdrawals, 0, g)
    BY DEF RemainingBody
  <2>. QED BY <1>3, <1>4, <2>1
<1>5. CASE k > 0
  <2>1. k - 1 \in Nat /\ k - 1 \notin bad
    BY <1>2, <1>3, <1>5
  <2>2. PICK h : h = RemainingBody(points, withdrawals, k - 1, h)
    BY <2>1
  <2>. DEFINE g == [n \in 0 .. k |-> IF n = k THEN Burn(h[k - 1], withdrawals[k]) ELSE h[n]]
  <2>3. \A n \in 0 .. k - 1 :
          /\ g[n] = h[n]
          /\ h[n] = IF n = 0 THEN points ELSE Burn(h[n - 1], withdrawals[n])
    BY <1>3, <2>1, <2>2 DEF RemainingBody
  <2>4. ASSUME NEW n \in 0 .. k
        PROVE  g[n] = IF n = 0 THEN points ELSE Burn(g[n - 1], withdrawals[n])
    <3>1. CASE n = k
      <4>1. g[k] = Burn(h[k - 1], withdrawals[k]) /\ g[k - 1] = h[k - 1]
        BY <1>3, <1>5, <2>3
      <4>. QED BY <1>5, <3>1, <4>1
    <3>2. CASE n # k
      <4>1. n \in 0 .. k - 1 /\ (n # 0 => n - 1 \in 0 .. k - 1)
        BY <1>3, <3>2
      <4>2. g[n] = h[n] /\ (n # 0 => g[n - 1] = h[n - 1])
        BY <2>3, <4>1
      <4>. HIDE DEF g
      <4>. QED BY <2>3, <4>1, <4>2
    <3>. QED BY <3>1, <3>2
  <2>5. g = RemainingBody(points, withdrawals, k, g)
    <3>1. g = [n \in 0 .. k |-> g[n]]
      OBVIOUS
    <3>. HIDE DEF g
    <3>2. [n \in 0 .. k |-> g[n]] = RemainingBody(points, withdrawals, k, g)
      BY <2>4 DEF RemainingBody
    <3>. QED BY <3>1, <3>2
  <2>. QED BY <1>3, <2>5
<1>. QED BY <1>3, <1>4, <1>5

\* Each withdrawal burns its share of what the one before left.
LEMMA RemainingStep ==
  ASSUME NEW points, NEW withdrawals, Len(withdrawals) \in Nat
  PROVE  LET left == Remaining(points, withdrawals) IN
         /\ left[0] = points
         /\ \A n \in 1 .. Len(withdrawals) : left[n] = Burn(left[n - 1], withdrawals[n])
<1>. DEFINE m == Len(withdrawals)
            left == Remaining(points, withdrawals)
<1>1. left = CHOOSE g : g = RemainingBody(points, withdrawals, m, g)
  BY DEF Remaining, RemainingBody, Burn
<1>2. left = RemainingBody(points, withdrawals, m, left)
  <2>1. \E g : g = RemainingBody(points, withdrawals, m, g)
    BY RemainingExists
  <2>. HIDE DEF left
  <2>. QED BY <1>1, <2>1
<1>3. /\ left[0] = points
      /\ \A n \in 1 .. m : left[n] = Burn(left[n - 1], withdrawals[n])
  BY <1>2 DEF RemainingBody
<1>. QED BY <1>1, <1>3

\* There are finitely many holders.
LEMMA HolderFinite == IsFiniteSet(Holder)
BY ExchangeAssumption, FS_AddElement DEF Holder

\* The total of the points is a number.
LEMMA TotalNat ==
  ASSUME NEW points \in [Holder -> Nat]
  PROVE  /\ TotalPoints(points) = SumOver(points, Holder)
         /\ TotalPoints(points) \in Nat
BY HolderFinite, SumNat DEF TotalPoints

\* A withdrawal takes no more points than its holder has, and the total loses as many.
LEMMA BurnNat ==
  ASSUME NEW points \in [Holder -> Nat], NEW w \in Withdrawal
  PROVE  /\ Burn(points, w) \in [Holder -> Nat]
         /\ w.who \in Holder
         /\ points[w.who] - Burn(points, w)[w.who] \in Nat
         /\ TotalPoints(Burn(points, w)) + (points[w.who] - Burn(points, w)[w.who])
              = TotalPoints(points)
<1>1. w.who \in Holder /\ w.percent \in Nat /\ w.percent <= 100
  BY ExchangeAssumption DEF Holder
<1>. DEFINE part == MulDiv(points[w.who], w.percent, 100)
            after == Burn(points, w)
<1>2. part \in Nat /\ part <= points[w.who]
  <2>1. points[w.who] \in Nat /\ 100 \in Nat /\ 100 > 0
    BY <1>1
  <2>. QED BY <1>1, <2>1, MulDivPart
<1>. HIDE DEF part
<1>3. after = [points EXCEPT ![w.who] = points[w.who] - part]
  BY DEF Burn, part
<1>. HIDE DEF after
<1>4. after \in [Holder -> Nat] /\ after[w.who] = points[w.who] - part
      /\ \A h \in Holder \ {w.who} : after[h] = points[h]
  BY <1>1, <1>2, <1>3
<1>5. SumOver(after, Holder) = SumOver(points, Holder) - points[w.who] + after[w.who]
  <2>1. \A h \in Holder : points[h] \in Int /\ after[h] \in Int
    BY <1>4
  <2>. QED BY <1>1, <1>4, <2>1, HolderFinite, SumUpdate
<1>6. TotalPoints(after) = TotalPoints(points) - points[w.who] + after[w.who]
  BY <1>4, <1>5, TotalNat
<1>7. TotalPoints(points) \in Nat /\ TotalPoints(after) \in Nat
  BY <1>4, TotalNat
<1>8. points[w.who] \in Nat
  BY <1>1
<1>. QED BY <1>1, <1>2, <1>4, <1>6, <1>7, <1>8 DEF after

BurntAt(points, withdrawals, i) ==
  Remaining(points, withdrawals)[i - 1][withdrawals[i].who]
    - Remaining(points, withdrawals)[i][withdrawals[i].who]
Burnt(points, withdrawals) == [i \in DOMAIN withdrawals |-> BurntAt(points, withdrawals, i)]

\* The withdrawals of a batch burn no more points than there are.
LEMMA RemainingNat ==
  ASSUME NEW points \in [Holder -> Nat], NEW withdrawals \in Seq(Withdrawal)
  PROVE  /\ Remaining(points, withdrawals)[Len(withdrawals)] \in [Holder -> Nat]
         /\ \A i \in DOMAIN withdrawals : Burnt(points, withdrawals)[i] \in Nat
         /\ SumOver(Burnt(points, withdrawals), DOMAIN withdrawals) \in Nat
         /\ SumOver(Burnt(points, withdrawals), DOMAIN withdrawals) <= TotalPoints(points)
<1>. DEFINE m == Len(withdrawals)
            left == Remaining(points, withdrawals)
            burnt == Burnt(points, withdrawals)
            G == {n \in 0 .. m :
                    /\ left[n] \in [Holder -> Nat]
                    /\ \A i \in 1 .. n : burnt[i] \in Nat
                    /\ SumOver(burnt, 1 .. n) \in Nat
                    /\ TotalPoints(left[n]) + SumOver(burnt, 1 .. n) = TotalPoints(points)}
<1>1. DOMAIN withdrawals = 1 .. m /\ m \in Nat /\ \A i \in 1 .. m : withdrawals[i] \in Withdrawal
  BY SeqDomain
<1>2. left[0] = points /\ \A n \in 1 .. m : left[n] = Burn(left[n - 1], withdrawals[n])
  BY <1>1, RemainingStep
<1>3. \A n \in 1 .. m : burnt[n] = left[n - 1][withdrawals[n].who] - left[n][withdrawals[n].who]
  BY <1>1 DEF Burnt, BurntAt
<1>. HIDE DEF m, left, burnt
<1>4. 0 \in G
  <2>1. 1 .. 0 = {} /\ SumOver(burnt, {}) = 0 /\ TotalPoints(points) \in Nat
    BY SumEmpty, TotalNat
  <2>2. TotalPoints(left[0]) + SumOver(burnt, 1 .. 0) = TotalPoints(points)
    BY <1>2, <2>1
  <2>. QED BY <1>1, <1>2, <2>1, <2>2
<1>5. ASSUME NEW n \in 1 .. m, n - 1 \in G PROVE n \in G
  <2>1. left[n - 1] \in [Holder -> Nat] /\ withdrawals[n] \in Withdrawal
    BY <1>1, <1>5
  <2>2. /\ left[n] \in [Holder -> Nat] /\ burnt[n] \in Nat
        /\ TotalPoints(left[n]) + burnt[n] = TotalPoints(left[n - 1])
    <3>. DEFINE p == left[n - 1]
                w == withdrawals[n]
    <3>1. /\ Burn(p, w) \in [Holder -> Nat] /\ p[w.who] - Burn(p, w)[w.who] \in Nat
          /\ TotalPoints(Burn(p, w)) + (p[w.who] - Burn(p, w)[w.who]) = TotalPoints(p)
      <4>. HIDE DEF p, w
      <4>1. p \in [Holder -> Nat] /\ w \in Withdrawal
        BY <2>1 DEF p, w
      <4>. QED BY <4>1, BurnNat
    <3>2. left[n] = Burn(p, w) /\ burnt[n] = p[w.who] - left[n][w.who]
      BY <1>2, <1>3
    <3>. QED BY <3>1, <3>2
  <2>3. \A i \in 1 .. n : burnt[i] \in Nat
    <3>1. \A i \in 1 .. n - 1 : burnt[i] \in Nat
      BY <1>5
    <3>2. \A i \in 1 .. n : i \in 1 .. n - 1 \/ i = n
      BY <1>1
    <3>. QED BY <2>2, <3>1, <3>2
  <2>4. /\ SumOver(burnt, 1 .. n - 1) \in Int
        /\ SumOver(burnt, 1 .. n) = burnt[n] + SumOver(burnt, 1 .. n - 1)
    <3>1. n \in Nat /\ n > 0 /\ \A i \in 1 .. n : burnt[i] \in Int
      BY <1>1, <2>3
    <3>. QED BY <3>1, SumLast
  <2>5. SumOver(burnt, 1 .. n - 1) \in Nat
    BY <1>5
  <2>6. TotalPoints(left[n - 1]) + SumOver(burnt, 1 .. n - 1) = TotalPoints(points)
    BY <1>5
  <2>7. TotalPoints(left[n]) \in Nat /\ TotalPoints(left[n - 1]) \in Nat
    BY <2>1, <2>2, TotalNat
  <2>8. TotalPoints(left[n]) + SumOver(burnt, 1 .. n) = TotalPoints(points)
    BY <2>2, <2>4, <2>5, <2>6, <2>7
  <2>9. n \in 0 .. m
    BY <1>1
  <2>. QED BY <2>2, <2>3, <2>4, <2>5, <2>8, <2>9
<1>6. m \in G
  <2>. HIDE DEF G
  <2>1. \A n \in 0 .. m : n \in G
    BY <1>1, <1>4, <1>5, UpTo
  <2>. QED BY <1>1, <2>1
<1>7. TotalPoints(left[m]) \in Nat
  BY <1>6, TotalNat
<1>8. SumOver(burnt, 1 .. m) <= TotalPoints(points)
  BY <1>6, <1>7
<1>. QED BY <1>1, <1>6, <1>8 DEF m, left, burnt

\* Rounded shares of a total, added up, are no more than the total.
LEMMA SharesNat ==
  ASSUME NEW S, IsFiniteSet(S), NEW w \in Nat, NEW t \in Nat, t > 0,
         NEW f, \A x \in S : f[x] \in Nat,
         NEW g, \A x \in S : g[x] = MulDiv(w, f[x], t)
  PROVE  /\ \A x \in S : g[x] \in Nat
         /\ SumOver(f, S) \in Nat /\ SumOver(g, S) \in Nat
         /\ t * SumOver(g, S) <= w * SumOver(f, S)
<1>. DEFINE tg == [x \in S |-> t * g[x]]
            wf == [x \in S |-> w * f[x]]
<1>1. \A x \in S : g[x] \in Nat /\ t * g[x] <= w * f[x]
  BY MulDivNat
<1>2. SumOver(f, S) \in Nat /\ SumOver(g, S) \in Nat
  BY <1>1, SumNat
<1>3. SumOver(tg, S) = t * SumOver(g, S)
  <2>1. \A x \in S : g[x] \in Int /\ tg[x] = t * g[x]
    BY <1>1
  <2>. HIDE DEF tg
  <2>. QED BY <2>1, SumTimes
<1>4. SumOver(wf, S) = w * SumOver(f, S)
  <2>1. \A x \in S : f[x] \in Int /\ wf[x] = w * f[x]
    OBVIOUS
  <2>. HIDE DEF wf
  <2>. QED BY <2>1, SumTimes
<1>5. SumOver(tg, S) <= SumOver(wf, S)
  <2>1. \A x \in S : tg[x] \in Int /\ wf[x] \in Int /\ tg[x] <= wf[x]
    BY <1>1
  <2>. HIDE DEF tg, wf
  <2>. QED BY <2>1, SumMonotone
<1>. QED BY <1>1, <1>2, <1>3, <1>4, <1>5

\* What the withdrawals ask for, and what a pool pays them.
Requested(points, withdrawals) ==
  SumOver([i \in DOMAIN withdrawals |->
             MulDiv(points[withdrawals[i].who], withdrawals[i].percent, 100)],
          DOMAIN withdrawals)
PaidShares(pool, points, withdrawals) ==
  [i \in DOMAIN withdrawals |->
     MulDiv(MulDiv(pool, Requested(points, withdrawals), TotalPoints(points)),
            BurntAt(points, withdrawals, i), Requested(points, withdrawals))]
PaidOut(pool, points, withdrawals) ==
  SumOver(PaidShares(pool, points, withdrawals), DOMAIN withdrawals)

\* What the withdrawals of a batch ask for is a number.
LEMMA RequestedNat ==
  ASSUME NEW points \in [Holder -> Nat], NEW withdrawals \in Seq(Withdrawal)
  PROVE  Requested(points, withdrawals) \in Nat
<1>. DEFINE D == DOMAIN withdrawals
            f == [i \in D |-> MulDiv(points[withdrawals[i].who], withdrawals[i].percent, 100)]
<1>1. IsFiniteSet(D) /\ \A i \in D : withdrawals[i] \in Withdrawal
  BY SeqDomain
<1>2. ASSUME NEW i \in D PROVE f[i] \in Nat
  <2>1. PICK w \in Withdrawal : withdrawals[i] = w
    BY <1>1
  <2>2. w.who \in Holder /\ w.percent \in 0 .. 100
    BY ExchangeAssumption DEF Holder
  <2>3. PICK a \in Nat : points[w.who] = a
    BY <2>2
  <2>4. PICK b \in Nat : w.percent = b /\ b <= 100
    BY <2>2
  <2>5. MulDiv(a, b, 100) \in Nat
    <3>. HIDE DEF f, D
    <3>1. b <= 100 /\ 100 \in Nat /\ 100 > 0
      BY <2>4
    <3>. QED BY <3>1, MulDivPart
  <2>6. i \in DOMAIN withdrawals
    OBVIOUS
  <2>7. f[i] = MulDiv(points[withdrawals[i].who], withdrawals[i].percent, 100)
    BY <2>6
  <2>. HIDE DEF f, D
  <2>. QED BY <2>1, <2>3, <2>4, <2>5, <2>7
<1>5. SumOver(f, D) \in Nat
  <2>1. IsFiniteSet(D) /\ \A i \in D : f[i] \in Nat
    BY <1>1, <1>2
  <2>. HIDE DEF f, D
  <2>. QED BY <2>1, SumNat
<1>6. Requested(points, withdrawals) = SumOver(f, D)
  BY DEF Requested
<1>. QED BY <1>5, <1>6

\* A pool never pays more than it holds, however the shares are rounded.
LEMMA PaidNat ==
  ASSUME NEW points \in [Holder -> Nat], NEW withdrawals \in Seq(Withdrawal),
         NEW pool \in Nat,
         Requested(points, withdrawals) # 0, TotalPoints(points) # 0
  PROVE  PaidOut(pool, points, withdrawals) \in Nat
         /\ PaidOut(pool, points, withdrawals) <= pool
<1>. DEFINE D == DOMAIN withdrawals
            r == Requested(points, withdrawals)
            p == TotalPoints(points)
            u == MulDiv(pool, r, p)
            burnt == Burnt(points, withdrawals)
            shares == PaidShares(pool, points, withdrawals)
            out == SumOver(shares, D)
            b == SumOver(burnt, D)
<1>1. r \in Nat /\ r > 0 /\ p \in Nat /\ p > 0
  <2>1. r \in Nat /\ p \in Nat
    BY RequestedNat, TotalNat
  <2>. QED BY <2>1
<1>2. u \in Nat /\ p * u <= pool * r
  <2>. HIDE DEF r, p
  <2>. QED BY <1>1, MulDivNat
<1>3. /\ IsFiniteSet(D) /\ \A i \in D : burnt[i] \in Nat
      /\ b \in Nat /\ b <= p
  BY SeqDomain, RemainingNat
<1>4. \A i \in D : shares[i] = MulDiv(u, burnt[i], r)
  BY DEF PaidShares, Burnt
<1>5. out \in Nat /\ r * out <= u * b
  <2>. HIDE DEF D, r, u, burnt, shares
  <2>. QED BY <1>1, <1>2, <1>3, <1>4, SharesNat
<1>. HIDE DEF D, r, u, burnt, shares, b, out, p
<1>6. u * b <= u * p
  BY <1>1, <1>2, <1>3, TimesMonotone
<1>7. r * out <= r * pool
  <2>1. /\ r * out \in Nat /\ u * b \in Nat /\ u * p = p * u /\ p * u \in Nat
        /\ pool * r = r * pool /\ pool * r \in Nat
    BY <1>1, <1>2, <1>3, <1>5
  <2>. QED BY <1>2, <1>5, <1>6, <2>1
<1>8. out <= pool
  BY <1>1, <1>5, <1>7, Quotient
<1>. QED BY <1>5, <1>8 DEF D, out, shares, PaidOut

\* The books after the withdrawals of a batch.
LEMMA WithdrawAs ==
  ASSUME NEW books \in OpenBook(Nat), NEW withdrawals \in Seq(Withdrawal)
  PROVE  LET r == Requested(books.points, withdrawals)
             p == TotalPoints(books.points)
             paid(pool) == PaidOut(pool, books.points, withdrawals)
         IN IF r = 0 \/ p = 0 THEN WithdrawAll(books, withdrawals) = books
            ELSE WithdrawAll(books, withdrawals)
                   = [account |-> books.account + paid(books.liquidity),
                      holding |-> books.holding,
                      liquidity |-> books.liquidity - paid(books.liquidity),
                      points |-> Remaining(books.points, withdrawals)[Len(withdrawals)],
                      counter |-> books.counter - paid(books.counter),
                      receipts |-> books.receipts]
<1>. DEFINE r == Requested(books.points, withdrawals)
            p == TotalPoints(books.points)
            paid(pool) == PaidOut(pool, books.points, withdrawals)
            left == Remaining(books.points, withdrawals)
<1>1. WithdrawAll(books, withdrawals) =
        IF r = 0 \/ p = 0 THEN books
        ELSE [books EXCEPT !.points = left[Len(withdrawals)],
                           !.account = @ + paid(books.liquidity),
                           !.liquidity = @ - paid(books.liquidity),
                           !.counter = @ - paid(books.counter)]
  BY DEF WithdrawAll, Requested, PaidOut, PaidShares, BurntAt
<1>. HIDE DEF r, p, paid, left
<1>2. CASE r = 0 \/ p = 0
  BY <1>1, <1>2 DEF r, p
<1>3. CASE ~ (r = 0 \/ p = 0)
  <2>1. WithdrawAll(books, withdrawals) =
          [account |-> books.account + paid(books.liquidity),
           holding |-> books.holding,
           liquidity |-> books.liquidity - paid(books.liquidity),
           points |-> left[Len(withdrawals)],
           counter |-> books.counter - paid(books.counter),
           receipts |-> books.receipts]
    BY <1>1, <1>3 DEF OpenBook
  <2>. QED BY <1>3, <2>1 DEF r, p, paid, left
<1>. QED BY <1>2, <1>3

\* Withdrawals move tokens from the liquidity pool to accounts and nothing else.
LEMMA WithdrawKeeps ==
  ASSUME NEW books \in OpenBook(Nat), NEW withdrawals \in Seq(Withdrawal)
  PROVE  /\ WithdrawAll(books, withdrawals) \in OpenBook(Nat)
         /\ Wealth(WithdrawAll(books, withdrawals)) = Wealth(books)
         /\ WithdrawAll(books, withdrawals).holding = books.holding
         /\ WithdrawAll(books, withdrawals).receipts = books.receipts
<1>. DEFINE r == Requested(books.points, withdrawals)
            p == TotalPoints(books.points)
            out == PaidOut(books.liquidity, books.points, withdrawals)
            away == PaidOut(books.counter, books.points, withdrawals)
            b == WithdrawAll(books, withdrawals)
            points == Remaining(books.points, withdrawals)[Len(withdrawals)]
<1>1. books.account \in Nat /\ books.holding \in Int /\ books.liquidity \in Nat
      /\ books.counter \in Nat /\ books.points \in [Holder -> Nat] /\ books.receipts \in Seq(Nat)
  BY DEF OpenBook
<1>2. CASE r = 0 \/ p = 0
  <2>1. b = books
    BY <1>2, WithdrawAs
  <2>. QED BY <2>1
<1>3. CASE ~ (r = 0 \/ p = 0)
  <2>1. b = [account |-> books.account + out, holding |-> books.holding,
             liquidity |-> books.liquidity - out, points |-> points,
             counter |-> books.counter - away, receipts |-> books.receipts]
    BY <1>3, WithdrawAs
  <2>2. out \in Nat /\ out <= books.liquidity /\ away \in Nat /\ away <= books.counter
    BY <1>1, <1>3, PaidNat
  <2>3. points \in [Holder -> Nat]
    BY <1>1, RemainingNat
  <2>. HIDE DEF b, out, away, points
  <2>4. books.account + out \in Nat /\ books.liquidity - out \in Nat /\ books.counter - away \in Nat
    BY <1>1, <2>2
  <2>5. b \in OpenBook(Nat) /\ b.holding = books.holding /\ b.receipts = books.receipts
        /\ b.account = books.account + out /\ b.liquidity = books.liquidity - out
    BY <1>1, <2>1, <2>3, <2>4 DEF OpenBook
  <2>6. Wealth(b) = Wealth(books)
    BY <1>1, <2>2, <2>5 DEF Wealth
  <2>. QED BY <2>5, <2>6 DEF b
<1>. QED BY <1>2, <1>3

\* An order never gets more than the pool holds.
LEMMA AmountOutNat ==
  ASSUME NEW x \in Nat, NEW y \in Nat, NEW dx \in Nat, x > 0
  PROVE  AmountOut(x, y, dx) \in Nat /\ AmountOut(x, y, dx) <= y
<1>. DEFINE p == dx * 990
            q == x * 1000 + dx * 990
<1>1. p \in Nat /\ q \in Nat /\ q > 0 /\ p <= q
  OBVIOUS
<1>. HIDE DEF p, q
<1>2. MulDiv(y, p, q) \in Nat /\ MulDiv(y, p, q) <= y
  BY <1>1, MulDivPart
<1>3. y * p = p * y
  BY <1>1
<1>4. AmountOut(x, y, dx) = (p * y) \div q
  BY DEF AmountOut, p, q
<1>. QED BY <1>2, <1>3, <1>4 DEF MulDiv

ExecBody(books, orders, ordering, m, g) ==
  [n \in 0 .. m |->
     IF n = 0 THEN [books EXCEPT !.receipts = [i \in DOMAIN orders |-> 0]]
     ELSE ExecuteOrder(g[n - 1], ordering[n], orders[ordering[n]])]

\* The books after each order are well defined.
LEMMA ExecExists ==
  ASSUME NEW books, NEW orders, NEW ordering, NEW m \in Nat
  PROVE  \E g : g = ExecBody(books, orders, ordering, m, g)
<1>. DEFINE F(k, g) == ExecBody(books, orders, ordering, k, g)
            start == [books EXCEPT !.receipts = [i \in DOMAIN orders |-> 0]]
            Then(b, n) == ExecuteOrder(b, ordering[n], orders[ordering[n]])
            bad == {k \in Nat : ~ (\E g : g = F(k, g))}
<1>0. ASSUME NEW k, NEW g
      PROVE  F(k, g) = [n \in 0 .. k |-> IF n = 0 THEN start ELSE Then(g[n - 1], n)]
  BY DEF ExecBody
<1>. HIDE DEF F, start, Then
<1>1. SUFFICES ASSUME bad # {} PROVE FALSE
  BY DEF F
<1>2. PICK k \in bad : \A j \in bad : k <= j
  <2>1. bad \subseteq Nat
    OBVIOUS
  <2>. QED BY <1>1, <2>1, LeastNat
<1>3. k \in Nat /\ ~ (\E g : g = F(k, g))
  BY <1>2
<1>4. CASE k = 0
  <2>. DEFINE g == [n \in 0 .. 0 |-> start]
  <2>1. g = F(0, g)
    BY <1>0
  <2>. QED BY <1>3, <1>4, <2>1
<1>5. CASE k > 0
  <2>1. k - 1 \in Nat /\ k - 1 \notin bad
    BY <1>2, <1>3, <1>5
  <2>2. PICK h : h = F(k - 1, h)
    BY <2>1
  <2>. DEFINE g == [n \in 0 .. k |-> IF n = k THEN Then(h[k - 1], k) ELSE h[n]]
  <2>3. \A n \in 0 .. k - 1 :
          /\ g[n] = h[n]
          /\ h[n] = IF n = 0 THEN start ELSE Then(h[n - 1], n)
    BY <1>0, <1>3, <2>1, <2>2
  <2>4. ASSUME NEW n \in 0 .. k
        PROVE  g[n] = IF n = 0 THEN start ELSE Then(g[n - 1], n)
    <3>1. CASE n = k
      <4>1. g[k] = Then(h[k - 1], k) /\ g[k - 1] = h[k - 1]
        BY <1>3, <1>5, <2>3
      <4>. QED BY <1>5, <3>1, <4>1
    <3>2. CASE n # k
      <4>1. n \in 0 .. k - 1 /\ (n # 0 => n - 1 \in 0 .. k - 1)
        BY <1>3, <3>2
      <4>2. g[n] = h[n] /\ (n # 0 => g[n - 1] = h[n - 1])
        BY <2>3, <4>1
      <4>. HIDE DEF g
      <4>. QED BY <2>3, <4>1, <4>2
    <3>. QED BY <3>1, <3>2
  <2>5. g = F(k, g)
    <3>1. g = [n \in 0 .. k |-> g[n]]
      OBVIOUS
    <3>. HIDE DEF g
    <3>2. [n \in 0 .. k |-> g[n]] = F(k, g)
      BY <1>0, <2>4
    <3>. QED BY <3>1, <3>2
  <2>. QED BY <1>3, <2>5
<1>. QED BY <1>3, <1>4, <1>5

\* The books e after some orders of a batch were taken, beginning with these books.
ExecutedBook(books, orders, taken, e) ==
  LET paid == PaidOrders(orders, e.receipts) IN
  /\ e \in OpenBook(Nat) /\ e.counter > 0
  /\ e.holding = books.holding /\ e.points = books.points /\ Wealth(e) = Wealth(books)
  /\ e.receipts \in [DOMAIN orders -> Nat]
  /\ paid \subseteq taken
  /\ e.counter = books.counter + SumOver(Sales(orders), paid)
  /\ e.liquidity = books.liquidity - SumOver(e.receipts, paid)

\* One more order keeps the account of what the orders before it did.
LEMMA ExecuteOne ==
  ASSUME NEW books \in OpenBook(Nat), NEW orders \in Seq(Order), NEW taken, NEW e,
         ExecutedBook(books, orders, taken, e), NEW i \in DOMAIN orders, i \notin taken
  PROVE  ExecutedBook(books, orders, taken \cup {i}, ExecuteOrder(e, i, orders[i]))
<1>. DEFINE order == orders[i]
            sale == orders[i].sale
            out == AmountOut(e.counter, e.liquidity, orders[i].sale)
            f == ExecuteOrder(e, i, orders[i])
            paid == PaidOrders(orders, e.receipts)
            D == DOMAIN orders
<1>1. /\ e \in OpenBook(Nat) /\ e.counter > 0
      /\ e.holding = books.holding /\ e.points = books.points /\ Wealth(e) = Wealth(books)
      /\ e.receipts \in [D -> Nat] /\ paid \subseteq taken
      /\ e.counter = books.counter + SumOver(Sales(orders), paid)
      /\ e.liquidity = books.liquidity - SumOver(e.receipts, paid)
  BY DEF ExecutedBook
<1>2. /\ e.account \in Nat /\ e.holding \in Int /\ e.liquidity \in Nat /\ e.counter \in Nat
      /\ e.points \in [Holder -> Nat]
  BY <1>1 DEF OpenBook
<1>3. /\ D = 1 .. Len(orders) /\ IsFiniteSet(D)
      /\ sale \in Nat /\ Sales(orders)[i] = sale /\ \A j \in D : Sales(orders)[j] \in Nat
  BY SeqDomain, SalesNat
<1>4. out \in Nat /\ out <= e.liquidity
  <2>. HIDE DEF sale
  <2>1. AmountOut(e.counter, e.liquidity, sale) \in Nat
        /\ AmountOut(e.counter, e.liquidity, sale) <= e.liquidity
    BY <1>1, <1>2, <1>3, AmountOutNat
  <2>. QED BY <2>1 DEF sale
<1>5. f = IF out < order.min \/ out = 0 THEN e
          ELSE [e EXCEPT !.counter = @ + sale, !.liquidity = @ - out,
                         !.account = @ + out, !.receipts[i] = out]
  BY DEF ExecuteOrder
<1>. HIDE DEF out, sale, order, f
<1>6. CASE out < order.min \/ out = 0
  <2>1. f = e
    BY <1>5, <1>6
  <2>2. paid \subseteq taken \cup {i}
    BY <1>1
  <2>. QED BY <1>1, <2>1, <2>2 DEF ExecutedBook, f
<1>7. CASE ~ (out < order.min \/ out = 0)
  <2>. DEFINE r == [e.receipts EXCEPT ![i] = out]
              now == PaidOrders(orders, r)
  <2>1. f = [account |-> e.account + out, holding |-> e.holding,
             liquidity |-> e.liquidity - out, points |-> e.points,
             counter |-> e.counter + sale, receipts |-> r]
    BY <1>1, <1>5, <1>7 DEF OpenBook
  <2>2. r \in [D -> Nat] /\ r[i] = out /\ \A j \in D \ {i} : r[j] = e.receipts[j]
    BY <1>1, <1>4
  <2>3. i \notin paid /\ now = paid \cup {i} /\ paid \subseteq D
    <3>1. paid = {j \in D : e.receipts[j] # 0} /\ now = {j \in D : r[j] # 0}
      BY DEF PaidOrders
    <3>2. i \notin paid
      BY <1>1
    <3>. HIDE DEF r, now, paid
    <3>. QED BY <1>7, <2>2, <3>1, <3>2
  <2>. HIDE DEF r, now, paid
  <2>4. IsFiniteSet(paid)
    BY <1>3, <2>3, FS_Subset
  <2>5. /\ SumOver(Sales(orders), now) = sale + SumOver(Sales(orders), paid)
        /\ SumOver(Sales(orders), paid) \in Nat
    <3>1. \A j \in paid \cup {i} : Sales(orders)[j] \in Int
      BY <1>3, <2>3
    <3>2. \A j \in paid : Sales(orders)[j] \in Nat
      BY <1>3, <2>3
    <3>. QED BY <1>3, <2>3, <2>4, <3>1, <3>2, SumAdd, SumNat
  <2>6. SumOver(r, now) = out + SumOver(e.receipts, paid) /\ SumOver(e.receipts, paid) \in Nat
    <3>1. \A j \in paid : e.receipts[j] \in Nat /\ e.receipts[j] \in Int /\ r[j] = e.receipts[j]
      BY <1>1, <2>2, <2>3
    <3>2. SumOver(r, paid) = SumOver(e.receipts, paid)
      BY <2>4, <3>1, SumSame
    <3>3. \A j \in paid \cup {i} : r[j] \in Int
      BY <2>2, <2>3
    <3>4. SumOver(r, paid \cup {i}) = r[i] + SumOver(r, paid)
      BY <2>3, <2>4, <3>3, SumAdd
    <3>5. SumOver(e.receipts, paid) \in Nat
      BY <2>4, <3>1, SumNat
    <3>. QED BY <2>2, <2>3, <3>2, <3>4, <3>5
  <2>7. /\ e.account + out \in Nat /\ e.liquidity - out \in Nat /\ e.counter + sale \in Nat
        /\ e.counter + sale > 0
    <3>1. e.counter > 0 /\ sale \in Nat
      BY <1>1, <1>3
    <3>. QED BY <1>2, <1>4, <3>1
  <2>8. r \in Seq(Nat)
    <3>1. Len(orders) \in Nat
      OBVIOUS
    <3>. QED BY <1>3, <2>2, <3>1
  <2>9. /\ f \in OpenBook(Nat) /\ f.counter = e.counter + sale /\ f.liquidity = e.liquidity - out
        /\ f.account = e.account + out /\ f.holding = e.holding /\ f.points = e.points
        /\ f.receipts = r
    BY <1>2, <2>1, <2>7, <2>8 DEF OpenBook
  <2>10. Wealth(f) = Wealth(e)
    BY <1>2, <1>4, <2>9 DEF Wealth
  <2>11. books.counter \in Nat /\ books.liquidity \in Nat
    BY DEF OpenBook
  <2>12. /\ f.counter = books.counter + SumOver(Sales(orders), now)
         /\ f.liquidity = books.liquidity - SumOver(r, now)
    <3>1. e.counter = books.counter + SumOver(Sales(orders), paid)
          /\ e.liquidity = books.liquidity - SumOver(e.receipts, paid)
      BY <1>1
    <3>2. sale \in Nat /\ out \in Nat
      BY <1>3, <1>4
    <3>3. f.counter = books.counter + SumOver(Sales(orders), now)
      BY <2>5, <2>9, <2>11, <3>1, <3>2
    <3>4. f.liquidity = books.liquidity - SumOver(r, now)
      BY <2>6, <2>9, <2>11, <3>1, <3>2
    <3>. QED BY <3>3, <3>4
  <2>13. now \subseteq taken \cup {i}
    BY <1>1, <2>3 DEF paid
  <2>14. PaidOrders(orders, f.receipts) = now
    BY <2>9 DEF now
  <2>. HIDE DEF D
  <2>. QED BY <1>1, <2>2, <2>7, <2>9, <2>10, <2>12, <2>13, <2>14 DEF ExecutedBook, f, D
<1>. QED BY <1>6, <1>7

\* So do all orders of a batch, in whatever order they are taken.
LEMMA ExecuteKeeps ==
  ASSUME NEW books \in OpenBook(Nat), books.counter > 0, NEW orders \in Seq(Order),
         NEW ordering \in Bijection(DOMAIN orders, DOMAIN orders)
  PROVE  ExecutedBook(books, orders, DOMAIN orders, ExecuteOrders(books, orders, ordering))
<1>. DEFINE m == Len(orders)
            D == DOMAIN orders
            start == [books EXCEPT !.receipts = [i \in D |-> 0]]
            g == CHOOSE h : h = ExecBody(books, orders, ordering, m, h)
            taken(n) == {ordering[k] : k \in 1 .. n}
            G == {n \in 0 .. m : ExecutedBook(books, orders, taken(n), g[n])}
<1>1. D = 1 .. m /\ m \in Nat /\ IsFiniteSet(D)
  BY SeqDomain
<1>2. g = ExecBody(books, orders, ordering, m, g)
  <2>1. \E h : h = ExecBody(books, orders, ordering, m, h)
    BY <1>1, ExecExists
  <2>. QED BY <2>1
<1>3. ExecuteOrders(books, orders, ordering) = g[m]
  BY DEF ExecuteOrders, ExecBody
<1>4. /\ g[0] = start
      /\ \A n \in 1 .. m : g[n] = ExecuteOrder(g[n - 1], ordering[n], orders[ordering[n]])
  <2>. DEFINE Then(b, n) == ExecuteOrder(b, ordering[n], orders[ordering[n]])
  <2>1. g = [n \in 0 .. m |-> IF n = 0 THEN start ELSE Then(g[n - 1], n)]
    <3>. HIDE DEF g
    <3>. QED BY <1>2 DEF ExecBody
  <2>. HIDE DEF g, Then, start, m, D
  <2>2. g[0] = start /\ \A n \in 1 .. m : g[n] = Then(g[n - 1], n)
    BY <1>1, <2>1
  <2>. QED BY <2>2 DEF Then
<1>5. /\ ordering \in [1 .. m -> 1 .. m]
      /\ \A a, b \in 1 .. m : ordering[a] = ordering[b] => a = b
  <2>1. ordering \in [D -> D] /\ \A a, b \in DOMAIN ordering : ordering[a] = ordering[b] => a = b
    BY DEF Bijection, Injection, IsInjective
  <2>. HIDE DEF D, m
  <2>. QED BY <1>1, <2>1
<1>. HIDE DEF g
<1>6. 0 \in G
  <2>. DEFINE zero == [i \in D |-> 0]
  <2>1. zero \in [D -> Nat] /\ zero \in Seq(Nat)
    BY <1>1
  <2>2. PaidOrders(orders, zero) = {}
    BY DEF PaidOrders
  <2>3. /\ books.account \in Nat /\ books.holding \in Int /\ books.liquidity \in Nat
        /\ books.counter \in Nat /\ books.points \in [Holder -> Nat]
    BY DEF OpenBook
  <2>4. start = [account |-> books.account, holding |-> books.holding,
                 liquidity |-> books.liquidity, points |-> books.points,
                 counter |-> books.counter, receipts |-> zero]
    <3>1. start = [books EXCEPT !.receipts = zero]
      OBVIOUS
    <3>. HIDE DEF start, zero
    <3>. QED BY <3>1 DEF OpenBook
  <2>. HIDE DEF start, zero
  <2>5. /\ start \in OpenBook(Nat) /\ start.account = books.account
        /\ start.holding = books.holding /\ start.liquidity = books.liquidity
        /\ start.points = books.points /\ start.counter = books.counter
        /\ start.receipts = zero
    BY <2>1, <2>3, <2>4 DEF OpenBook
  <2>6. SumOver(Sales(orders), {}) = 0 /\ SumOver(zero, {}) = 0
    BY SumEmpty
  <2>7. Wealth(start) = Wealth(books)
    BY <2>5 DEF Wealth
  <2>8. /\ start.counter = books.counter + SumOver(Sales(orders), {})
        /\ start.liquidity = books.liquidity - SumOver(zero, {})
    BY <2>3, <2>5, <2>6
  <2>9. ExecutedBook(books, orders, taken(0), start)
    BY <2>1, <2>2, <2>5, <2>7, <2>8 DEF ExecutedBook
  <2>. QED BY <1>1, <1>4, <2>9
<1>7. ASSUME NEW n \in 1 .. m, n - 1 \in G PROVE n \in G
  <2>. DEFINE i == ordering[n]
              e == g[n - 1]
  <2>1. i \in D
    BY <1>1, <1>5
  <2>2. i \notin taken(n - 1)
    <3>1. \A k \in 1 .. n - 1 : k \in 1 .. m /\ k # n
      BY <1>1
    <3>. QED BY <1>5, <3>1
  <2>3. ExecutedBook(books, orders, taken(n - 1), e)
    BY <1>7
  <2>4. taken(n) = taken(n - 1) \cup {i}
    <3>1. \A k : k \in 1 .. n <=> k \in 1 .. n - 1 \/ k = n
      BY <1>1
    <3>. QED BY <3>1
  <2>5. ExecutedBook(books, orders, taken(n - 1) \cup {i}, ExecuteOrder(e, i, orders[i]))
    <3>. HIDE DEF i, e, taken
    <3>. QED BY <2>1, <2>2, <2>3, ExecuteOne
  <2>6. g[n] = ExecuteOrder(e, i, orders[i])
    BY <1>4
  <2>7. n \in 0 .. m
    BY <1>1
  <2>. HIDE DEF i, e, taken
  <2>. QED BY <2>4, <2>5, <2>6, <2>7
<1>8. ExecutedBook(books, orders, taken(m), g[m])
  <2>1. \A n \in 0 .. m : n \in G
    <3>. HIDE DEF G
    <3>. QED BY <1>1, <1>6, <1>7, UpTo
  <2>2. m \in 0 .. m
    BY <1>1
  <2>3. m \in G
    BY <2>1, <2>2
  <2>. HIDE DEF taken, m, D
  <2>. QED BY <2>3
<1>9. taken(m) \subseteq D
  BY <1>1, <1>5
<1>10. PaidOrders(orders, g[m].receipts) \subseteq D
  BY DEF PaidOrders
<1>11. PaidOrders(orders, g[m].receipts) \subseteq DOMAIN orders
  BY <1>10
<1>. HIDE DEF taken, D, m
<1>12. ExecutedBook(books, orders, DOMAIN orders, g[m])
  BY <1>8, <1>11 DEF ExecutedBook
<1>. QED BY <1>3, <1>12

\* The points given to nobody are numbers.
LEMMA EndowedNat ==
  ASSUME NEW points \in [Holder -> Nat], NEW x \in Nat, NEW y \in Nat, x > 0, y > 0
  PROVE  Endowed(points, x, y) \in [Holder -> Nat]
<1>1. SqrtProduct(x, y) \in Nat
  BY SqrtProductNat
<1>2. DeadAddress \in Holder
  BY DEF Holder
<1>. QED BY <1>1, <1>2 DEF Endowed

Minted(points, amount, x, y) ==
  MulDiv(TotalPoints(Endowed(points, x, y)),
         SqrtProduct(x + amount, y) - SqrtProduct(x, y), SqrtProduct(x, y))
ShareOf(deposits, minted) ==
  [i \in DOMAIN deposits |-> MulDiv(minted, deposits[i].amount, Put(deposits))]
DepositsOf(deposits, p) == {i \in DOMAIN deposits : deposits[i].who = p}

\* The points that deposits mint are a number.
LEMMA MintedNat ==
  ASSUME NEW points \in [Holder -> Nat], NEW amount \in Nat,
         NEW x \in Nat, NEW y \in Nat, x > 0, y > 0
  PROVE  Minted(points, amount, x, y) \in Nat
<1>. DEFINE t == TotalPoints(Endowed(points, x, y))
            k == SqrtProduct(x, y)
            n == SqrtProduct(x + amount, y)
<1>1. t \in Nat
  BY EndowedNat, TotalNat
<1>2. k \in Nat /\ k > 0 /\ n \in Nat /\ k <= n
  BY SqrtProductNat
<1>. HIDE DEF t, k, n
<1>3. n - k \in Nat
  BY <1>2
<1>4. MulDiv(t, n - k, k) \in Nat
  BY <1>1, <1>2, <1>3, MulDivNat
<1>. QED BY <1>4 DEF Minted, t, k, n

\* The points that a deposit gives out are not more than were minted.
LEMMA ShareNat ==
  ASSUME NEW deposits \in Seq(Deposit), Put(deposits) # 0, NEW minted \in Nat
  PROVE  /\ \A i \in DOMAIN deposits : ShareOf(deposits, minted)[i] \in Nat
         /\ SumOver(ShareOf(deposits, minted), DOMAIN deposits) \in Nat
         /\ SumOver(ShareOf(deposits, minted), DOMAIN deposits) <= minted
<1>. DEFINE D == DOMAIN deposits
            amount == Put(deposits)
            given == ShareOf(deposits, minted)
            f == Amounts(deposits)
<1>1. IsFiniteSet(D) /\ \A i \in D : f[i] \in Nat
  BY SeqDomain, PutNat
<1>2. amount \in Nat /\ amount > 0 /\ amount = SumOver(f, D)
  <2>1. amount \in Nat /\ amount = SumOver(f, D)
    BY PutNat
  <2>. QED BY <2>1
<1>3. \A i \in D : given[i] = MulDiv(minted, f[i], amount)
  BY DEF ShareOf, Amounts
<1>. HIDE DEF D, amount, given, f
<1>4. /\ \A i \in D : given[i] \in Nat
      /\ SumOver(given, D) \in Nat /\ amount * SumOver(given, D) <= minted * amount
  BY <1>1, <1>2, <1>3, SharesNat
<1>5. amount * SumOver(given, D) <= amount * minted
  BY <1>2, <1>4
<1>6. SumOver(given, D) <= minted
  BY <1>2, <1>4, <1>5, Quotient
<1>. QED BY <1>4, <1>6 DEF D, given

\* The points after the deposits of a batch are numbers.
LEMMA PointsAfterNat ==
  ASSUME NEW points \in [Holder -> Nat], NEW deposits \in Seq(Deposit), Put(deposits) # 0,
         NEW x \in Nat, NEW y \in Nat, x > 0, y > 0
  PROVE  PointsAfter(points, deposits, x, y) \in [Holder -> Nat]
<1>. DEFINE D == DOMAIN deposits
            minted == Minted(points, Put(deposits), x, y)
            given == ShareOf(deposits, minted)
            endowed == Endowed(points, x, y)
            shared == [p \in DOMAIN points |-> endowed[p] + SumOver(given, DepositsOf(deposits, p))]
<1>1. minted \in Nat
  BY PutNat, MintedNat
<1>2. /\ \A i \in D : given[i] \in Nat
      /\ SumOver(given, D) \in Nat /\ SumOver(given, D) <= minted
  <2>. HIDE DEF minted
  <2>. QED BY <1>1, ShareNat
<1>3. PointsAfter(points, deposits, x, y)
        = [shared EXCEPT ![DeadAddress] = @ + minted - SumOver(given, D)]
  BY DEF PointsAfter, Minted, ShareOf, DepositsOf
<1>4. endowed \in [Holder -> Nat] /\ DeadAddress \in Holder
  BY EndowedNat DEF Holder
<1>. HIDE DEF D, minted, given, endowed
<1>5. ASSUME NEW p \in Holder PROVE SumOver(given, DepositsOf(deposits, p)) \in Nat
  <2>1. DepositsOf(deposits, p) \subseteq D /\ IsFiniteSet(D)
    BY SeqDomain DEF DepositsOf, D
  <2>2. IsFiniteSet(DepositsOf(deposits, p))
    BY <2>1, FS_Subset
  <2>. QED BY <1>2, <2>1, <2>2, SumNat
<1>6. shared \in [Holder -> Nat]
  <2>1. DOMAIN points = Holder
    OBVIOUS
  <2>2. \A p \in Holder : endowed[p] + SumOver(given, DepositsOf(deposits, p)) \in Nat
    BY <1>4, <1>5
  <2>. QED BY <2>1, <2>2
<1>. HIDE DEF shared
<1>7. shared[DeadAddress] + minted - SumOver(given, D) \in Nat
  <2>1. shared[DeadAddress] \in Nat
    BY <1>4, <1>6
  <2>. QED BY <1>1, <1>2, <2>1
<1>. QED BY <1>3, <1>6, <1>7

PoolOf(books, local) == IF local THEN books.liquidity ELSE books.counter

\* The books after the deposits of a batch.
LEMMA DepositAs ==
  ASSUME NEW books \in OpenBook(Nat), NEW deposits, NEW local \in BOOLEAN
  PROVE  LET amount == Put(deposits)
             x == PoolOf(books, local)
             y == PoolOf(books, ~local)
         IN /\ amount = 0 \/ x = 0 \/ y = 0 => DepositAll(books, deposits, local) = books
            /\ ~ (amount = 0 \/ x = 0 \/ y = 0) =>
                 DepositAll(books, deposits, local)
                   = [account |-> books.account,
                      holding |-> IF local THEN books.holding - amount ELSE books.holding,
                      liquidity |-> IF local THEN books.liquidity + amount ELSE books.liquidity,
                      points |-> PointsAfter(books.points, deposits, x, y),
                      counter |-> IF local THEN books.counter ELSE books.counter + amount,
                      receipts |-> books.receipts]
<1>. DEFINE amount == Put(deposits)
            x == PoolOf(books, local)
            y == PoolOf(books, ~local)
            minted == PointsAfter(books.points, deposits, x, y)
<1>1. DepositAll(books, deposits, local) =
        IF amount = 0 \/ x = 0 \/ y = 0 THEN books
        ELSE IF local
        THEN [books EXCEPT !.points = minted, !.liquidity = @ + amount, !.holding = @ - amount]
        ELSE [books EXCEPT !.points = minted, !.counter = @ + amount]
  <2>1. CASE local
    BY <2>1 DEF DepositAll, PoolOf
  <2>2. CASE ~local
    BY <2>2 DEF DepositAll, PoolOf
  <2>. QED BY <2>1, <2>2
<1>. HIDE DEF amount, x, y, minted
<1>2. CASE amount = 0 \/ x = 0 \/ y = 0
  BY <1>1, <1>2 DEF amount, x, y
<1>3. CASE ~ (amount = 0 \/ x = 0 \/ y = 0)
  <2>1. DepositAll(books, deposits, local)
          = [account |-> books.account,
             holding |-> IF local THEN books.holding - amount ELSE books.holding,
             liquidity |-> IF local THEN books.liquidity + amount ELSE books.liquidity,
             points |-> minted,
             counter |-> IF local THEN books.counter ELSE books.counter + amount,
             receipts |-> books.receipts]
    BY <1>1, <1>3 DEF OpenBook
  <2>. QED BY <1>3, <2>1 DEF amount, x, y, minted
<1>. QED BY <1>2, <1>3

\* Deposits move tokens from the holding pool of their own chain only.
LEMMA DepositKeeps ==
  ASSUME NEW books \in OpenBook(Nat), NEW deposits \in Seq(Deposit), NEW local \in BOOLEAN
  PROVE  LET b == DepositAll(books, deposits, local) IN
         /\ b \in OpenBook(Nat)
         /\ Wealth(b) = Wealth(books)
         /\ b.receipts = books.receipts
         /\ ~local => b.holding = books.holding /\ b.liquidity = books.liquidity
         /\ local /\ b.counter > 0 /\ b.liquidity > 0 => b.holding = books.holding - Put(deposits)
<1>. DEFINE amount == Put(deposits)
            x == PoolOf(books, local)
            y == PoolOf(books, ~local)
            minted == PointsAfter(books.points, deposits, x, y)
            b == DepositAll(books, deposits, local)
<1>1. /\ books.account \in Nat /\ books.holding \in Int /\ books.liquidity \in Nat
      /\ books.counter \in Nat /\ books.points \in [Holder -> Nat] /\ books.receipts \in Seq(Nat)
  BY DEF OpenBook
<1>2. x \in Nat /\ y \in Nat
  BY <1>1 DEF PoolOf
<1>3. amount \in Nat
  BY PutNat
<1>4. CASE amount = 0 \/ x = 0 \/ y = 0
  <2>1. b = books
    BY <1>4, DepositAs
  <2>2. ASSUME local, b.counter > 0, b.liquidity > 0 PROVE amount = 0
    BY <1>4, <2>1, <2>2 DEF PoolOf
  <2>3. local /\ b.counter > 0 /\ b.liquidity > 0 => b.holding = books.holding - amount
    BY <1>1, <2>1, <2>2
  <2>. HIDE DEF b
  <2>4. /\ b \in OpenBook(Nat) /\ Wealth(b) = Wealth(books) /\ b.receipts = books.receipts
        /\ b.holding = books.holding /\ b.liquidity = books.liquidity
    BY <2>1
  <2>. QED BY <2>3, <2>4 DEF b
<1>5. CASE ~ (amount = 0 \/ x = 0 \/ y = 0)
  <2>1. b = [account |-> books.account,
             holding |-> IF local THEN books.holding - amount ELSE books.holding,
             liquidity |-> IF local THEN books.liquidity + amount ELSE books.liquidity,
             points |-> minted,
             counter |-> IF local THEN books.counter ELSE books.counter + amount,
             receipts |-> books.receipts]
    BY <1>5, DepositAs
  <2>2. minted \in [Holder -> Nat]
    <3>1. x > 0 /\ y > 0
      BY <1>2, <1>5
    <3>. HIDE DEF x, y
    <3>. QED BY <1>1, <1>2, <1>5, <3>1, PointsAfterNat
  <2>. HIDE DEF b, minted, amount
  <2>3. /\ (IF local THEN books.holding - amount ELSE books.holding) \in Int
        /\ (IF local THEN books.liquidity + amount ELSE books.liquidity) \in Nat
        /\ (IF local THEN books.counter ELSE books.counter + amount) \in Nat
    BY <1>1, <1>3
  <2>4. /\ b \in OpenBook(Nat)
        /\ b.account = books.account /\ b.receipts = books.receipts
        /\ b.holding = IF local THEN books.holding - amount ELSE books.holding
        /\ b.liquidity = IF local THEN books.liquidity + amount ELSE books.liquidity
    BY <1>1, <2>1, <2>2, <2>3 DEF OpenBook
  <2>5. Wealth(b) = Wealth(books)
    BY <1>1, <1>3, <2>4 DEF Wealth
  <2>. QED BY <2>4, <2>5 DEF b, amount
<1>. QED BY <1>4, <1>5

Ops == [orders : Seq(Order), deposits : Seq(Deposit), withdrawals : Seq(Withdrawal)]
Batch ==
  [id : Nat, answers : Nat \cup {NULL}, ops : Ops, receipts : Seq(Nat),
   poolSize : Nat, counterPoolSize : Nat]
Mail == [batch : Batch, points : [Holder -> Nat]]

\* The own batch is settled, then the other one executed.
Traded(books, own, remote) ==
  SettleOrders(Opened(books, remote.poolSize), own.ops.orders, remote.receipts)
Settled(books, own, remote) ==
  DepositAll(WithdrawAll(Traded(books, own, remote), own.ops.withdrawals), own.ops.deposits, TRUE)
Executed(settled, ops, ordering) ==
  DepositAll(WithdrawAll(ExecuteOrders(settled, ops.orders, ordering), ops.withdrawals),
             ops.deposits, FALSE)
Orderings(ops) == Bijection(DOMAIN ops.orders, DOMAIN ops.orders)

\* A handler that finds nothing on either side, and one that finds something.
Quiet(c, remote, books, own) ==
  /\ IsEmpty(remote) /\ IsEmpty(own)
  /\ Rotate(c, remote, books.liquidity, Opened(books, remote.poolSize))
  /\ ledger' = [ledger EXCEPT ![c] = books]
  /\ UNCHANGED payments
Busy(c, remote, books, own, ordering) ==
  LET settled == Settled(books, own, remote)
      done == Executed(settled, remote.ops, ordering)
  IN /\ ~IsEmpty(remote)
     /\ IsEmpty(own) \/ Answers(remote, own)
     /\ Traded(books, own, remote).counter > 0
     /\ settled.counter > 0 /\ settled.liquidity > 0
     /\ ledger' = [ledger EXCEPT ![c] = Closed(done)]
     /\ Rotate(c, remote, settled.liquidity, done)
     /\ payments' = [o \in Order |->
           IF o \in PaidBy(remote.ops, done.receipts) THEN payments[o] + 1
           ELSE payments[o]]

\* A handled batch is one of the two.
LEMMA HandleCases ==
  ASSUME NEW c, NEW remote, NEW books, NEW own, HandleBatch(c, remote, books, own)
  PROVE  \/ Quiet(c, remote, books, own)
         \/ \E ordering \in Orderings(remote.ops) : Busy(c, remote, books, own, ordering)
<1>1. CASE IsEmpty(remote) /\ IsEmpty(own)
  BY <1>1 DEF HandleBatch, Quiet
<1>2. CASE ~ (IsEmpty(remote) /\ IsEmpty(own))
  <2>0. ~IsEmpty(remote) /\ (IsEmpty(own) \/ Answers(remote, own))
    BY <1>2 DEF HandleBatch
  <2>. DEFINE Ends(traded, settled, done) ==
                /\ traded.counter > 0
                /\ settled.counter > 0 /\ settled.liquidity > 0
                /\ ledger' = [ledger EXCEPT ![c] = Closed(done)]
                /\ Rotate(c, remote, settled.liquidity, done)
                /\ payments' = [o \in Order |->
                      IF o \in PaidBy(remote.ops, done.receipts) THEN payments[o] + 1
                      ELSE payments[o]]
  <2>1. PICK ordering \in Orderings(remote.ops) :
          Ends(Traded(books, own, remote), Settled(books, own, remote),
               Executed(Settled(books, own, remote), remote.ops, ordering))
    <3>1. \E traded \in {Traded(books, own, remote)} :
          \E withdrawn \in {WithdrawAll(traded, own.ops.withdrawals)} :
          \E settled \in {DepositAll(withdrawn, own.ops.deposits, TRUE)} :
          \E ordering \in Orderings(remote.ops) :
          \E executed \in {ExecuteOrders(settled, remote.ops.orders, ordering)} :
          \E shared \in {WithdrawAll(executed, remote.ops.withdrawals)} :
          \E done \in {DepositAll(shared, remote.ops.deposits, FALSE)} :
            Ends(traded, settled, done)
      BY <1>2 DEF HandleBatch, Traded, Orderings
    <3>. HIDE DEF Ends
    <3>. QED BY <3>1 DEF Settled, Executed
  <2>2. Busy(c, remote, books, own, ordering)
    BY <2>0, <2>1 DEF Busy
  <2>. QED BY <2>2
<1>. QED BY <1>1, <1>2

\* Opening the books changes none of the amounts.
LEMMA OpenedBook ==
  ASSUME NEW books \in Book, NEW pool \in Nat
  PROVE  /\ Opened(books, pool) \in OpenBook(Nat)
         /\ Wealth(Opened(books, pool)) = Wealth(books)
         /\ Opened(books, pool).holding = books.holding
         /\ Opened(books, pool).points = books.points
         /\ Opened(books, pool).liquidity = books.liquidity
         /\ Opened(books, pool).counter = pool
         /\ Opened(books, pool).receipts = <<>>
<1>1. <<>> \in Seq(Nat)
  OBVIOUS
<1>. QED BY <1>1 DEF Opened, Book, OpenBook, Wealth

\* Nor does closing them.
LEMMA ClosedBook ==
  ASSUME NEW b \in OpenBook(Nat)
  PROVE  /\ Closed(b) \in Book
         /\ Wealth(Closed(b)) = Wealth(b)
         /\ Closed(b).holding = b.holding
         /\ Closed(b).points = b.points
         /\ Closed(b).liquidity = b.liquidity
BY DEF Closed, Book, OpenBook, Wealth

\* What a batch escrows is an amount.
LEMMA EscrowNat ==
  ASSUME NEW ops \in Ops
  PROVE  Escrow(ops) \in Nat /\ Sold(ops.orders) \in Nat /\ Put(ops.deposits) \in Nat
BY SalesNat, PutNat DEF Escrow, Ops

\* An empty batch escrows nothing.
LEMMA EmptyEscrow ==
  /\ NoOps \in Ops /\ Escrow(NoOps) = 0
  /\ \A batch : IsEmpty(batch) => batch.ops.orders = <<>> /\ Escrow(batch.ops) = 0
<1>1. NoOps \in Ops
  BY DEF NoOps, Ops
<1>2. Escrow(NoOps) = 0
  <2>1. DOMAIN <<>> = {}
    OBVIOUS
  <2>2. Sold(<<>>) = 0 /\ Put(<<>>) = 0
    BY <2>1, SumEmpty DEF Sold, Put
  <2>. QED BY <2>2 DEF Escrow, NoOps
<1>. QED BY <1>1, <1>2 DEF IsEmpty, NoOps

\* Settling a batch takes out of the holding pool what its operations had put there.
LEMMA SettledKeeps ==
  ASSUME NEW books \in Book, NEW own \in Batch, NEW remote \in Batch,
         IsEmpty(own) \/ Answers(remote, own),
         Traded(books, own, remote).counter > 0,
         Settled(books, own, remote).counter > 0, Settled(books, own, remote).liquidity > 0
  PROVE  /\ Traded(books, own, remote) \in OpenBook(Nat)
         /\ WithdrawAll(Traded(books, own, remote), own.ops.withdrawals) \in OpenBook(Nat)
         /\ Settled(books, own, remote) \in OpenBook(Nat)
         /\ Wealth(Settled(books, own, remote)) = Wealth(books)
         /\ Settled(books, own, remote).holding = books.holding - Escrow(own.ops)
<1>. DEFINE opened == Opened(books, remote.poolSize)
            traded == Traded(books, own, remote)
            withdrawn == WithdrawAll(traded, own.ops.withdrawals)
            settled == Settled(books, own, remote)
<1>1. /\ own.ops.orders \in Seq(Order) /\ own.ops.deposits \in Seq(Deposit)
      /\ own.ops.withdrawals \in Seq(Withdrawal) /\ own.ops \in Ops
      /\ remote.receipts \in Seq(Nat) /\ remote.poolSize \in Nat
  BY DEF Batch, Ops
<1>2. \A i \in DOMAIN own.ops.orders : remote.receipts[i] \in Nat
  <2>1. CASE own.ops.orders = <<>>
    BY <2>1
  <2>2. CASE Len(remote.receipts) = Len(own.ops.orders)
    BY <1>1, <2>2, SeqDomain
  <2>. QED BY <2>1, <2>2, EmptyEscrow DEF Answers
<1>3. opened \in OpenBook(Nat) /\ Wealth(opened) = Wealth(books) /\ opened.holding = books.holding
  BY <1>1, OpenedBook
<1>4. /\ traded \in OpenBook(Int) /\ Wealth(traded) = Wealth(books)
      /\ traded.holding = books.holding - Sold(own.ops.orders)
  <2>. HIDE DEF opened
  <2>. QED BY <1>1, <1>2, <1>3, SettleKeeps DEF Traded, opened
<1>. HIDE DEF traded
<1>5. traded \in OpenBook(Nat)
  <2>1. traded.counter > 0
    BY DEF traded
  <2>2. traded.counter \in Int
    BY <1>4 DEF OpenBook
  <2>3. traded.counter \in Nat
    BY <2>1, <2>2
  <2>. QED BY <1>4, <2>3 DEF OpenBook
<1>6. /\ withdrawn \in OpenBook(Nat) /\ Wealth(withdrawn) = Wealth(books)
      /\ withdrawn.holding = books.holding - Sold(own.ops.orders)
  BY <1>1, <1>4, <1>5, WithdrawKeeps
<1>7. settled = DepositAll(withdrawn, own.ops.deposits, TRUE)
  BY DEF Settled, traded
<1>. HIDE DEF withdrawn, settled
<1>8. /\ settled \in OpenBook(Nat) /\ Wealth(settled) = Wealth(books)
      /\ settled.holding = withdrawn.holding - Put(own.ops.deposits)
  <2>1. settled.counter > 0 /\ settled.liquidity > 0
    BY DEF settled
  <2>. QED BY <1>1, <1>6, <1>7, <2>1, DepositKeeps
<1>9. settled.holding = books.holding - Escrow(own.ops)
  <2>1. books.holding \in Int
    BY DEF Book
  <2>. QED BY <1>1, <1>6, <1>8, <2>1, EscrowNat DEF Escrow
<1>. QED BY <1>5, <1>6, <1>8, <1>9 DEF traded, settled, withdrawn

\* Executing the batch of the other chain moves only what the own pools hold.
LEMMA ExecutedKeeps ==
  ASSUME NEW settled \in OpenBook(Nat), settled.counter > 0, NEW ops \in Ops,
         NEW ordering \in Orderings(ops)
  PROVE  /\ ExecutedBook(settled, ops.orders, DOMAIN ops.orders,
                         ExecuteOrders(settled, ops.orders, ordering))
         /\ WithdrawAll(ExecuteOrders(settled, ops.orders, ordering), ops.withdrawals)
              \in OpenBook(Nat)
         /\ Executed(settled, ops, ordering) \in OpenBook(Nat)
         /\ Wealth(Executed(settled, ops, ordering)) = Wealth(settled)
         /\ Executed(settled, ops, ordering).holding = settled.holding
         /\ Executed(settled, ops, ordering).receipts
              = ExecuteOrders(settled, ops.orders, ordering).receipts
<1>. DEFINE executed == ExecuteOrders(settled, ops.orders, ordering)
            shared == WithdrawAll(executed, ops.withdrawals)
            done == Executed(settled, ops, ordering)
<1>1. /\ ops.orders \in Seq(Order) /\ ops.deposits \in Seq(Deposit)
      /\ ops.withdrawals \in Seq(Withdrawal)
      /\ ordering \in Bijection(DOMAIN ops.orders, DOMAIN ops.orders)
  BY DEF Ops, Orderings
<1>2. ExecutedBook(settled, ops.orders, DOMAIN ops.orders, executed)
  BY <1>1, ExecuteKeeps
<1>. HIDE DEF executed
<1>3. executed \in OpenBook(Nat) /\ Wealth(executed) = Wealth(settled)
      /\ executed.holding = settled.holding
  BY <1>2 DEF ExecutedBook
<1>4. /\ shared \in OpenBook(Nat) /\ Wealth(shared) = Wealth(settled)
      /\ shared.holding = settled.holding /\ shared.receipts = executed.receipts
  BY <1>1, <1>3, WithdrawKeeps
<1>5. done = DepositAll(shared, ops.deposits, FALSE)
  BY DEF Executed, executed
<1>. HIDE DEF shared, done
<1>6. /\ done \in OpenBook(Nat) /\ Wealth(done) = Wealth(settled)
      /\ done.holding = settled.holding /\ done.receipts = executed.receipts
  BY <1>1, <1>4, <1>5, DepositKeeps
<1>. QED BY <1>2, <1>4, <1>6 DEF executed, shared, done

-----------------------------------------------------------------------------
(***************************************************************************)
(* Lists of operations, and the first invariant: types, and every token    *)
(* accounted for.                                                          *)
(***************************************************************************)
\* The numbers h are f and then g.
Chained(h, f, n, g, m) ==
  /\ \A i \in 1 .. n : f[i] \in Int /\ h[i] = f[i]
  /\ \A j \in 1 .. m : g[j] \in Int /\ h[n + j] = g[j]

\* The sum of numbers that are one list and then another is the sum of both.
LEMMA SumConcat ==
  ASSUME NEW n \in Nat, NEW m \in Nat, NEW f, NEW g, NEW h, Chained(h, f, n, g, m)
  PROVE  SumOver(h, 1 .. n + m) = SumOver(f, 1 .. n) + SumOver(g, 1 .. m)
<1>. USE DEF Chained
<1>. DEFINE G == {k \in 0 .. m : SumOver(h, 1 .. n + k) = SumOver(f, 1 .. n) + SumOver(g, 1 .. k)}
<1>1. SumOver(f, 1 .. n) \in Int
  <2>1. IsFiniteSet(1 .. n)
    BY FS_Interval
  <2>. QED BY <2>1, SumInt
<1>2. 0 \in G
  <2>1. IsFiniteSet(1 .. n)
    BY FS_Interval
  <2>2. SumOver(h, 1 .. n) = SumOver(f, 1 .. n)
    BY <2>1, SumSame
  <2>3. 1 .. 0 = {} /\ SumOver(g, {}) = 0 /\ n + 0 = n
    BY SumEmpty
  <2>4. SumOver(h, 1 .. n + 0) = SumOver(f, 1 .. n) + SumOver(g, 1 .. 0)
    BY <1>1, <2>2, <2>3
  <2>. QED BY <2>4
<1>3. ASSUME NEW k \in 1 .. m, k - 1 \in G PROVE k \in G
  <2>1. SumOver(h, 1 .. n + (k - 1)) = SumOver(f, 1 .. n) + SumOver(g, 1 .. k - 1)
    BY <1>3
  <2>2. \A i \in 1 .. n + k : h[i] \in Int
    <3>1. ASSUME NEW i \in 1 .. n + k, ~ (i \in 1 .. n) PROVE h[i] \in Int
      <4>1. i - n \in 1 .. m /\ n + (i - n) = i
        BY <3>1
      <4>. QED BY <4>1
    <3>. QED BY <3>1
  <2>3. n + k \in Nat /\ n + k > 0 /\ (n + k) - 1 = n + (k - 1) /\ k \in Nat /\ k > 0
    OBVIOUS
  <2>4. /\ SumOver(h, 1 .. (n + k) - 1) \in Int
        /\ SumOver(h, 1 .. n + k) = h[n + k] + SumOver(h, 1 .. (n + k) - 1)
    BY <2>2, <2>3, SumLast
  <2>5. /\ SumOver(g, 1 .. k - 1) \in Int
        /\ SumOver(g, 1 .. k) = g[k] + SumOver(g, 1 .. k - 1)
    <3>1. \A j \in 1 .. k : g[j] \in Int
      OBVIOUS
    <3>. QED BY <2>3, <3>1, SumLast
  <2>6. h[n + k] = g[k] /\ g[k] \in Int
    OBVIOUS
  <2>7. SumOver(h, 1 .. n + k) = SumOver(f, 1 .. n) + SumOver(g, 1 .. k)
    BY <1>1, <2>1, <2>3, <2>4, <2>5, <2>6
  <2>. QED BY <2>7
<1>4. m \in G
  <2>1. \A k \in 0 .. m : k \in G
    <3>. HIDE DEF G
    <3>. QED BY <1>2, <1>3, UpTo
  <2>. QED BY <2>1
<1>. QED BY <1>4

\* The sequence w is a and then b.
Joined(w, a, b) ==
  /\ Len(w) = Len(a) + Len(b)
  /\ \A i \in 1 .. Len(a) : w[i] = a[i]
  /\ \A j \in 1 .. Len(b) : w[Len(a) + j] = b[j]

\* What two lists of orders sell, one after the other.
LEMMA SoldJoined ==
  ASSUME NEW w \in Seq(Order), NEW a \in Seq(Order), NEW b \in Seq(Order), Joined(w, a, b)
  PROVE  Sold(w) = Sold(a) + Sold(b)
<1>. DEFINE n == Len(a)
            m == Len(b)
<1>1. /\ n \in Nat /\ m \in Nat /\ DOMAIN a = 1 .. n /\ DOMAIN b = 1 .. m
      /\ DOMAIN w = 1 .. n + m
  <2>1. n \in Nat /\ m \in Nat /\ DOMAIN a = 1 .. n /\ DOMAIN b = 1 .. m /\ DOMAIN w = 1 .. Len(w)
    BY SeqDomain
  <2>2. Len(w) = n + m
    BY DEF Joined
  <2>. QED BY <2>1, <2>2
<1>2. \A i \in 1 .. n : Sales(a)[i] \in Int /\ Sales(w)[i] = Sales(a)[i]
  <2>. SUFFICES ASSUME NEW i \in 1 .. n PROVE Sales(a)[i] \in Int /\ Sales(w)[i] = Sales(a)[i]
    OBVIOUS
  <2>1. i \in DOMAIN w /\ w[i] = a[i] /\ i \in DOMAIN a
    BY <1>1 DEF Joined
  <2>2. Sales(a)[i] \in Int /\ Sales(a)[i] = a[i].sale /\ Sales(w)[i] = w[i].sale
    BY <2>1, SalesNat
  <2>. QED BY <2>1, <2>2
<1>3. \A j \in 1 .. m : Sales(b)[j] \in Int /\ Sales(w)[n + j] = Sales(b)[j]
  <2>. SUFFICES ASSUME NEW j \in 1 .. m PROVE Sales(b)[j] \in Int /\ Sales(w)[n + j] = Sales(b)[j]
    OBVIOUS
  <2>1. n + j \in DOMAIN w /\ w[n + j] = b[j]
    BY <1>1 DEF Joined
  <2>2. j \in DOMAIN b
    BY <1>1
  <2>3. Sales(b)[j] \in Int /\ Sales(b)[j] = b[j].sale /\ Sales(w)[n + j] = w[n + j].sale
    BY <2>1, <2>2, SalesNat
  <2>. QED BY <2>1, <2>3
<1>4. SumOver(Sales(w), 1 .. n + m) = SumOver(Sales(a), 1 .. n) + SumOver(Sales(b), 1 .. m)
  <2>. DEFINE h == Sales(w)
              f == Sales(a)
              g == Sales(b)
  <2>1. n \in Nat /\ m \in Nat
    BY <1>1
  <2>2. Chained(h, f, n, g, m)
    BY <1>2, <1>3 DEF Chained
  <2>. HIDE DEF n, m, f, g, h
  <2>3. SumOver(h, 1 .. n + m) = SumOver(f, 1 .. n) + SumOver(g, 1 .. m)
    BY <2>1, <2>2, SumConcat
  <2>. QED BY <2>3 DEF f, g, h
<1>. QED BY <1>1, <1>4 DEF Sold

\* What two lists of deposits put in, one after the other.
LEMMA PutJoined ==
  ASSUME NEW w \in Seq(Deposit), NEW a \in Seq(Deposit), NEW b \in Seq(Deposit), Joined(w, a, b)
  PROVE  Put(w) = Put(a) + Put(b)
<1>. DEFINE n == Len(a)
            m == Len(b)
<1>1. /\ n \in Nat /\ m \in Nat /\ DOMAIN a = 1 .. n /\ DOMAIN b = 1 .. m
      /\ DOMAIN w = 1 .. n + m
  <2>1. n \in Nat /\ m \in Nat /\ DOMAIN a = 1 .. n /\ DOMAIN b = 1 .. m /\ DOMAIN w = 1 .. Len(w)
    BY SeqDomain
  <2>2. Len(w) = n + m
    BY DEF Joined
  <2>. QED BY <2>1, <2>2
<1>2. \A i \in 1 .. n : Amounts(a)[i] \in Int /\ Amounts(w)[i] = Amounts(a)[i]
  <2>. SUFFICES ASSUME NEW i \in 1 .. n PROVE Amounts(a)[i] \in Int /\ Amounts(w)[i] = Amounts(a)[i]
    OBVIOUS
  <2>1. i \in DOMAIN w /\ w[i] = a[i] /\ i \in DOMAIN a
    BY <1>1 DEF Joined
  <2>2. Amounts(a)[i] \in Int
    BY <2>1, PutNat
  <2>. QED BY <2>1, <2>2 DEF Amounts
<1>3. \A j \in 1 .. m : Amounts(b)[j] \in Int /\ Amounts(w)[n + j] = Amounts(b)[j]
  <2>. SUFFICES ASSUME NEW j \in 1 .. m
                PROVE  Amounts(b)[j] \in Int /\ Amounts(w)[n + j] = Amounts(b)[j]
    OBVIOUS
  <2>1. n + j \in DOMAIN w /\ w[n + j] = b[j] /\ j \in DOMAIN b
    BY <1>1 DEF Joined
  <2>2. Amounts(b)[j] \in Int
    BY <2>1, PutNat
  <2>3. Amounts(b)[j] = b[j].amount /\ Amounts(w)[n + j] = w[n + j].amount
    BY <2>1 DEF Amounts
  <2>. QED BY <2>1, <2>2, <2>3
<1>4. SumOver(Amounts(w), 1 .. n + m) = SumOver(Amounts(a), 1 .. n) + SumOver(Amounts(b), 1 .. m)
  <2>. DEFINE h == Amounts(w)
              f == Amounts(a)
              g == Amounts(b)
  <2>1. n \in Nat /\ m \in Nat
    BY <1>1
  <2>2. Chained(h, f, n, g, m)
    BY <1>2, <1>3 DEF Chained
  <2>. HIDE DEF n, m, f, g, h
  <2>3. SumOver(h, 1 .. n + m) = SumOver(f, 1 .. n) + SumOver(g, 1 .. m)
    BY <2>1, <2>2, SumConcat
  <2>. QED BY <2>3 DEF f, g, h
<1>. QED BY <1>1, <1>4, PutNat

\* A concatenation is its parts.
LEMMA ConcatJoined ==
  ASSUME NEW S, NEW a \in Seq(S), NEW b \in Seq(S)
  PROVE  a \o b \in Seq(S) /\ Joined(a \o b, a, b)
BY DEF Joined

\* So is a list with one more element.
LEMMA AppendJoined ==
  ASSUME NEW S, NEW a \in Seq(S), NEW x \in S
  PROVE  Append(a, x) \in Seq(S) /\ <<x>> \in Seq(S) /\ Joined(Append(a, x), a, <<x>>)
<1>1. Append(a, x) \in Seq(S) /\ <<x>> \in Seq(S) /\ Len(<<x>>) = 1 /\ Len(a) \in Nat
  OBVIOUS
<1>2. Len(Append(a, x)) = Len(a) + 1 /\ Append(a, x)[Len(a) + 1] = x /\ <<x>>[1] = x
  OBVIOUS
<1>3. \A i \in 1 .. Len(a) : Append(a, x)[i] = a[i]
  OBVIOUS
<1>. QED BY <1>1, <1>2, <1>3 DEF Joined

\* What moves and what is left are what waited.
LEMMA MovedJoined ==
  ASSUME NEW S, NEW ops \in Seq(S), NEW waiting \in Seq(S), NEW max \in Nat
  PROVE  /\ Moved(ops, waiting, max) \in Seq(S)
         /\ Left(ops, waiting, max) \in Seq(S)
         /\ Joined(waiting, Moved(ops, waiting, max), Left(ops, waiting, max))
<1>. DEFINE n == Len(waiting)
            k == Min({n, max - Len(ops)})
            moved == Moved(ops, waiting, max)
            left == Left(ops, waiting, max)
<1>1. n \in Nat /\ max - Len(ops) \in Int
  OBVIOUS
<1>2. k \in Int /\ k <= n
  <2>. DEFINE free == max - Len(ops)
  <2>1. CASE n <= free
    <3>1. n = CHOOSE x \in {n, free} : \A y \in {n, free} : x <= y
      BY <1>1, <2>1
    <3>. QED BY <1>1, <3>1 DEF Min
  <2>2. CASE ~ (n <= free)
    <3>1. free = CHOOSE x \in {n, free} : \A y \in {n, free} : x <= y
      BY <1>1, <2>2
    <3>. QED BY <1>1, <2>2, <3>1 DEF Min
  <2>. QED BY <2>1, <2>2
<1>3. moved = SubSeq(waiting, 1, k) /\ left = SubSeq(waiting, Len(moved) + 1, n)
  BY DEF Moved, Left
<1>. HIDE DEF moved, left, k
<1>4. moved \in Seq(S) /\ Len(moved) <= n /\ \A i \in 1 .. Len(moved) : moved[i] = waiting[i]
  <2>1. CASE k >= 1
    BY <1>2, <1>3, <2>1
  <2>2. CASE k < 1
    <3>1. moved = <<>>
      BY <1>2, <1>3, <2>2
    <3>. QED BY <1>1, <3>1
  <2>. QED BY <1>2, <2>1, <2>2
<1>. DEFINE l == Len(moved)
<1>5. l \in Nat
  BY <1>4
<1>. HIDE DEF l
<1>6. /\ left \in Seq(S) /\ Len(left) = n - l
      /\ \A j \in 1 .. Len(left) : left[j] = waiting[l + j]
  <2>1. left = SubSeq(waiting, l + 1, n) /\ l <= n
    BY <1>3, <1>4 DEF l
  <2>2. CASE l = n
    <3>1. left = <<>>
      BY <1>1, <2>1, <2>2
    <3>. QED BY <1>1, <2>2, <3>1
  <2>3. CASE l < n
    <3>1. l + 1 \in 1 .. n
      BY <1>1, <1>5, <2>3
    <3>2. left \in Seq(S) /\ Len(left) = n - (l + 1) + 1
      BY <1>1, <2>1, <3>1
    <3>3. \A j \in 1 .. Len(left) : left[j] = waiting[(l + 1) + j - 1]
      BY <1>1, <2>1, <3>1
    <3>. QED BY <1>1, <1>5, <3>2, <3>3
  <2>. QED BY <1>1, <1>5, <2>1, <2>2, <2>3
<1>7. Joined(waiting, moved, left)
  BY <1>1, <1>4, <1>5, <1>6 DEF Joined, l
<1>. QED BY <1>4, <1>6, <1>7 DEF moved, left

ExchangeTypes ==
  /\ ledger \in [Chain -> Book]
  /\ next \in [Chain -> Ops]
  /\ locked \in [Chain -> Batch]
  /\ fresh \in [Chain -> BOOLEAN]
  /\ serial \in [Chain -> Nat]
  /\ outbox \in [Chain -> Seq(Mail)]
  /\ fallbacks \in Nat
  /\ outcome \in [Order -> {"open", "kept", "returned"}]
  /\ payments \in [Order -> Nat]

\* The books of c account for its two batches and for all it began with.
Accounted(c, books, waiting, batch) ==
  /\ books.holding = Escrow(waiting) + Escrow(batch)
  /\ Wealth(books) = InitialAccount[c] + InitialLiquidity[c]
AllAccounted == \A c \in Chain : Accounted(c, ledger[c], next[c], locked[c].ops)

\* The end of a block moves operations between two batches, and the escrow with them.
LEMMA IncludedKeeps ==
  ASSUME NEW ops \in Ops, NEW late \in Ops
  PROVE  /\ Included(ops, late) \in Ops /\ LeftOver(ops, late) \in Ops
         /\ Escrow(LeftOver(ops, late)) + Escrow(Included(ops, late)) = Escrow(late) + Escrow(ops)
<1>. DEFINE mo == Moved(ops.orders, late.orders, MaxOrdersPerDexBatch)
            lo == Left(ops.orders, late.orders, MaxOrdersPerDexBatch)
            md == Moved(ops.deposits, late.deposits, MaxDepositsPerDexBatch)
            ld == Left(ops.deposits, late.deposits, MaxDepositsPerDexBatch)
            mw == Moved(ops.withdrawals, late.withdrawals, MaxWithdrawsPerDexBatch)
            lw == Left(ops.withdrawals, late.withdrawals, MaxWithdrawsPerDexBatch)
<1>1. /\ ops.orders \in Seq(Order) /\ late.orders \in Seq(Order)
      /\ ops.deposits \in Seq(Deposit) /\ late.deposits \in Seq(Deposit)
      /\ ops.withdrawals \in Seq(Withdrawal) /\ late.withdrawals \in Seq(Withdrawal)
  BY DEF Ops
<1>2. /\ MaxOrdersPerDexBatch \in Nat /\ MaxDepositsPerDexBatch \in Nat
      /\ MaxWithdrawsPerDexBatch \in Nat
  BY ExchangeAssumption
<1>3. mo \in Seq(Order) /\ lo \in Seq(Order) /\ Joined(late.orders, mo, lo)
  BY <1>1, <1>2, MovedJoined
<1>4. md \in Seq(Deposit) /\ ld \in Seq(Deposit) /\ Joined(late.deposits, md, ld)
  BY <1>1, <1>2, MovedJoined
<1>5. mw \in Seq(Withdrawal) /\ lw \in Seq(Withdrawal)
  BY <1>1, <1>2, MovedJoined
<1>6. /\ Included(ops, late) = [orders |-> ops.orders \o mo, deposits |-> ops.deposits \o md,
                                withdrawals |-> ops.withdrawals \o mw]
      /\ LeftOver(ops, late) = [orders |-> lo, deposits |-> ld, withdrawals |-> lw]
  BY DEF Included, LeftOver
<1>. HIDE DEF mo, lo, md, ld, mw, lw
<1>7. ops.orders \o mo \in Seq(Order) /\ Joined(ops.orders \o mo, ops.orders, mo)
  BY <1>1, <1>3, ConcatJoined
<1>8. ops.deposits \o md \in Seq(Deposit) /\ Joined(ops.deposits \o md, ops.deposits, md)
  BY <1>1, <1>4, ConcatJoined
<1>9. ops.withdrawals \o mw \in Seq(Withdrawal)
  BY <1>1, <1>5, ConcatJoined
<1>10. Included(ops, late) \in Ops /\ LeftOver(ops, late) \in Ops
  BY <1>3, <1>4, <1>5, <1>6, <1>7, <1>8, <1>9 DEF Ops
<1>11. /\ Sold(late.orders) = Sold(mo) + Sold(lo)
       /\ Sold(ops.orders \o mo) = Sold(ops.orders) + Sold(mo)
  BY <1>1, <1>3, <1>7, SoldJoined
<1>12. /\ Put(late.deposits) = Put(md) + Put(ld)
       /\ Put(ops.deposits \o md) = Put(ops.deposits) + Put(md)
  BY <1>1, <1>4, <1>8, PutJoined
<1>13. /\ Sold(mo) \in Nat /\ Sold(lo) \in Nat /\ Put(md) \in Nat /\ Put(ld) \in Nat
       /\ Sold(ops.orders) \in Nat /\ Put(ops.deposits) \in Nat
  BY <1>1, <1>3, <1>4, SalesNat, PutNat
<1>14. /\ Escrow(Included(ops, late)) = Sold(ops.orders \o mo) + Put(ops.deposits \o md)
       /\ Escrow(LeftOver(ops, late)) = Sold(lo) + Put(ld)
       /\ Escrow(late) = Sold(late.orders) + Put(late.deposits)
       /\ Escrow(ops) = Sold(ops.orders) + Put(ops.deposits)
  BY <1>6 DEF Escrow
<1>15. Escrow(LeftOver(ops, late)) + Escrow(Included(ops, late)) = Escrow(late) + Escrow(ops)
  BY <1>11, <1>12, <1>13, <1>14
<1>. QED BY <1>10, <1>15

\* What handling a batch does to the chain that handles it.
Handled(c, books, own) ==
  \E b \in Book, batch \in Batch, id \in Nat :
    /\ ledger' = [ledger EXCEPT ![c] = b]
    /\ Wealth(b) = Wealth(books) /\ b.holding = books.holding - Escrow(own.ops)
    /\ locked' = [locked EXCEPT ![c] = batch] /\ batch.ops = next[c]
    /\ next' = [next EXCEPT ![c] = NoOps]
    /\ fresh' = [fresh EXCEPT ![c] = TRUE]
    /\ serial' = [serial EXCEPT ![c] = id]
    /\ payments' \in [Order -> Nat]

\* A rotation keeps the types.
LEMMA RotateKeeps ==
  ASSUME ExchangeTypes, NEW c \in Chain, NEW remote \in Batch, NEW mid \in Nat,
         NEW done \in OpenBook(Nat), Rotate(c, remote, mid, done)
  PROVE  \E batch \in Batch, id \in Nat :
           /\ locked' = [locked EXCEPT ![c] = batch] /\ batch.ops = next[c]
           /\ next' = [next EXCEPT ![c] = NoOps]
           /\ fresh' = [fresh EXCEPT ![c] = TRUE]
           /\ serial' = [serial EXCEPT ![c] = id]
<1>. DEFINE id == (serial[c] % Serial) + 1
            batch == [id |-> id, answers |-> remote.id, ops |-> next[c],
                      receipts |-> done.receipts, poolSize |-> mid,
                      counterPoolSize |-> done.counter]
<1>1. id \in Nat
  <2>1. serial[c] \in Nat /\ Serial \in Nat /\ Serial > 0
    BY ExchangeAssumption DEF ExchangeTypes
  <2>. QED BY <2>1
<1>2. next[c] \in Ops /\ remote.id \in Nat /\ done.receipts \in Seq(Nat) /\ done.counter \in Nat
  BY DEF ExchangeTypes, Batch, OpenBook
<1>3. /\ locked' = [locked EXCEPT ![c] = batch]
      /\ next' = [next EXCEPT ![c] = NoOps]
      /\ fresh' = [fresh EXCEPT ![c] = TRUE]
      /\ serial' = [serial EXCEPT ![c] = id]
  BY DEF Rotate
<1>. HIDE DEF id
<1>4. batch \in Batch /\ batch.ops = next[c]
  BY <1>1, <1>2 DEF Batch
<1>. HIDE DEF batch
<1>. QED BY <1>1, <1>3, <1>4

\* Handling a batch takes its escrow out of the holding pool and creates nothing.
LEMMA HandleKeeps ==
  ASSUME ExchangeTypes, NEW c \in Chain, NEW remote \in Batch, NEW books \in Book,
         NEW own \in Batch, HandleBatch(c, remote, books, own)
  PROVE  Handled(c, books, own)
<1>0. payments \in [Order -> Nat]
  BY DEF ExchangeTypes
<1>1. CASE Quiet(c, remote, books, own)
  <2>. DEFINE done == Opened(books, remote.poolSize)
  <2>1. remote.poolSize \in Nat /\ books.liquidity \in Nat /\ books.holding \in Int
    BY DEF Batch, Book
  <2>2. done \in OpenBook(Nat)
    BY <2>1, OpenedBook
  <2>3. /\ Rotate(c, remote, books.liquidity, done) /\ ledger' = [ledger EXCEPT ![c] = books]
        /\ payments' = payments /\ IsEmpty(own)
    BY <1>1 DEF Quiet
  <2>. HIDE DEF done
  <2>4. PICK batch \in Batch, id \in Nat :
           /\ locked' = [locked EXCEPT ![c] = batch] /\ batch.ops = next[c]
           /\ next' = [next EXCEPT ![c] = NoOps]
           /\ fresh' = [fresh EXCEPT ![c] = TRUE]
           /\ serial' = [serial EXCEPT ![c] = id]
    BY <2>1, <2>2, <2>3, RotateKeeps
  <2>5. books.holding = books.holding - Escrow(own.ops)
    BY <2>1, <2>3, EmptyEscrow
  <2>. QED BY <1>0, <2>3, <2>4, <2>5 DEF Handled
<1>2. ASSUME NEW ordering \in Orderings(remote.ops), Busy(c, remote, books, own, ordering)
      PROVE  Handled(c, books, own)
  <2>. DEFINE settled == Settled(books, own, remote)
              done == Executed(settled, remote.ops, ordering)
  <2>1. /\ IsEmpty(own) \/ Answers(remote, own)
        /\ Traded(books, own, remote).counter > 0
        /\ settled.counter > 0 /\ settled.liquidity > 0
        /\ ledger' = [ledger EXCEPT ![c] = Closed(done)]
        /\ Rotate(c, remote, settled.liquidity, done)
        /\ payments' = [o \in Order |->
              IF o \in PaidBy(remote.ops, done.receipts) THEN payments[o] + 1
              ELSE payments[o]]
    BY <1>2 DEF Busy
  <2>2. /\ settled \in OpenBook(Nat) /\ Wealth(settled) = Wealth(books)
        /\ settled.holding = books.holding - Escrow(own.ops)
    BY <2>1, SettledKeeps
  <2>. HIDE DEF settled
  <2>3. remote.ops \in Ops
    BY DEF Batch
  <2>4. /\ done \in OpenBook(Nat) /\ Wealth(done) = Wealth(settled)
        /\ done.holding = settled.holding
    BY <1>2, <2>1, <2>2, <2>3, ExecutedKeeps
  <2>. HIDE DEF done
  <2>5. Closed(done) \in Book /\ Wealth(Closed(done)) = Wealth(done)
        /\ Closed(done).holding = done.holding
    BY <2>4, ClosedBook
  <2>6. settled.liquidity \in Nat
    BY <2>2 DEF OpenBook
  <2>7. PICK batch \in Batch, id \in Nat :
           /\ locked' = [locked EXCEPT ![c] = batch] /\ batch.ops = next[c]
           /\ next' = [next EXCEPT ![c] = NoOps]
           /\ fresh' = [fresh EXCEPT ![c] = TRUE]
           /\ serial' = [serial EXCEPT ![c] = id]
    BY <2>1, <2>4, <2>6, RotateKeeps
  <2>8. payments' \in [Order -> Nat]
    BY <1>0, <2>1
  <2>. QED BY <2>1, <2>2, <2>4, <2>5, <2>7, <2>8 DEF Handled
<1>. QED BY <1>1, <1>2, HandleCases

\* There are two chains, each the other of the other.
LEMMA ChainFacts ==
  /\ Chain = {"root", "nested"} /\ "root" # "nested"
  /\ \A c \in Chain : Other(c) \in Chain /\ Other(c) # c /\ Other(Other(c)) = c
BY DEF Chain, Other

\* The end of a list, from one of its elements.
LEMMA TailSeq ==
  ASSUME NEW S, NEW s \in Seq(S), NEW i \in DOMAIN s
  PROVE  /\ SubSeq(s, i, Len(s)) \in Seq(S)
         /\ Len(SubSeq(s, i, Len(s))) = Len(s) - i + 1
         /\ \A j \in 1 .. Len(s) - i + 1 : SubSeq(s, i, Len(s))[j] = s[i + j - 1]
OBVIOUS

\* A batch that was never locked is a batch.
LEMMA NoBatchType ==
  ASSUME NEW pool \in Nat
  PROVE  NoBatch(pool) \in Batch /\ NoBatch(pool).ops = NoOps
<1>1. NoOps \in Ops /\ <<>> \in Seq(Nat)
  BY EmptyEscrow
<1>. QED BY <1>1 DEF NoBatch, Batch

\* The types and the account hold initially.
LEMMA ExchangeInit ==
  ASSUME Init
  PROVE  ExchangeTypes /\ AllAccounted
<1>. DEFINE points == [p \in Holder |-> 0]
            books(c) == [account |-> InitialAccount[c], holding |-> 0,
                         liquidity |-> InitialLiquidity[c], points |-> points]
<1>1. \A c \in Chain : InitialAccount[c] \in Nat /\ InitialLiquidity[c] \in Nat
  BY ExchangeAssumption
<1>2. points \in [Holder -> Nat] /\ NoOps \in Ops /\ Escrow(NoOps) = 0
  BY EmptyEscrow
<1>3. /\ ledger = [c \in Chain |-> books(c)]
      /\ next = [c \in Chain |-> NoOps]
      /\ locked = [c \in Chain |-> NoBatch(InitialLiquidity[c])]
      /\ fresh = [c \in Chain |-> FALSE]
      /\ serial = [c \in Chain |-> 0]
      /\ outbox = [c \in Chain |-> <<Published(locked[c], ledger[c].points)>>]
      /\ fallbacks = 0
      /\ outcome = [o \in Order |-> "open"]
      /\ payments = [o \in Order |-> 0]
  BY DEF Init, Holder
<1>. HIDE DEF points
<1>4. ASSUME NEW c \in Chain
      PROVE  books(c) \in Book /\ Wealth(books(c)) = InitialAccount[c] + InitialLiquidity[c]
  BY <1>1, <1>2 DEF Book, Wealth
<1>5. \A c \in Chain : /\ NoBatch(InitialLiquidity[c]) \in Batch
                       /\ NoBatch(InitialLiquidity[c]).ops = NoOps
  BY <1>1, NoBatchType
<1>6. ledger \in [Chain -> Book] /\ locked \in [Chain -> Batch]
  BY <1>3, <1>4, <1>5
<1>7. outbox \in [Chain -> Seq(Mail)]
  <2>1. ASSUME NEW c \in Chain PROVE Published(locked[c], ledger[c].points) \in Mail
    <3>1. locked[c] \in Batch /\ ledger[c] \in Book
      BY <1>6
    <3>. QED BY <3>1 DEF Published, Mail, Book
  <2>2. ASSUME NEW c \in Chain PROVE <<Published(locked[c], ledger[c].points)>> \in Seq(Mail)
    BY <2>1
  <2>. QED BY <1>3, <2>2
<1>8. ExchangeTypes
  BY <1>2, <1>3, <1>6, <1>7 DEF ExchangeTypes
<1>9. ASSUME NEW c \in Chain PROVE Accounted(c, ledger[c], next[c], locked[c].ops)
  <2>1. ledger[c] = books(c) /\ next[c] = NoOps /\ locked[c].ops = NoOps /\ books(c).holding = 0
    BY <1>3, <1>5
  <2>. QED BY <1>2, <1>4, <2>1 DEF Accounted
<1>. QED BY <1>8, <1>9 DEF AllAccounted

\* What an operation puts in escrow.
LEMMA EscrowedBook ==
  ASSUME NEW books \in Book, NEW amount \in Nat, books.account >= amount
  PROVE  /\ Escrowed(books, amount) \in Book
         /\ Wealth(Escrowed(books, amount)) = Wealth(books)
         /\ Escrowed(books, amount).holding = books.holding + amount
         /\ Escrowed(books, amount).liquidity = books.liquidity
         /\ Escrowed(books, amount).points = books.points
<1>1. books.account \in Nat /\ books.holding \in Int /\ books.liquidity \in Nat
      /\ books.points \in [Holder -> Nat]
  BY DEF Book
<1>2. books.account - amount \in Nat /\ books.holding + amount \in Int
  BY <1>1
<1>. DEFINE b == Escrowed(books, amount)
<1>3. b = [account |-> books.account - amount, holding |-> books.holding + amount,
           liquidity |-> books.liquidity, points |-> books.points]
  <2>1. b = [books EXCEPT !.account = @ - amount, !.holding = @ + amount]
    BY DEF Escrowed
  <2>. HIDE DEF b
  <2>. QED BY <2>1 DEF Book
<1>. QED BY <1>1, <1>2, <1>3 DEF Book, Wealth

\* An operation that joins the next batch of c, whose books become b.
Joins(c, b, ops) ==
  /\ ledger' = [ledger EXCEPT ![c] = b]
  /\ next' = [next EXCEPT ![c] = ops]
  /\ UNCHANGED <<locked, fresh, serial, outbox, fallbacks, outcome, payments>>

\* An operation that escrows what it brings keeps the types and the account.
LEMMA JoinKeeps ==
  ASSUME ExchangeTypes, AllAccounted, NEW c \in Chain, NEW b \in Book, NEW ops \in Ops,
         Joins(c, b, ops), Wealth(b) = Wealth(ledger[c]),
         b.holding = ledger[c].holding + Escrow(ops) - Escrow(next[c])
  PROVE  ExchangeTypes' /\ AllAccounted'
<1>1. ExchangeTypes'
  BY DEF ExchangeTypes, Joins
<1>2. ASSUME NEW d \in Chain
      PROVE  Accounted(d, ledger'[d], next'[d], locked'[d].ops)
  <2>1. Accounted(d, ledger[d], next[d], locked[d].ops)
    BY DEF AllAccounted
  <2>2. CASE d # c
    BY <2>1, <2>2 DEF Joins
  <2>3. CASE d = c
    <3>1. ledger'[c] = b /\ next'[c] = ops /\ locked'[c] = locked[c]
      BY DEF Joins, ExchangeTypes
    <3>2. next[c] \in Ops /\ locked[c].ops \in Ops
      BY DEF ExchangeTypes, Batch
    <3>3. Escrow(ops) \in Nat /\ Escrow(next[c]) \in Nat /\ Escrow(locked[c].ops) \in Nat
      BY <3>2, EscrowNat
    <3>. QED BY <2>1, <2>3, <3>1, <3>3 DEF Accounted
  <2>. QED BY <2>2, <2>3
<1>. QED BY <1>1, <1>2 DEF AllAccounted

\* A new order keeps the types and the account (HandleMessageDexLimitOrder).
LEMMA PlaceOrderKeeps ==
  ASSUME ExchangeTypes, AllAccounted, NEW o \in Order, PlaceOrder(o)
  PROVE  ExchangeTypes' /\ AllAccounted'
<1>. DEFINE c == o.chain
            b == Escrowed(ledger[c], o.sale)
            ops == [next[c] EXCEPT !.orders = Append(@, o)]
<1>1. c \in Chain /\ o.sale \in Nat
  BY ExchangeAssumption
<1>2. ledger[c] \in Book /\ next[c] \in Ops
  BY <1>1 DEF ExchangeTypes
<1>3. b \in Book /\ Wealth(b) = Wealth(ledger[c]) /\ b.holding = ledger[c].holding + o.sale
  BY <1>1, <1>2, EscrowedBook DEF PlaceOrder
<1>4. Joins(c, b, ops)
  BY <1>1 DEF PlaceOrder, Joins, ExchangeTypes
<1>. HIDE DEF b
<1>5. next[c].orders \in Seq(Order) /\ next[c].deposits \in Seq(Deposit)
      /\ next[c].withdrawals \in Seq(Withdrawal)
  BY <1>2 DEF Ops
<1>6. /\ Append(next[c].orders, o) \in Seq(Order) /\ <<o>> \in Seq(Order)
      /\ Joined(Append(next[c].orders, o), next[c].orders, <<o>>)
  BY <1>5, AppendJoined
<1>7. ops = [orders |-> Append(next[c].orders, o), deposits |-> next[c].deposits,
             withdrawals |-> next[c].withdrawals]
  <2>1. ops = [next[c] EXCEPT !.orders = Append(next[c].orders, o)]
    OBVIOUS
  <2>. HIDE DEF ops, c
  <2>. QED BY <1>2, <2>1 DEF Ops
<1>8. Sold(Append(next[c].orders, o)) = Sold(next[c].orders) + o.sale
  <2>1. Sold(Append(next[c].orders, o)) = Sold(next[c].orders) + Sold(<<o>>)
    BY <1>5, <1>6, SoldJoined
  <2>2. Sold(<<o>>) = o.sale
    <3>. DEFINE f == Sales(<<o>>)
    <3>1. f[1] = o.sale /\ DOMAIN <<o>> = {} \cup {1}
      BY DEF Sales
    <3>2. \A y \in {} \cup {1} : f[y] \in Int
      BY <1>1, <3>1
    <3>3. SumOver(f, {} \cup {1}) = f[1] + SumOver(f, {}) /\ SumOver(f, {}) = 0
      <4>. HIDE DEF f
      <4>. QED BY <3>2, FS_EmptySet, SumAdd, SumEmpty
    <3>. QED BY <1>1, <3>1, <3>3 DEF Sold
  <2>. QED BY <2>1, <2>2
<1>9. ops \in Ops /\ Escrow(ops) = Escrow(next[c]) + o.sale
  <2>1. ops \in Ops
    BY <1>5, <1>6, <1>7 DEF Ops
  <2>2. Escrow(ops) = Sold(Append(next[c].orders, o)) + Put(next[c].deposits)
    BY <1>7 DEF Escrow
  <2>3. Sold(next[c].orders) \in Nat /\ Put(next[c].deposits) \in Nat
    BY <1>2, EscrowNat
  <2>. QED BY <1>1, <1>8, <2>1, <2>2, <2>3 DEF Escrow
<1>. HIDE DEF ops
<1>10. b.holding = ledger[c].holding + Escrow(ops) - Escrow(next[c])
  <2>1. ledger[c].holding \in Int /\ Escrow(next[c]) \in Nat
    BY <1>2, EscrowNat DEF Book
  <2>. QED BY <1>1, <1>3, <1>9, <2>1
<1>. HIDE DEF c
<1>. QED BY <1>1, <1>3, <1>4, <1>9, <1>10, JoinKeeps

\* So does a new deposit (HandleMessageDexLiquidityDeposit).
LEMMA PlaceDepositKeeps ==
  ASSUME ExchangeTypes, AllAccounted, NEW d \in Deposit, PlaceDeposit(d)
  PROVE  ExchangeTypes' /\ AllAccounted'
<1>. DEFINE c == d.chain
            b == Escrowed(ledger[c], d.amount)
            ops == [next[c] EXCEPT !.deposits = Append(@, d)]
<1>1. c \in Chain /\ d.amount \in Nat
  BY ExchangeAssumption
<1>2. ledger[c] \in Book /\ next[c] \in Ops
  BY <1>1 DEF ExchangeTypes
<1>3. b \in Book /\ Wealth(b) = Wealth(ledger[c]) /\ b.holding = ledger[c].holding + d.amount
  BY <1>1, <1>2, EscrowedBook DEF PlaceDeposit
<1>4. Joins(c, b, ops)
  BY <1>1 DEF PlaceDeposit, Joins, ExchangeTypes
<1>. HIDE DEF b
<1>5. next[c].orders \in Seq(Order) /\ next[c].deposits \in Seq(Deposit)
      /\ next[c].withdrawals \in Seq(Withdrawal)
  BY <1>2 DEF Ops
<1>6. /\ Append(next[c].deposits, d) \in Seq(Deposit) /\ <<d>> \in Seq(Deposit)
      /\ Joined(Append(next[c].deposits, d), next[c].deposits, <<d>>)
  BY <1>5, AppendJoined
<1>7. ops = [orders |-> next[c].orders, deposits |-> Append(next[c].deposits, d),
             withdrawals |-> next[c].withdrawals]
  <2>1. ops = [next[c] EXCEPT !.deposits = Append(next[c].deposits, d)]
    OBVIOUS
  <2>. HIDE DEF ops, c
  <2>. QED BY <1>2, <2>1 DEF Ops
<1>8. Put(Append(next[c].deposits, d)) = Put(next[c].deposits) + d.amount
  <2>1. Put(Append(next[c].deposits, d)) = Put(next[c].deposits) + Put(<<d>>)
    BY <1>5, <1>6, PutJoined
  <2>2. Put(<<d>>) = d.amount
    <3>. DEFINE f == Amounts(<<d>>)
    <3>1. f[1] = d.amount /\ DOMAIN <<d>> = {} \cup {1}
      BY DEF Amounts
    <3>2. \A y \in {} \cup {1} : f[y] \in Int
      BY <1>1, <3>1
    <3>3. SumOver(f, {} \cup {1}) = f[1] + SumOver(f, {}) /\ SumOver(f, {}) = 0
      <4>. HIDE DEF f
      <4>. QED BY <3>2, FS_EmptySet, SumAdd, SumEmpty
    <3>2a. Put(<<d>>) = SumOver(f, DOMAIN <<d>>)
      BY <1>6, PutNat
    <3>. HIDE DEF f
    <3>. QED BY <1>1, <3>1, <3>3, <3>2a
  <2>. QED BY <2>1, <2>2
<1>9. ops \in Ops /\ Escrow(ops) = Escrow(next[c]) + d.amount
  <2>1. ops \in Ops
    BY <1>5, <1>6, <1>7 DEF Ops
  <2>2. Escrow(ops) = Sold(next[c].orders) + Put(Append(next[c].deposits, d))
    BY <1>7 DEF Escrow
  <2>3. Sold(next[c].orders) \in Nat /\ Put(next[c].deposits) \in Nat
    BY <1>2, EscrowNat
  <2>. QED BY <1>1, <1>8, <2>1, <2>2, <2>3 DEF Escrow
<1>. HIDE DEF ops
<1>10. b.holding = ledger[c].holding + Escrow(ops) - Escrow(next[c])
  <2>1. ledger[c].holding \in Int /\ Escrow(next[c]) \in Nat
    BY <1>2, EscrowNat DEF Book
  <2>. QED BY <1>1, <1>3, <1>9, <2>1
<1>. HIDE DEF c
<1>. QED BY <1>1, <1>3, <1>4, <1>9, <1>10, JoinKeeps

\* So does a new withdrawal (HandleMessageDexLiquidityWithdraw).
LEMMA PlaceWithdrawalKeeps ==
  ASSUME ExchangeTypes, AllAccounted, NEW w \in Withdrawal, PlaceWithdrawal(w)
  PROVE  ExchangeTypes' /\ AllAccounted'
<1>. DEFINE c == w.chain
            ops == [next[c] EXCEPT !.withdrawals = Append(@, w)]
<1>1. c \in Chain
  BY ExchangeAssumption
<1>2. ledger[c] \in Book /\ next[c] \in Ops
  BY <1>1 DEF ExchangeTypes
<1>3. Joins(c, ledger[c], ops)
  BY <1>1 DEF PlaceWithdrawal, Joins, ExchangeTypes
<1>4. next[c].orders \in Seq(Order) /\ next[c].deposits \in Seq(Deposit)
      /\ next[c].withdrawals \in Seq(Withdrawal)
  BY <1>2 DEF Ops
<1>5. ops = [orders |-> next[c].orders, deposits |-> next[c].deposits,
             withdrawals |-> Append(next[c].withdrawals, w)]
  <2>1. ops = [next[c] EXCEPT !.withdrawals = Append(next[c].withdrawals, w)]
    OBVIOUS
  <2>. HIDE DEF ops, c
  <2>. QED BY <1>2, <2>1 DEF Ops
<1>6. ops \in Ops /\ Escrow(ops) = Escrow(next[c])
  <2>1. Append(next[c].withdrawals, w) \in Seq(Withdrawal)
    BY <1>4
  <2>. QED BY <1>4, <1>5, <2>1 DEF Ops, Escrow
<1>. HIDE DEF ops
<1>7. ledger[c].holding = ledger[c].holding + Escrow(ops) - Escrow(next[c])
  <2>1. ledger[c].holding \in Int /\ Escrow(next[c]) \in Nat
    BY <1>2, EscrowNat DEF Book
  <2>. QED BY <1>6, <2>1
<1>. HIDE DEF c
<1>. QED BY <1>1, <1>2, <1>3, <1>6, <1>7, JoinKeeps

\* Handling a batch keeps the account when its own batch leaves the escrow.
LEMMA HandledAccounts ==
  ASSUME ExchangeTypes, AllAccounted, NEW c \in Chain, NEW books, NEW own,
         Handled(c, books, own),
         books.holding - Escrow(own.ops) = Escrow(next[c]),
         Wealth(books) = Wealth(ledger[c])
  PROVE  /\ ledger' \in [Chain -> Book] /\ next' \in [Chain -> Ops]
         /\ locked' \in [Chain -> Batch] /\ fresh' \in [Chain -> BOOLEAN]
         /\ serial' \in [Chain -> Nat] /\ payments' \in [Order -> Nat]
         /\ AllAccounted'
<1>1. PICK b \in Book, batch \in Batch, id \in Nat :
        /\ ledger' = [ledger EXCEPT ![c] = b]
        /\ Wealth(b) = Wealth(books) /\ b.holding = books.holding - Escrow(own.ops)
        /\ locked' = [locked EXCEPT ![c] = batch] /\ batch.ops = next[c]
        /\ next' = [next EXCEPT ![c] = NoOps]
        /\ fresh' = [fresh EXCEPT ![c] = TRUE]
        /\ serial' = [serial EXCEPT ![c] = id]
        /\ payments' \in [Order -> Nat]
  BY DEF Handled
<1>2. /\ ledger' \in [Chain -> Book] /\ next' \in [Chain -> Ops]
      /\ locked' \in [Chain -> Batch] /\ fresh' \in [Chain -> BOOLEAN]
      /\ serial' \in [Chain -> Nat]
  BY <1>1, EmptyEscrow DEF ExchangeTypes
<1>3. ASSUME NEW d \in Chain PROVE Accounted(d, ledger'[d], next'[d], locked'[d].ops)
  <2>1. Accounted(d, ledger[d], next[d], locked[d].ops)
    BY DEF AllAccounted
  <2>2. CASE d # c
    <3>1. ledger'[d] = ledger[d] /\ next'[d] = next[d] /\ locked'[d] = locked[d]
      BY <1>1, <2>2 DEF ExchangeTypes
    <3>. QED BY <2>1, <3>1
  <2>3. CASE d = c
    <3>1. ledger'[c] = b /\ next'[c] = NoOps /\ locked'[c] = batch
      BY <1>1 DEF ExchangeTypes
    <3>2. Escrow(next[c]) \in Nat /\ Escrow(NoOps) = 0
      BY EmptyEscrow, EscrowNat DEF ExchangeTypes
    <3>3. Wealth(b) = InitialAccount[c] + InitialLiquidity[c]
      BY <1>1, <2>1, <2>3 DEF Accounted
    <3>4. b.holding = Escrow(NoOps) + Escrow(batch.ops)
      BY <1>1, <3>2
    <3>. QED BY <2>3, <3>1, <3>3, <3>4 DEF Accounted
  <2>. QED BY <2>2, <2>3
<1>. QED BY <1>1, <1>2, <1>3 DEF AllAccounted

\* Handling a batch keeps the types and the account (HandleDexBatch).
LEMMA ReceiveKeeps ==
  ASSUME ExchangeTypes, AllAccounted, NEW c \in Chain, Receive(c)
  PROVE  ExchangeTypes' /\ AllAccounted'
<1>. DEFINE d == Other(c)
            own == locked[c]
<1>1. d \in Chain /\ outbox[d] \in Seq(Mail)
  BY ChainFacts DEF ExchangeTypes
<1>2. PICK i \in DOMAIN outbox[d] :
        /\ HandleBatch(c, outbox[d][i].batch, ledger[c], own)
        /\ outcome' = Decided(own, outbox[d][i].batch.receipts)
        /\ outbox' = [outbox EXCEPT ![d] = SubSeq(@, i, Len(@))]
  BY DEF Receive
<1>. DEFINE remote == outbox[d][i].batch
<1>3. remote \in Batch
  <2>1. outbox[d][i] \in Mail
    BY <1>1
  <2>. QED BY <2>1 DEF Mail
<1>4. ledger[c] \in Book /\ own \in Batch /\ next[c] \in Ops /\ own.ops \in Ops
  BY DEF ExchangeTypes, Batch
<1>5. Handled(c, ledger[c], own)
  <2>. HIDE DEF d, remote, own
  <2>1. HandleBatch(c, remote, ledger[c], own)
    BY <1>2 DEF remote
  <2>. QED BY <1>3, <1>4, <2>1, HandleKeeps
<1>6. ledger[c].holding - Escrow(own.ops) = Escrow(next[c])
  <2>1. Accounted(c, ledger[c], next[c], own.ops)
    BY DEF AllAccounted
  <2>2. Escrow(next[c]) \in Nat /\ Escrow(own.ops) \in Nat
    BY <1>4, EscrowNat
  <2>. QED BY <2>1, <2>2 DEF Accounted
<1>7. /\ ledger' \in [Chain -> Book] /\ next' \in [Chain -> Ops]
      /\ locked' \in [Chain -> Batch] /\ fresh' \in [Chain -> BOOLEAN]
      /\ serial' \in [Chain -> Nat] /\ payments' \in [Order -> Nat]
      /\ AllAccounted'
  <2>. HIDE DEF own
  <2>. QED BY <1>5, <1>6, HandledAccounts
<1>8. outcome' \in [Order -> {"open", "kept", "returned"}]
  BY <1>2 DEF Decided, ExchangeTypes
<1>9. outbox' \in [Chain -> Seq(Mail)]
  <2>1. SubSeq(outbox[d], i, Len(outbox[d])) \in Seq(Mail)
    BY <1>1, TailSeq
  <2>. QED BY <1>1, <1>2, <2>1 DEF ExchangeTypes
<1>10. fallbacks' = fallbacks
  BY DEF Receive
<1>. QED BY <1>7, <1>8, <1>9, <1>10 DEF ExchangeTypes

\* A refund moves the escrow of a batch back to the accounts.
LEMMA RefundedBook ==
  ASSUME NEW books \in Book, NEW own \in Batch, NEW points \in [Holder -> Nat]
  PROVE  /\ Refunded(books, own, points) \in Book
         /\ Wealth(Refunded(books, own, points)) = Wealth(books)
         /\ Refunded(books, own, points).holding = books.holding - Escrow(own.ops)
         /\ Refunded(books, own, points).points = points
         /\ Refunded(books, own, points).liquidity = books.liquidity
<1>. DEFINE e == Escrow(own.ops)
            b == Refunded(books, own, points)
<1>1. e \in Nat
  BY EscrowNat DEF Batch
<1>2. /\ books.account \in Nat /\ books.holding \in Int /\ books.liquidity \in Nat
  BY DEF Book
<1>3. b = [account |-> books.account + e, holding |-> books.holding - e,
           liquidity |-> books.liquidity, points |-> points]
  <2>1. b = [books EXCEPT !.holding = @ - e, !.account = @ + e, !.points = points]
    BY DEF Refunded
  <2>. HIDE DEF b, e
  <2>. QED BY <2>1 DEF Book
<1>. HIDE DEF b, e
<1>4. books.account + e \in Nat /\ books.holding - e \in Int
  BY <1>1, <1>2
<1>5. /\ b \in Book /\ b.account = books.account + e /\ b.holding = books.holding - e
      /\ b.liquidity = books.liquidity /\ b.points = points
  BY <1>2, <1>3, <1>4 DEF Book
<1>6. Wealth(b) = Wealth(books)
  BY <1>1, <1>2, <1>5 DEF Wealth
<1>. QED BY <1>5, <1>6 DEF b, e

\* A fallback keeps the types and the account (HandleLivenessFallback).
LEMMA FallbackKeeps ==
  ASSUME ExchangeTypes, AllAccounted, Fallback
  PROVE  ExchangeTypes' /\ AllAccounted'
<1>. DEFINE c == "nested"
            own == locked[c]
<1>1. c \in Chain /\ "root" \in Chain /\ outbox["root"] \in Seq(Mail)
  BY ChainFacts DEF ExchangeTypes
<1>2. PICK i \in DOMAIN outbox["root"] :
        /\ HandleBatch(c, outbox["root"][i].batch,
                       Refunded(ledger[c], own, outbox["root"][i].points), NoBatch(0))
        /\ outbox' = [outbox EXCEPT !["root"] = SubSeq(@, i, Len(@))]
  BY DEF Fallback
<1>. DEFINE seen == outbox["root"][i]
            remote == seen.batch
            books == Refunded(ledger[c], own, seen.points)
<1>3. remote \in Batch /\ seen.points \in [Holder -> Nat]
  <2>1. seen \in Mail
    BY <1>1
  <2>. QED BY <2>1 DEF Mail
<1>4. ledger[c] \in Book /\ own \in Batch /\ next[c] \in Ops /\ own.ops \in Ops
  BY <1>1 DEF ExchangeTypes, Batch
<1>5. NoBatch(0) \in Batch /\ NoBatch(0).ops = NoOps /\ Escrow(NoOps) = 0
  BY NoBatchType, EmptyEscrow
<1>6. /\ books \in Book /\ Wealth(books) = Wealth(ledger[c])
      /\ books.holding = ledger[c].holding - Escrow(own.ops)
  <2>. HIDE DEF seen, own, c
  <2>. QED BY <1>3, <1>4, RefundedBook
<1>7. Handled(c, books, NoBatch(0))
  <2>1. HandleBatch(c, remote, books, NoBatch(0))
    BY <1>2
  <2>. HIDE DEF books, remote, c
  <2>. QED BY <1>1, <1>3, <1>5, <1>6, <2>1, HandleKeeps
<1>8. books.holding - Escrow(NoBatch(0).ops) = Escrow(next[c])
  <2>1. Accounted(c, ledger[c], next[c], own.ops)
    BY <1>1 DEF AllAccounted
  <2>2. Escrow(next[c]) \in Nat /\ Escrow(own.ops) \in Nat
    BY <1>4, EscrowNat
  <2>. HIDE DEF books, own
  <2>. QED BY <1>5, <1>6, <2>1, <2>2 DEF Accounted
<1>9. /\ ledger' \in [Chain -> Book] /\ next' \in [Chain -> Ops]
      /\ locked' \in [Chain -> Batch] /\ fresh' \in [Chain -> BOOLEAN]
      /\ serial' \in [Chain -> Nat] /\ payments' \in [Order -> Nat]
      /\ AllAccounted'
  <2>. HIDE DEF books, c
  <2>. QED BY <1>1, <1>6, <1>7, <1>8, HandledAccounts
<1>10. outcome' \in [Order -> {"open", "kept", "returned"}]
  BY DEF Fallback, ExchangeTypes
<1>11. outbox' \in [Chain -> Seq(Mail)]
  <2>1. SubSeq(outbox["root"], i, Len(outbox["root"])) \in Seq(Mail)
    BY <1>1, TailSeq
  <2>. QED BY <1>1, <1>2, <2>1 DEF ExchangeTypes
<1>12. fallbacks' \in Nat
  BY DEF Fallback, ExchangeTypes
<1>. QED BY <1>9, <1>10, <1>11, <1>12 DEF ExchangeTypes

\* So does the end of a block (IncludeSameBlockDex).
LEMMA EndBlockKeeps ==
  ASSUME ExchangeTypes, AllAccounted, NEW c \in Chain, EndBlock(c)
  PROVE  ExchangeTypes' /\ AllAccounted'
<1>. DEFINE ops == locked[c].ops
            late == next[c]
            all == Included(ops, late)
            batch == [locked[c] EXCEPT !.ops = Included(@, next[c])]
            mail == Published(batch, ledger[c].points)
<1>1. /\ locked' = [locked EXCEPT ![c] = batch]
      /\ outbox' = [outbox EXCEPT ![c] = Append(@, mail)]
      /\ next' = [next EXCEPT ![c] = LeftOver(ops, late)]
      /\ fresh' = [fresh EXCEPT ![c] = FALSE]
      /\ UNCHANGED <<ledger, serial, fallbacks, placed, outcome, payments>>
  BY DEF EndBlock, ExchangeTypes
<1>2. locked[c] \in Batch /\ ops \in Ops /\ late \in Ops /\ ledger[c].points \in [Holder -> Nat]
      /\ outbox[c] \in Seq(Mail)
  BY DEF ExchangeTypes, Batch, Book
<1>3. /\ all \in Ops /\ LeftOver(ops, late) \in Ops
      /\ Escrow(LeftOver(ops, late)) + Escrow(all) = Escrow(late) + Escrow(ops)
  <2>. HIDE DEF ops, late
  <2>. QED BY <1>2, IncludedKeeps
<1>4. batch \in Batch /\ batch.ops = all
  <2>1. batch = [locked[c] EXCEPT !.ops = all]
    OBVIOUS
  <2>. HIDE DEF batch, all
  <2>. QED BY <1>2, <1>3, <2>1 DEF Batch
<1>. HIDE DEF batch, all
<1>5. Append(outbox[c], mail) \in Seq(Mail)
  <2>1. mail \in Mail
    BY <1>2, <1>4 DEF Published, Mail
  <2>. HIDE DEF mail
  <2>. QED BY <1>2, <2>1
<1>. HIDE DEF mail, ops, late
<1>6. ExchangeTypes'
  BY <1>1, <1>3, <1>4, <1>5 DEF ExchangeTypes
<1>7. ASSUME NEW d \in Chain PROVE Accounted(d, ledger'[d], next'[d], locked'[d].ops)
  <2>1. Accounted(d, ledger[d], next[d], locked[d].ops)
    BY DEF AllAccounted
  <2>2. CASE d # c
    <3>1. ledger'[d] = ledger[d] /\ next'[d] = next[d] /\ locked'[d] = locked[d]
      BY <1>1, <2>2 DEF ExchangeTypes
    <3>. QED BY <2>1, <3>1
  <2>3. CASE d = c
    <3>1. ledger'[c] = ledger[c] /\ next'[c] = LeftOver(ops, late) /\ locked'[c].ops = all
      BY <1>1, <1>4 DEF ExchangeTypes
    <3>2. ledger[c].holding = Escrow(late) + Escrow(ops)
          /\ Wealth(ledger[c]) = InitialAccount[c] + InitialLiquidity[c]
      BY <2>1, <2>3 DEF Accounted, late, ops
    <3>. QED BY <1>3, <2>3, <3>1, <3>2 DEF Accounted
  <2>. QED BY <2>2, <2>3
<1>. QED BY <1>6, <1>7 DEF AllAccounted

\* Every step keeps the types and the account.
LEMMA ExchangeStep ==
  ASSUME ExchangeTypes, AllAccounted, [Next]_vars
  PROVE  ExchangeTypes' /\ AllAccounted'
<1>1. CASE Next
  BY <1>1, PlaceOrderKeeps, PlaceDepositKeeps, PlaceWithdrawalKeeps, ReceiveKeeps,
     EndBlockKeeps, FallbackKeeps DEF Next
<1>2. CASE UNCHANGED vars
  BY <1>2 DEF vars, ExchangeTypes, AllAccounted
<1>. QED BY <1>1, <1>2

\* The variables have their types, the holding pool is what the two batches of a chain
\* escrow, and a chain holds what it began with: no operation creates tokens.
THEOREM ExchangeTyped == DexSpec => [](ExchangeTypes /\ AllAccounted)
<1>1. Init => ExchangeTypes /\ AllAccounted
  BY ExchangeInit
<1>2. ExchangeTypes /\ AllAccounted /\ [Next]_vars => (ExchangeTypes /\ AllAccounted)'
  BY ExchangeStep
<1>. QED BY <1>1, <1>2, PTL DEF DexSpec

\* The holding pool of a chain is what its two batches escrow, a chain moves its own
\* tokens only, and no payout exceeds the pool (HandleOrderReceipts, HandleBatchWithdraw,
\* HandleBatchDeposit, HandleLivenessFallback).
THEOREM EscrowIsKept == DexSpec => []EscrowKept
<1>1. ExchangeTypes /\ AllAccounted => EscrowKept
  <2>. SUFFICES ASSUME ExchangeTypes, AllAccounted, NEW c \in Chain
                PROVE  /\ ledger[c].holding = Escrow(next[c]) + Escrow(locked[c].ops)
                       /\ ledger[c].account + ledger[c].holding + ledger[c].liquidity
                            = InitialAccount[c] + InitialLiquidity[c]
                       /\ ledger[c].account >= 0 /\ ledger[c].liquidity >= 0
    BY DEF EscrowKept
  <2>1. Accounted(c, ledger[c], next[c], locked[c].ops)
    BY DEF AllAccounted
  <2>2. ledger[c].account \in Nat /\ ledger[c].liquidity \in Nat
    BY DEF ExchangeTypes, Book
  <2>. QED BY <2>1, <2>2 DEF Accounted, Wealth
<1>. QED BY <1>1, ExchangeTyped, PTL

-----------------------------------------------------------------------------
(***************************************************************************)
(* The numbers of the batches.                                             *)
(***************************************************************************)
\* The number that a chain gives its k-th batch.
Num(k) == IF k = 0 THEN 0 ELSE ((k - 1) % Serial) + 1

\* The bounds on the numbers of batches.
LEMMA SerialFacts ==
  Serial \in Nat /\ FallbackMax \in Nat /\ Serial > FallbackMax + 1 /\ Serial > 1
BY ExchangeAssumption

\* The remainder of a number that is written as quotient and remainder.
LEMMA ModUnique ==
  ASSUME NEW s \in Nat, s > 0, NEW q \in Nat, NEW r \in Nat, r < s
  PROVE  (s * q + r) % s = r
<1>. DEFINE a == s * q + r
            p == a \div s
            t == a % s
<1>1. a \in Nat /\ p \in Nat /\ t \in Nat /\ t < s /\ a = s * p + t
  OBVIOUS
<1>2. s * p + t = s * q + r
  BY <1>1
<1>. HIDE DEF a, p, t
<1>3. ASSUME p < q PROVE FALSE
  <2>1. p + 1 <= q
    BY <1>1, <1>3
  <2>2. s * (p + 1) <= s * q
    BY <1>1, <2>1, TimesMonotone
  <2>3. s * (p + 1) = s * p + s
    BY <1>1
  <2>4. s * p \in Nat /\ s * q \in Nat
    BY <1>1
  <2>. QED BY <1>1, <1>2, <2>2, <2>3, <2>4
<1>4. ASSUME q < p PROVE FALSE
  <2>1. q + 1 <= p
    BY <1>1, <1>4
  <2>2. s * (q + 1) <= s * p
    BY <1>1, <2>1, TimesMonotone
  <2>3. s * (q + 1) = s * q + s
    BY <1>1
  <2>4. s * p \in Nat /\ s * q \in Nat
    BY <1>1
  <2>. QED BY <1>1, <1>2, <2>2, <2>3, <2>4
<1>5. p = q
  BY <1>1, <1>3, <1>4
<1>6. t = r
  <2>1. s * q \in Nat
    OBVIOUS
  <2>. QED BY <1>1, <1>2, <1>5, <2>1
<1>. QED BY <1>6 DEF a, t

\* A number is its quotient and its remainder.
LEMMA ModParts ==
  ASSUME NEW s \in Nat, s > 0, NEW a \in Nat
  PROVE  a \div s \in Nat /\ a % s \in Nat /\ a % s < s /\ a = s * (a \div s) + (a % s)
OBVIOUS

\* The number after a number is what Rotate computes.
LEMMA NumNext ==
  ASSUME NEW k \in Nat
  PROVE  Num(k) \in Nat /\ Num(k + 1) = (Num(k) % Serial) + 1
<1>. DEFINE s == Serial
<1>1. s \in Nat /\ s > 1
  BY SerialFacts
<1>. HIDE DEF s
<1>2. CASE k = 0
  <2>1. Num(k) = 0 /\ Num(k + 1) = (0 % s) + 1
    BY <1>2 DEF Num, s
  <2>. QED BY <2>1 DEF s
<1>3. CASE k > 0
  <2>. DEFINE q == (k - 1) \div s
              r == (k - 1) % s
  <2>1. k - 1 \in Nat /\ q \in Nat /\ r \in Nat /\ r < s /\ k - 1 = s * q + r
    <3>1. k - 1 \in Nat
      BY <1>3
    <3>. QED BY <1>1, <3>1, ModParts
  <2>2. Num(k) = r + 1 /\ Num(k + 1) = (k % s) + 1
    BY <1>3 DEF Num, s
  <2>. HIDE DEF q, r
  <2>3. CASE r + 1 < s
    <3>1. k = s * q + (r + 1) /\ r + 1 \in Nat
      <4>1. s * q \in Nat
        BY <1>1, <2>1
      <4>. QED BY <1>3, <2>1, <4>1
    <3>2. (s * q + (r + 1)) % s = r + 1
      BY <1>1, <2>1, <2>3, <3>1, ModUnique
    <3>3. (s * 0 + (r + 1)) % s = r + 1
      BY <1>1, <2>1, <2>3, <3>1, ModUnique
    <3>4. s * 0 + (r + 1) = r + 1
      BY <1>1, <2>1
    <3>. QED BY <2>1, <2>2, <3>1, <3>2, <3>3, <3>4 DEF s
  <2>4. CASE r + 1 = s
    <3>1. k = s * (q + 1) + 0 /\ q + 1 \in Nat /\ s = s * 1 + 0
      <4>1. s * (q + 1) = s * q + s
        BY <1>1, <2>1
      <4>2. s * q \in Nat
        BY <1>1, <2>1
      <4>. QED BY <1>1, <2>1, <2>4, <4>1, <4>2
    <3>2. (s * (q + 1) + 0) % s = 0 /\ (s * 1 + 0) % s = 0
      <4>1. (s * (q + 1) + 0) % s = 0
        <5>1. PICK z \in Nat : z = q + 1
          BY <2>1
        <5>2. \A x \in Nat : x < s => (s * z + x) % s = x
          BY <1>1, ModUnique
        <5>3. (s * z + 0) % s = 0
          <6>1. 0 \in Nat /\ 0 < s
            BY <1>1
          <6>. QED BY <5>2, <6>1
        <5>. QED BY <5>1, <5>3
      <4>2. (s * 1 + 0) % s = 0
        <5>1. 1 \in Nat /\ 0 \in Nat /\ 0 < s /\ s > 0
          BY <1>1
        <5>. QED BY <1>1, <5>1, ModUnique
      <4>. QED BY <4>1, <4>2
    <3>3. k % s = 0 /\ s % s = 0
      BY <3>1, <3>2
    <3>. QED BY <2>1, <2>2, <2>4, <3>3 DEF s
  <2>. QED BY <1>1, <2>1, <2>3, <2>4
<1>. QED BY <1>2, <1>3

\* Numbers of batches that are less than Serial apart differ.
LEMMA NumDiffer ==
  ASSUME NEW a \in Nat, NEW b \in Nat, a < b, b - a < Serial
  PROVE  Num(a) # Num(b)
<1>. DEFINE s == Serial
<1>1. s \in Nat /\ s > 1 /\ b - a < s
  BY SerialFacts
<1>2. CASE a = 0
  <2>1. Num(a) = 0 /\ Num(b) = ((b - 1) % Serial) + 1
    BY <1>2 DEF Num
  <2>2. (b - 1) % Serial \in Nat
    BY <1>1, <1>2
  <2>. QED BY <2>1, <2>2
<1>3. CASE a > 0
  <2>. HIDE DEF s
  <2>. DEFINE p == (a - 1) \div s
              t == (a - 1) % s
              q == (b - 1) \div s
              r == (b - 1) % s
  <2>1. a - 1 \in Nat /\ b - 1 \in Nat
    BY <1>3
  <2>2. /\ p \in Nat /\ t \in Nat /\ t < s /\ a - 1 = s * p + t
        /\ q \in Nat /\ r \in Nat /\ r < s /\ b - 1 = s * q + r
    BY <1>1, <2>1, ModParts
  <2>3. Num(a) = t + 1 /\ Num(b) = r + 1
    BY <1>3 DEF Num, s
  <2>. HIDE DEF p, t, q, r
  <2>4. ASSUME t = r PROVE FALSE
    <3>1. s * p \in Nat /\ s * q \in Nat /\ b - a = s * q - s * p
      BY <1>1, <2>2, <2>4
    <3>2. CASE q <= p
      <4>1. s * q <= s * p
        BY <1>1, <2>2, <3>2, TimesMonotone
      <4>. QED BY <3>1, <4>1
    <3>3. CASE q >= p + 1
      <4>1. s * (p + 1) <= s * q
        BY <1>1, <2>2, <3>3, TimesMonotone
      <4>2. s * (p + 1) = s * p + s
        BY <1>1, <2>2
      <4>. QED BY <1>1, <3>1, <4>1, <4>2
    <3>. QED BY <2>2, <3>2, <3>3
  <2>. QED BY <2>2, <2>3, <2>4
<1>. QED BY <1>2, <1>3

-----------------------------------------------------------------------------
(***************************************************************************)
(* What one chain makes of a batch when it executes it, and the other      *)
(* when it settles it, are images of each other.                           *)
(***************************************************************************)
\* The mirror of s is the pool of e, and the other way round.
Facing(s, e) == s \in OpenBook(Nat) /\ s.points = e.points /\ s.counter = e.liquidity
FacingBack(s, e) == s.liquidity = e.counter

\* The orders of a batch, settled by the receipts of the chain that executed them.
LEMMA MirrorOrders ==
  ASSUME NEW b \in Book, NEW m \in OpenBook(Nat), m.points = b.points,
         NEW orders \in Seq(Order), NEW e, ExecutedBook(m, orders, DOMAIN orders, e)
  PROVE  LET s == SettleOrders(Opened(b, m.liquidity), orders, e.receipts) IN
         /\ Facing(s, e)
         /\ m.counter = b.liquidity => FacingBack(s, e)
<1>. DEFINE opened == Opened(b, m.liquidity)
            s == SettleOrders(opened, orders, e.receipts)
            paid == PaidOrders(orders, e.receipts)
            sold == SumOver(Sales(orders), paid)
            got == SumOver(e.receipts, paid)
<1>1. m.liquidity \in Nat /\ m.counter \in Nat
  BY DEF OpenBook
<1>2. /\ opened \in OpenBook(Nat) /\ opened.points = b.points
      /\ opened.liquidity = b.liquidity /\ opened.counter = m.liquidity
  BY <1>1, OpenedBook
<1>3. /\ e \in OpenBook(Nat) /\ e.points = m.points /\ e.receipts \in [DOMAIN orders -> Nat]
      /\ e.counter = m.counter + sold /\ e.liquidity = m.liquidity - got
  BY DEF ExecutedBook
<1>4. \A i \in DOMAIN orders : e.receipts[i] \in Nat
  BY <1>3
<1>5. /\ s \in OpenBook(Int) /\ s.points = opened.points
      /\ s.liquidity = opened.liquidity + sold /\ s.counter = opened.counter - got
  <2>. HIDE DEF opened
  <2>. QED BY <1>2, <1>4, SettleKeeps
<1>. HIDE DEF s, opened, sold, got
<1>6. s.counter = e.liquidity /\ s.points = e.points
  BY <1>2, <1>3, <1>5
<1>7. s \in OpenBook(Nat)
  BY <1>3, <1>5, <1>6 DEF OpenBook
<1>8. m.counter = b.liquidity => s.liquidity = e.counter
  BY <1>2, <1>3, <1>5
<1>. QED BY <1>6, <1>7, <1>8 DEF Facing, FacingBack, s, opened

\* The withdrawals of a batch, on both chains.
LEMMA MirrorWithdraw ==
  ASSUME NEW s, NEW e \in OpenBook(Nat), Facing(s, e), NEW withdrawals \in Seq(Withdrawal)
  PROVE  /\ Facing(WithdrawAll(s, withdrawals), WithdrawAll(e, withdrawals))
         /\ FacingBack(s, e) => FacingBack(WithdrawAll(s, withdrawals), WithdrawAll(e, withdrawals))
<1>. DEFINE p == WithdrawAll(s, withdrawals)
            q == WithdrawAll(e, withdrawals)
            none == Requested(e.points, withdrawals) = 0 \/ TotalPoints(e.points) = 0
<1>1. s \in OpenBook(Nat) /\ s.points = e.points /\ s.counter = e.liquidity
  BY DEF Facing
<1>2. p \in OpenBook(Nat)
  BY <1>1, WithdrawKeeps
<1>3. CASE none
  <2>1. p = s /\ q = e
    BY <1>1, <1>3, WithdrawAs
  <2>. HIDE DEF p, q
  <2>2. Facing(p, q) /\ (FacingBack(s, e) => FacingBack(p, q))
    BY <1>1, <2>1 DEF Facing
  <2>. QED BY <2>2 DEF p, q
<1>4. CASE ~none
  <2>. DEFINE paid(pool) == PaidOut(pool, e.points, withdrawals)
              left == Remaining(e.points, withdrawals)[Len(withdrawals)]
  <2>1. /\ p = [account |-> s.account + paid(s.liquidity), holding |-> s.holding,
                liquidity |-> s.liquidity - paid(s.liquidity), points |-> left,
                counter |-> s.counter - paid(s.counter), receipts |-> s.receipts]
        /\ q = [account |-> e.account + paid(e.liquidity), holding |-> e.holding,
                liquidity |-> e.liquidity - paid(e.liquidity), points |-> left,
                counter |-> e.counter - paid(e.counter), receipts |-> e.receipts]
    BY <1>1, <1>4, WithdrawAs
  <2>. HIDE DEF p, q, paid, left
  <2>2. /\ p.points = q.points /\ p.counter = s.counter - paid(s.counter)
        /\ q.liquidity = e.liquidity - paid(e.liquidity)
        /\ p.liquidity = s.liquidity - paid(s.liquidity)
        /\ q.counter = e.counter - paid(e.counter)
    BY <2>1
  <2>3. Facing(p, q) /\ (FacingBack(s, e) => FacingBack(p, q))
    BY <1>1, <1>2, <2>2 DEF Facing, FacingBack
  <2>. QED BY <2>3 DEF p, q
<1>. QED BY <1>3, <1>4

\* The deposits of a batch, on both chains.
LEMMA DepositBoth ==
  ASSUME NEW books \in OpenBook(Nat), NEW deposits
  PROVE  LET amount == Put(deposits)
             none == amount = 0 \/ books.liquidity = 0 \/ books.counter = 0
         IN /\ none => /\ DepositAll(books, deposits, TRUE) = books
                       /\ DepositAll(books, deposits, FALSE) = books
            /\ ~none =>
                 /\ DepositAll(books, deposits, TRUE)
                      = [account |-> books.account, holding |-> books.holding - amount,
                         liquidity |-> books.liquidity + amount,
                         points |-> PointsAfter(books.points, deposits, books.liquidity,
                                                books.counter),
                         counter |-> books.counter, receipts |-> books.receipts]
                 /\ DepositAll(books, deposits, FALSE)
                      = [account |-> books.account, holding |-> books.holding,
                         liquidity |-> books.liquidity,
                         points |-> PointsAfter(books.points, deposits, books.counter,
                                                books.liquidity),
                         counter |-> books.counter + amount, receipts |-> books.receipts]
<1>. DEFINE amount == Put(deposits)
            none == amount = 0 \/ books.liquidity = 0 \/ books.counter = 0
            here == DepositAll(books, deposits, TRUE)
            there == DepositAll(books, deposits, FALSE)
            x == PointsAfter(books.points, deposits, books.liquidity, books.counter)
            y == PointsAfter(books.points, deposits, books.counter, books.liquidity)
<1>1. here = IF amount = 0 \/ books.liquidity = 0 \/ books.counter = 0 THEN books
             ELSE [books EXCEPT !.points = x, !.liquidity = @ + amount, !.holding = @ - amount]
  BY DEF DepositAll
<1>2. there = IF amount = 0 \/ books.counter = 0 \/ books.liquidity = 0 THEN books
              ELSE [books EXCEPT !.points = y, !.counter = @ + amount]
  BY DEF DepositAll
<1>. HIDE DEF here, there, x, y, amount
<1>3. CASE none
  BY <1>1, <1>2, <1>3 DEF here, there, amount
<1>4. CASE ~none
  <2>1. here = [account |-> books.account, holding |-> books.holding - amount,
                liquidity |-> books.liquidity + amount, points |-> x,
                counter |-> books.counter, receipts |-> books.receipts]
    BY <1>1, <1>4 DEF OpenBook
  <2>2. there = [account |-> books.account, holding |-> books.holding,
                 liquidity |-> books.liquidity, points |-> y,
                 counter |-> books.counter + amount, receipts |-> books.receipts]
    BY <1>2, <1>4 DEF OpenBook
  <2>. QED BY <1>4, <2>1, <2>2 DEF here, there, x, y, amount
<1>. QED BY <1>3, <1>4

\* When the pools face each other the deposits mint the same points on both chains.
LEMMA MirrorDeposit ==
  ASSUME NEW s, NEW e \in OpenBook(Nat), Facing(s, e), NEW deposits \in Seq(Deposit),
         Put(deposits) = 0 \/ FacingBack(s, e)
  PROVE  /\ Facing(DepositAll(s, deposits, TRUE), DepositAll(e, deposits, FALSE))
         /\ FacingBack(s, e)
              => FacingBack(DepositAll(s, deposits, TRUE), DepositAll(e, deposits, FALSE))
<1>. DEFINE p == DepositAll(s, deposits, TRUE)
            q == DepositAll(e, deposits, FALSE)
            amount == Put(deposits)
            none == amount = 0 \/ e.counter = 0 \/ e.liquidity = 0
<1>1. s \in OpenBook(Nat) /\ s.points = e.points /\ s.counter = e.liquidity
  BY DEF Facing
<1>2. p \in OpenBook(Nat)
  BY <1>1, DepositKeeps
<1>4. CASE amount = 0 \/ (FacingBack(s, e) /\ none)
  <2>1. amount = 0 \/ s.liquidity = 0 \/ s.counter = 0
    BY <1>1, <1>4 DEF FacingBack
  <2>2. p = s
    BY <1>1, <2>1, DepositBoth
  <2>3. q = e
    BY <1>4, DepositBoth
  <2>. HIDE DEF p, q
  <2>4. Facing(p, q) /\ (FacingBack(s, e) => FacingBack(p, q))
    BY <1>1, <2>2, <2>3 DEF Facing
  <2>. QED BY <2>4 DEF p, q
<1>5. CASE FacingBack(s, e) /\ ~none
  <2>1. s.liquidity = e.counter
    BY <1>5 DEF FacingBack
  <2>. DEFINE points == PointsAfter(e.points, deposits, e.counter, e.liquidity)
  <2>2. p = [account |-> s.account, holding |-> s.holding - amount,
             liquidity |-> s.liquidity + amount, points |-> points,
             counter |-> s.counter, receipts |-> s.receipts]
    BY <1>1, <1>5, <2>1, DepositBoth
  <2>3. q = [account |-> e.account, holding |-> e.holding,
             liquidity |-> e.liquidity, points |-> points,
             counter |-> e.counter + amount, receipts |-> e.receipts]
    BY <1>5, DepositBoth
  <2>. HIDE DEF p, q, points, amount
  <2>4. /\ p.points = q.points /\ p.counter = s.counter /\ q.liquidity = e.liquidity
        /\ p.liquidity = s.liquidity + amount /\ q.counter = e.counter + amount
    BY <2>2, <2>3
  <2>5. Facing(p, q) /\ FacingBack(p, q)
    BY <1>1, <1>2, <2>1, <2>4 DEF Facing, FacingBack
  <2>. QED BY <2>5 DEF p, q
<1>. QED BY <1>4, <1>5

\* What the chain of a batch makes of it, when it gets the answer, is what the other
\* chain made of it.
LEMMA MirrorBatch ==
  ASSUME NEW m \in OpenBook(Nat), m.counter > 0, NEW own \in Batch,
         NEW ordering \in Orderings(own.ops), NEW b \in Book, b.points = m.points,
         own.ops.deposits = <<>> \/ m.counter = b.liquidity,
         NEW remote, remote.poolSize = m.liquidity,
         remote.receipts = Executed(m, own.ops, ordering).receipts
  PROVE  /\ Facing(Settled(b, own, remote), Executed(m, own.ops, ordering))
         /\ m.counter = b.liquidity
              => FacingBack(Settled(b, own, remote), Executed(m, own.ops, ordering))
<1>. DEFINE ops == own.ops
            e == ExecuteOrders(m, ops.orders, ordering)
            shared == WithdrawAll(e, ops.withdrawals)
            s == SettleOrders(Opened(b, m.liquidity), ops.orders, e.receipts)
            withdrawn == WithdrawAll(s, ops.withdrawals)
<1>1. /\ ops \in Ops /\ ops.orders \in Seq(Order) /\ ops.deposits \in Seq(Deposit)
      /\ ops.withdrawals \in Seq(Withdrawal)
  BY DEF Batch, Ops
<1>. HIDE DEF ops
<1>2. /\ ExecutedBook(m, ops.orders, DOMAIN ops.orders, e)
      /\ shared \in OpenBook(Nat)
      /\ Executed(m, ops, ordering).receipts = e.receipts
  BY <1>1, ExecutedKeeps DEF ops
<1>3. e \in OpenBook(Nat)
  BY <1>2 DEF ExecutedBook
<1>. HIDE DEF e
<1>4. Facing(s, e) /\ (m.counter = b.liquidity => FacingBack(s, e))
  BY <1>1, <1>2, MirrorOrders
<1>5. Traded(b, own, remote) = s
  BY <1>2 DEF Traded, ops
<1>. HIDE DEF s
<1>6. Facing(withdrawn, shared) /\ (m.counter = b.liquidity => FacingBack(withdrawn, shared))
  BY <1>1, <1>3, <1>4, MirrorWithdraw
<1>7. /\ Settled(b, own, remote) = DepositAll(withdrawn, ops.deposits, TRUE)
      /\ Executed(m, ops, ordering) = DepositAll(shared, ops.deposits, FALSE)
  BY <1>5 DEF Settled, Executed, e, ops
<1>8. Put(ops.deposits) = 0 \/ m.counter = b.liquidity
  <2>1. ASSUME ops.deposits = <<>> PROVE Put(ops.deposits) = 0
    <3>1. DOMAIN <<>> = {}
      OBVIOUS
    <3>. QED BY <2>1, <3>1, SumEmpty DEF Put
  <2>. QED BY <2>1 DEF ops
<1>. HIDE DEF withdrawn, shared
<1>9. /\ Facing(Settled(b, own, remote), Executed(m, ops, ordering))
      /\ m.counter = b.liquidity
           => FacingBack(Settled(b, own, remote), Executed(m, ops, ordering))
  BY <1>1, <1>2, <1>6, <1>7, <1>8, MirrorDeposit
<1>. QED BY <1>9 DEF ops

-----------------------------------------------------------------------------
(***************************************************************************)
(* The alternation of the batches.  Either the nested chain has answered   *)
(* the batch of the root chain, or the root chain is one ahead; what the   *)
(* root chain may still read of older batches lifts no lock.               *)
(***************************************************************************)
\* The nested chain is at its batch with this number when the first of its batches
\* that may still be read has the number j.
Latest(j) == j + Len(outbox["nested"]) - 1 + (IF fresh["nested"] THEN 1 ELSE 0)

\* Nothing was locked yet.
NotStarted ==
  /\ fallbacks = 0
  /\ ledger["root"].points = ledger["nested"].points
  /\ \A c \in Chain :
       /\ locked[c] = NoBatch(InitialLiquidity[c]) /\ ~fresh[c] /\ serial[c] = 0
       /\ ledger[c].liquidity = InitialLiquidity[c]
       /\ outbox[c] = <<Published(locked[c], ledger[c].points)>>

\* The batches are numbered without a gap, and the latest was published when its
\* block ended.
InSequence(j, m) ==
  /\ \A c \in Chain : serial[c] = locked[c].id
  /\ Len(outbox["nested"]) >= 1
  /\ locked["nested"].id = Num(Latest(j)) /\ locked["root"].id = Num(m)
  /\ \A i \in DOMAIN outbox["nested"] : outbox["nested"][i].batch.id = Num(j + i - 1)
  /\ ~fresh["nested"] =>
       outbox["nested"][Len(outbox["nested"])]
         = Published(locked["nested"], ledger["nested"].points)

\* The nested chain has answered the batch m of the root chain, which answers the
\* first of the nested batches that may still be read.
NestedAhead(j, m) ==
  /\ Latest(j) - j \in 1 .. fallbacks + 1
  /\ locked["nested"].answers = Num(m)
  /\ ~fresh["root"]
  /\ outbox["root"] = <<Published(locked["root"], ledger["root"].points)>>
  /\ m = 0 => IsEmpty(locked["root"])
  /\ m > 0 => locked["root"].answers = Num(j)
  /\ \E t \in DOMAIN outbox["nested"] :
       \A i \in DOMAIN outbox["nested"] :
         /\ i <= t => \/ IsEmpty(outbox["nested"][i].batch)
                      \/ m > 0 /\ outbox["nested"][i].batch.answers = Num(m - 1)
         /\ i > t => outbox["nested"][i].batch.answers = Num(m)

\* The root chain has locked its batch m, and the nested one still answers the batch
\* before.
RootAhead(j, m) ==
  /\ m > 0
  /\ Latest(j) - j \in 0 .. fallbacks
  /\ locked["root"].answers = Num(j)
  /\ locked["nested"].answers = Num(m - 1)
  /\ \A i \in DOMAIN outbox["nested"] : outbox["nested"][i].batch.answers = Num(m - 1)
  /\ fresh["root"] => Len(outbox["root"]) = 1
  /\ ~fresh["root"] => /\ Len(outbox["root"]) = 2
                       /\ outbox["root"][2] = Published(locked["root"], ledger["root"].points)
  /\ outbox["root"][1].batch.id = Num(m - 1)
  /\ \/ IsEmpty(outbox["root"][1].batch)
     \/ \E a \in Nat : /\ outbox["root"][1].batch.answers = Num(a)
                       /\ Latest(j) - a \in 1 .. fallbacks + 1

Alternating ==
  /\ fallbacks \in 0 .. FallbackMax
  /\ \/ NotStarted
     \/ \E j \in Nat, m \in Nat : InSequence(j, m) /\ (NestedAhead(j, m) \/ RootAhead(j, m))

\* The number of a batch is a number.
LEMMA NumNat ==
  ASSUME NEW k \in Nat
  PROVE  Num(k) \in Nat /\ Num(k) # NULL
<1>1. Num(k) \in Nat
  BY NumNext
<1>. QED BY <1>1, ExchangeAssumption

\* A batch that answers one is not empty.
LEMMA NotEmpty ==
  ASSUME NEW batch, NEW k \in Nat, batch.answers = Num(k)
  PROVE  ~IsEmpty(batch)
BY NumNat DEF IsEmpty

\* A number says which batch it is, among batches less than Serial apart.
LEMMA SameNum ==
  ASSUME NEW a \in Nat, NEW b \in Nat, Num(a) = Num(b),
         b - a < Serial, a - b < Serial
  PROVE  a = b
<1>1. CASE a < b
  BY <1>1, NumDiffer
<1>2. CASE b < a
  BY <1>2, NumDiffer
<1>. QED BY <1>1, <1>2

\* The numbers of the batches of the nested chain that may still be read.
LEMMA LatestNat ==
  ASSUME ExchangeTypes, NEW j \in Nat, Len(outbox["nested"]) >= 1
  PROVE  /\ Latest(j) \in Nat /\ Latest(j) >= j
         /\ DOMAIN outbox["nested"] = 1 .. Len(outbox["nested"]) /\ Len(outbox["nested"]) \in Nat
         /\ fresh["nested"] => Latest(j) = j + Len(outbox["nested"])
         /\ ~fresh["nested"] => Latest(j) = j + Len(outbox["nested"]) - 1
<1>1. outbox["nested"] \in Seq(Mail)
  BY ChainFacts DEF ExchangeTypes
<1>2. Len(outbox["nested"]) \in Nat /\ DOMAIN outbox["nested"] = 1 .. Len(outbox["nested"])
  BY <1>1, SeqDomain
<1>. DEFINE l == Len(outbox["nested"])
<1>3. CASE fresh["nested"]
  <2>1. Latest(j) = j + l - 1 + 1
    BY <1>3 DEF Latest
  <2>. HIDE DEF l
  <2>2. l \in Nat /\ l >= 1
    BY <1>2 DEF l
  <2>3. Latest(j) = j + l /\ Latest(j) \in Nat /\ Latest(j) >= j
    BY <2>1, <2>2
  <2>. QED BY <1>2, <1>3, <2>3 DEF l
<1>4. CASE ~fresh["nested"]
  <2>1. Latest(j) = j + l - 1 + 0
    BY <1>4 DEF Latest
  <2>. HIDE DEF l
  <2>2. l \in Nat /\ l >= 1
    BY <1>2 DEF l
  <2>3. Latest(j) = j + l - 1 /\ Latest(j) \in Nat /\ Latest(j) >= j
    BY <2>1, <2>2
  <2>. QED BY <1>2, <1>4, <2>3 DEF l
<1>. QED BY <1>3, <1>4

\* What the proofs of the properties use of it.
\* A batch in the outbox with the number of the locked one is the locked one.
Current ==
  \A c \in Chain : \A i \in DOMAIN outbox[c] :
    outbox[c][i].batch.id = locked[c].id
      => outbox[c][i] = Published(locked[c], ledger[c].points)
\* A batch of the block that is still open has no answer, nor have both chains one.
Unanswered ==
  \A c \in Chain : fresh[c] => locked[Other(c)].answers # locked[c].id
OneAhead ==
  ~ \A c \in Chain : locked[Other(c)].answers = locked[c].id
\* The nested chain was the first.
FirstAnswer ==
  \A c \in Chain : IsEmpty(locked[c]) /\ ~IsEmpty(locked[Other(c)])
                     => locked[Other(c)].answers = locked[c].id
\* Without a fallback only the latest batch answers.
LatestAnswers ==
  fallbacks = 0 =>
    \A c \in Chain : \A i \in DOMAIN outbox[Other(c)] :
      LET remote == outbox[Other(c)][i].batch IN
      ~IsEmpty(remote) /\ (IsEmpty(locked[c]) \/ remote.answers = locked[c].id)
        => remote.id = locked[Other(c)].id
FlowFacts == Current /\ Unanswered /\ OneAhead /\ FirstAnswer /\ LatestAnswers

\* The facts while nothing was locked,
LEMMA NotStartedFacts ==
  ASSUME ExchangeTypes, NotStarted
  PROVE  FlowFacts
<1>1. \A c \in Chain : /\ IsEmpty(locked[c]) /\ locked[c].answers = NULL /\ locked[c].id = 0
                       /\ locked[c].id # NULL /\ ~fresh[c]
                       /\ outbox[c] = <<Published(locked[c], ledger[c].points)>>
  <2>1. ASSUME NEW c \in Chain
        PROVE  /\ locked[c].answers = NULL /\ locked[c].receipts = <<>>
               /\ locked[c].ops = NoOps /\ locked[c].id = 0
    <3>1. locked[c] = NoBatch(InitialLiquidity[c])
      BY DEF NotStarted
    <3>. QED BY <3>1 DEF NoBatch
  <2>2. 0 # NULL
    BY ExchangeAssumption
  <2>. QED BY <2>1, <2>2 DEF NotStarted, IsEmpty
<1>2. \A c \in Chain : Other(c) \in Chain
  BY ChainFacts
<1>3. \A c \in Chain : \A i \in DOMAIN outbox[c] :
        /\ outbox[c][i] = Published(locked[c], ledger[c].points)
        /\ outbox[c][i].batch = locked[c]
  BY <1>1 DEF Published
<1>4. Current /\ Unanswered /\ FirstAnswer /\ LatestAnswers
  BY <1>1, <1>2, <1>3 DEF Current, Unanswered, FirstAnswer, LatestAnswers
<1>5. OneAhead
  <2>1. "root" \in Chain
    BY ChainFacts
  <2>. QED BY <1>1, <1>2, <2>1 DEF OneAhead
<1>. QED BY <1>4, <1>5 DEF FlowFacts

\* while the nested chain is ahead,
LEMMA NestedAheadFacts ==
  ASSUME ExchangeTypes, fallbacks \in 0 .. FallbackMax, NEW j \in Nat, NEW m \in Nat,
         InSequence(j, m), NestedAhead(j, m)
  PROVE  FlowFacts
<1>. DEFINE N == locked["nested"]
            R == locked["root"]
            box == outbox["nested"]
            k == Latest(j)
            l == Len(box)
<1>1. Chain = {"root", "nested"} /\ Other("root") = "nested" /\ Other("nested") = "root"
  BY DEF Chain, Other
<1>2. /\ k \in Nat /\ k >= j /\ DOMAIN box = 1 .. l /\ l \in Nat /\ l >= 1
      /\ fresh["nested"] => k = j + l
      /\ ~fresh["nested"] => k = j + l - 1
  BY LatestNat DEF InSequence
<1>3. /\ N.id = Num(k) /\ R.id = Num(m)
      /\ \A i \in DOMAIN box : box[i].batch.id = Num(j + i - 1)
      /\ ~fresh["nested"] => box[l] = Published(N, ledger["nested"].points)
  BY DEF InSequence
<1>4. /\ k - j \in 1 .. fallbacks + 1
      /\ N.answers = Num(m) /\ ~fresh["root"]
      /\ outbox["root"] = <<Published(R, ledger["root"].points)>>
      /\ m = 0 => IsEmpty(R)
      /\ m > 0 => R.answers = Num(j)
  BY DEF NestedAhead
<1>5. PICK t \in DOMAIN box :
        \A i \in DOMAIN box :
          /\ i <= t => \/ IsEmpty(box[i].batch)
                       \/ m > 0 /\ box[i].batch.answers = Num(m - 1)
          /\ i > t => box[i].batch.answers = Num(m)
  BY DEF NestedAhead
<1>. HIDE DEF N, R, box, k, l
<1>6. fallbacks \in Nat /\ Serial \in Nat /\ fallbacks + 1 < Serial /\ Serial > 1
  BY SerialFacts
<1>7. R.answers # N.id
  <2>1. CASE m = 0
    BY <1>2, <1>3, <1>4, <2>1, NumNat DEF IsEmpty
  <2>2. CASE m > 0
    <3>0. j < k /\ k - j < Serial
      BY <1>2, <1>4, <1>6
    <3>1. Num(j) # Num(k)
      BY <1>2, <3>0, NumDiffer
    <3>. QED BY <1>3, <1>4, <2>2, <3>1
  <2>. QED BY <2>1, <2>2
<1>8. ~IsEmpty(N)
  BY <1>4, NotEmpty
<1>9. ASSUME NEW i \in DOMAIN box, box[i].batch.id = N.id
      PROVE  ~fresh["nested"] /\ i = l
  <2>1. i \in 1 .. l /\ j + i - 1 \in Nat
    BY <1>2
  <2>2. Num(j + i - 1) = Num(k)
    BY <1>3, <1>9
  <2>3. k - (j + i - 1) < Serial /\ (j + i - 1) - k < Serial
    <3>1. k - j < Serial
      BY <1>2, <1>4, <1>6
    <3>2. i >= 1 /\ j + i - 1 <= k
      BY <1>2, <2>1
    <3>. QED BY <1>2, <1>6, <2>1, <3>1, <3>2
  <2>4. j + i - 1 = k
    BY <1>2, <2>1, <2>2, <2>3, SameNum
  <2>. QED BY <1>2, <2>1, <2>4
<1>10. Current
  <2>1. ASSUME NEW i \in DOMAIN outbox["root"]
        PROVE  outbox["root"][i] = Published(R, ledger["root"].points)
    BY <1>4
  <2>2. ASSUME NEW i \in DOMAIN box, box[i].batch.id = N.id
        PROVE  box[i] = Published(N, ledger["nested"].points)
    BY <1>3, <1>9, <2>2
  <2>. QED BY <1>1, <2>1, <2>2 DEF Current, N, R, box
<1>11. Unanswered
  BY <1>1, <1>4, <1>7 DEF Unanswered, N, R
<1>12. OneAhead
  BY <1>1, <1>7 DEF OneAhead, N, R
<1>13. FirstAnswer
  <2>1. ASSUME IsEmpty(R) PROVE N.answers = R.id
    BY <1>3, <1>4
  <2>. QED BY <1>1, <1>8, <2>1 DEF FirstAnswer, N, R
<1>14. ASSUME fallbacks = 0, NEW i \in DOMAIN box, ~IsEmpty(box[i].batch),
              IsEmpty(R) \/ box[i].batch.answers = R.id
       PROVE  box[i].batch.id = N.id
  <2>1. i > t
    <3>1. CASE m = 0
      BY <1>2, <1>5, <1>14, <3>1
    <3>2. CASE m > 0
      <4>1. ~IsEmpty(R)
        BY <1>4, <3>2, NotEmpty
      <4>2. Num(m - 1) # Num(m)
        BY <1>6, <3>2, NumDiffer
      <4>. QED BY <1>2, <1>3, <1>5, <1>14, <4>1, <4>2
    <3>. QED BY <3>1, <3>2
  <2>2. k = j + 1
    BY <1>2, <1>4, <1>14
  <2>3. j + i - 1 = k
    BY <1>2, <2>1, <2>2
  <2>. QED BY <1>3, <2>3
<1>15. LatestAnswers
  <2>1. ASSUME NEW i \in DOMAIN outbox["root"]
        PROVE  outbox["root"][i].batch.id = R.id
    BY <1>4 DEF Published
  <2>. QED BY <1>1, <1>14, <2>1 DEF LatestAnswers, N, R, box
<1>. QED BY <1>10, <1>11, <1>12, <1>13, <1>15 DEF FlowFacts

\* and while the root chain is ahead.
LEMMA RootAheadFacts ==
  ASSUME ExchangeTypes, fallbacks \in 0 .. FallbackMax, NEW j \in Nat, NEW m \in Nat,
         InSequence(j, m), RootAhead(j, m)
  PROVE  FlowFacts
<1>. DEFINE N == locked["nested"]
            R == locked["root"]
            box == outbox["nested"]
            mail == outbox["root"]
            k == Latest(j)
            l == Len(box)
<1>1. Chain = {"root", "nested"} /\ Other("root") = "nested" /\ Other("nested") = "root"
  BY DEF Chain, Other
<1>2. /\ k \in Nat /\ k >= j /\ DOMAIN box = 1 .. l /\ l \in Nat /\ l >= 1
      /\ fresh["nested"] => k = j + l
      /\ ~fresh["nested"] => k = j + l - 1
  BY LatestNat DEF InSequence
<1>3. /\ N.id = Num(k) /\ R.id = Num(m)
      /\ \A i \in DOMAIN box : box[i].batch.id = Num(j + i - 1)
      /\ ~fresh["nested"] => box[l] = Published(N, ledger["nested"].points)
  BY DEF InSequence
<1>4. /\ m > 0 /\ k - j \in 0 .. fallbacks
      /\ R.answers = Num(j) /\ N.answers = Num(m - 1)
      /\ \A i \in DOMAIN box : box[i].batch.answers = Num(m - 1)
      /\ fresh["root"] => Len(mail) = 1
      /\ ~fresh["root"] => Len(mail) = 2 /\ mail[2] = Published(R, ledger["root"].points)
      /\ mail[1].batch.id = Num(m - 1)
      /\ \/ IsEmpty(mail[1].batch)
         \/ \E a \in Nat : mail[1].batch.answers = Num(a) /\ k - a \in 1 .. fallbacks + 1
  BY DEF RootAhead
<1>5. DOMAIN mail = 1 .. Len(mail)
  <2>1. mail \in Seq(Mail)
    BY ChainFacts DEF ExchangeTypes
  <2>. QED BY <2>1, SeqDomain
<1>. HIDE DEF N, R, box, mail, k, l
<1>6. fallbacks \in Nat /\ Serial \in Nat /\ fallbacks + 1 < Serial /\ Serial > 1
  BY SerialFacts
<1>7. m - 1 \in Nat /\ Num(m - 1) # Num(m)
  BY <1>4, <1>6, NumDiffer
<1>8. ~IsEmpty(N) /\ ~IsEmpty(R)
  BY <1>4, <1>7, NotEmpty
<1>9. ASSUME NEW i \in DOMAIN box, box[i].batch.id = N.id
      PROVE  ~fresh["nested"] /\ i = l
  <2>1. i \in 1 .. l /\ j + i - 1 \in Nat
    BY <1>2
  <2>2. Num(j + i - 1) = Num(k)
    BY <1>3, <1>9
  <2>3. k - (j + i - 1) < Serial /\ (j + i - 1) - k < Serial
    <3>1. k - j < Serial
      BY <1>2, <1>4, <1>6
    <3>2. i >= 1 /\ j + i - 1 <= k
      BY <1>2, <2>1
    <3>. QED BY <1>2, <1>6, <2>1, <3>1, <3>2
  <2>4. j + i - 1 = k
    BY <1>2, <2>1, <2>2, <2>3, SameNum
  <2>. QED BY <1>2, <2>1, <2>4
<1>10. ASSUME NEW i \in DOMAIN mail
       PROVE  \/ mail[i].batch.id # R.id /\ i = 1
              \/ i = 2 /\ mail[i] = Published(R, ledger["root"].points)
  BY <1>3, <1>4, <1>5, <1>7
<1>11. Current
  <2>1. ASSUME NEW i \in DOMAIN mail, mail[i].batch.id = R.id
        PROVE  mail[i] = Published(R, ledger["root"].points)
    BY <1>10, <2>1
  <2>2. ASSUME NEW i \in DOMAIN box, box[i].batch.id = N.id
        PROVE  box[i] = Published(N, ledger["nested"].points)
    BY <1>3, <1>9, <2>2
  <2>. QED BY <1>1, <2>1, <2>2 DEF Current, N, R, box, mail
<1>12. N.answers # R.id
  BY <1>3, <1>4, <1>7
<1>13. Unanswered
  <2>1. ASSUME fresh["nested"] PROVE R.answers # N.id
    <3>1. j < k /\ k - j < Serial
      BY <1>2, <1>4, <1>6, <2>1
    <3>2. Num(j) # Num(k)
      BY <1>2, <3>1, NumDiffer
    <3>. QED BY <1>3, <1>4, <3>2
  <2>. QED BY <1>1, <1>12, <2>1 DEF Unanswered, N, R
<1>14. OneAhead
  BY <1>1, <1>12 DEF OneAhead, N, R
<1>15. FirstAnswer
  BY <1>1, <1>8 DEF FirstAnswer, N, R
<1>16. ASSUME fallbacks = 0, NEW i \in DOMAIN mail, ~IsEmpty(mail[i].batch),
              mail[i].batch.answers = N.id
       PROVE  mail[i].batch.id = R.id
  <2>1. CASE i = 1
    <3>1. PICK a \in Nat : mail[1].batch.answers = Num(a) /\ k - a \in 1 .. fallbacks + 1
      BY <1>4, <1>16, <2>1
    <3>2. a < k /\ k - a < Serial
      BY <1>2, <1>6, <3>1
    <3>3. Num(a) # Num(k)
      BY <1>2, <3>2, NumDiffer
    <3>. QED BY <1>3, <1>16, <2>1, <3>1, <3>3
  <2>2. CASE i = 2 /\ mail[i] = Published(R, ledger["root"].points)
    BY <2>2 DEF Published
  <2>. QED BY <1>10, <2>1, <2>2
<1>17. LatestAnswers
  <2>1. ASSUME NEW i \in DOMAIN box PROVE box[i].batch.answers # R.id
    BY <1>3, <1>4, <1>7
  <2>. QED BY <1>1, <1>8, <1>16, <2>1 DEF LatestAnswers, N, R, box, mail
<1>. QED BY <1>11, <1>13, <1>14, <1>15, <1>17 DEF FlowFacts

\* The facts follow from the alternation.
LEMMA AlternatingFacts ==
  ASSUME ExchangeTypes, Alternating
  PROVE  FlowFacts
BY NotStartedFacts, NestedAheadFacts, RootAheadFacts DEF Alternating

\* An operation of a user leaves the pools and the batches alone.
SameFlow ==
  /\ UNCHANGED <<locked, fresh, serial, outbox, fallbacks>>
  /\ \A c \in Chain : /\ ledger'[c].points = ledger[c].points
                      /\ ledger'[c].liquidity = ledger[c].liquidity

\* An operation of a user is such a step.
LEMMA PlacesSameFlow ==
  ASSUME ExchangeTypes,
         \/ \E o \in Order : PlaceOrder(o)
         \/ \E d \in Deposit : PlaceDeposit(d)
         \/ \E w \in Withdrawal : PlaceWithdrawal(w)
  PROVE  SameFlow
<1>1. ASSUME NEW c \in Chain, NEW amount \in Nat, ledger[c].account >= amount,
             ledger' = [ledger EXCEPT ![c] = Escrowed(@, amount)],
             UNCHANGED <<locked, fresh, serial, outbox, fallbacks>>
      PROVE  SameFlow
  <2>. DEFINE b == Escrowed(ledger[c], amount)
  <2>1. ledger[c] \in Book
    BY DEF ExchangeTypes
  <2>2. b.points = ledger[c].points /\ b.liquidity = ledger[c].liquidity
    BY <1>1, <2>1, EscrowedBook
  <2>3. ledger' = [ledger EXCEPT ![c] = b]
    BY <1>1
  <2>. HIDE DEF b
  <2>4. \A x \in Chain : ledger'[x] = IF x = c THEN b ELSE ledger[x]
    BY <2>3 DEF ExchangeTypes
  <2>. QED BY <1>1, <2>2, <2>4 DEF SameFlow
<1>2. ASSUME NEW o \in Order, PlaceOrder(o) PROVE SameFlow
  <2>1. o.chain \in Chain /\ o.sale \in Nat
    BY ExchangeAssumption
  <2>. QED BY <1>1, <1>2, <2>1 DEF PlaceOrder
<1>3. ASSUME NEW d \in Deposit, PlaceDeposit(d) PROVE SameFlow
  <2>1. d.chain \in Chain /\ d.amount \in Nat
    BY ExchangeAssumption
  <2>. QED BY <1>1, <1>3, <2>1 DEF PlaceDeposit
<1>4. ASSUME NEW w \in Withdrawal, PlaceWithdrawal(w) PROVE SameFlow
  BY <1>4 DEF PlaceWithdrawal, SameFlow
<1>. QED BY <1>2, <1>3, <1>4

\* It keeps the alternation.
LEMMA AlternatingPlace ==
  ASSUME ExchangeTypes, Alternating, SameFlow
  PROVE  Alternating'
<1>1. /\ locked' = locked /\ fresh' = fresh /\ serial' = serial /\ outbox' = outbox
      /\ fallbacks' = fallbacks
      /\ \A c \in Chain : /\ ledger'[c].points = ledger[c].points
                          /\ ledger'[c].liquidity = ledger[c].liquidity
      /\ "root" \in Chain /\ "nested" \in Chain
  BY ChainFacts DEF SameFlow
<1>2. NotStarted => NotStarted'
  BY <1>1 DEF NotStarted
<1>3. ASSUME NEW j \in Nat, NEW m \in Nat
      PROVE  /\ InSequence(j, m) => InSequence(j, m)'
             /\ NestedAhead(j, m) => NestedAhead(j, m)'
             /\ RootAhead(j, m) => RootAhead(j, m)'
  <2>1. Latest(j)' = Latest(j)
    BY <1>1 DEF Latest
  <2>2. InSequence(j, m) => InSequence(j, m)'
    BY <1>1, <2>1 DEF InSequence
  <2>3. NestedAhead(j, m) => NestedAhead(j, m)'
    BY <1>1, <2>1 DEF NestedAhead
  <2>4. RootAhead(j, m) => RootAhead(j, m)'
    BY <1>1, <2>1 DEF RootAhead
  <2>. QED BY <2>2, <2>3, <2>4
<1>. QED BY <1>1, <1>2, <1>3 DEF Alternating

\* The end of a block of c.
Ends(c, batch) ==
  /\ fresh[c]
  /\ batch.id = locked[c].id /\ batch.answers = locked[c].answers
  /\ batch.receipts = locked[c].receipts /\ batch.poolSize = locked[c].poolSize
  /\ batch.counterPoolSize = locked[c].counterPoolSize
  /\ batch.ops = Included(locked[c].ops, next[c])
  /\ locked' = [locked EXCEPT ![c] = batch]
  /\ outbox' = [outbox EXCEPT ![c] = Append(outbox[c], Published(batch, ledger[c].points))]
  /\ fresh' = [fresh EXCEPT ![c] = FALSE]
  /\ next' = [next EXCEPT ![c] = LeftOver(locked[c].ops, next[c])]
  /\ UNCHANGED <<ledger, serial, fallbacks, placed, outcome, payments>>

\* The end of a block is such a step.
LEMMA EndBlockEnds ==
  ASSUME ExchangeTypes, NEW c \in Chain, EndBlock(c)
  PROVE  \E batch : Ends(c, batch)
<1>. DEFINE L == locked[c]
            N == next[c]
            batch == [L EXCEPT !.ops = Included(@, N)]
<1>1. L \in Batch
  BY DEF ExchangeTypes
<1>2. /\ fresh[c]
      /\ locked' = [locked EXCEPT ![c] = batch]
      /\ outbox' = [outbox EXCEPT ![c] = Append(outbox[c], Published(batch, ledger[c].points))]
      /\ fresh' = [fresh EXCEPT ![c] = FALSE]
      /\ next' = [next EXCEPT ![c] = LeftOver(L.ops, N)]
      /\ UNCHANGED <<ledger, serial, fallbacks, placed, outcome, payments>>
  BY DEF EndBlock
<1>3. batch = [L EXCEPT !.ops = Included(L.ops, N)]
  OBVIOUS
<1>. HIDE DEF batch, N
<1>4. /\ batch.id = L.id /\ batch.answers = L.answers
      /\ batch.receipts = L.receipts /\ batch.poolSize = L.poolSize
      /\ batch.counterPoolSize = L.counterPoolSize
      /\ batch.ops = Included(L.ops, N)
  <2>. HIDE DEF L
  <2>. QED BY <1>1, <1>3 DEF Batch
<1>. HIDE DEF L
<1>5. Ends(c, batch)
  BY <1>2, <1>4 DEF Ends, L, N
<1>. QED BY <1>5

\* It keeps the alternation.
LEMMA AlternatingEnd ==
  ASSUME ExchangeTypes, Alternating, NEW c \in Chain, NEW batch, Ends(c, batch)
  PROVE  Alternating'
<1>. DEFINE N == locked["nested"]
            R == locked["root"]
            box == outbox["nested"]
            mail == outbox["root"]
            l == Len(box)
<1>0. /\ Chain = {"root", "nested"} /\ "root" # "nested"
      /\ ledger' = ledger /\ serial' = serial /\ fallbacks' = fallbacks
      /\ batch.id = locked[c].id /\ batch.answers = locked[c].answers
      /\ fresh[c]
  BY ChainFacts DEF Ends
<1>1. PICK j \in Nat, m \in Nat : InSequence(j, m) /\ (NestedAhead(j, m) \/ RootAhead(j, m))
  BY <1>0 DEF Alternating, NotStarted
<1>2. /\ Latest(j) \in Nat /\ Latest(j) >= j /\ DOMAIN box = 1 .. l /\ l \in Nat /\ l >= 1
      /\ fresh["nested"] => Latest(j) = j + l
      /\ ~fresh["nested"] => Latest(j) = j + l - 1
  BY <1>1, LatestNat DEF InSequence
<1>3. box \in Seq(Mail) /\ mail \in Seq(Mail)
  BY <1>0 DEF ExchangeTypes
<1>4. InSequence(j, m)
  BY <1>1
<1>5. CASE c = "nested"
  <2>. DEFINE new == Published(batch, ledger["nested"].points)
              box1 == outbox'["nested"]
  <2>1. /\ locked'["nested"] = batch /\ locked'["root"] = R
        /\ ~fresh'["nested"] /\ fresh'["root"] = fresh["root"]
        /\ box1 = Append(box, new) /\ outbox'["root"] = mail
    BY <1>0, <1>5 DEF Ends, ExchangeTypes
  <2>2. /\ Len(box1) = l + 1 /\ DOMAIN box1 = 1 .. l + 1
        /\ \A i \in DOMAIN box : box1[i] = box[i]
        /\ box1[l + 1] = new /\ new.batch = batch
    <3>1. new.batch = batch
      BY DEF Published
    <3>. HIDE DEF new
    <3>2. DOMAIN Append(box, new) = 1 .. l + 1 /\ Len(Append(box, new)) = l + 1
      BY <1>3
    <3>3. \A i \in 1 .. l : Append(box, new)[i] = box[i]
      BY <1>3
    <3>4. Append(box, new)[l + 1] = new
      BY <1>3
    <3>. QED BY <1>2, <2>1, <3>1, <3>2, <3>3, <3>4
  <2>. HIDE DEF new, box1
  <2>3. Latest(j)' = Latest(j) /\ Latest(j) = j + l
    <3>1. Latest(j)' = j + (l + 1) - 1 + 0
      BY <2>1, <2>2 DEF Latest, box1
    <3>2. j + (l + 1) - 1 + 0 = j + l
      BY <1>2
    <3>. QED BY <1>0, <1>2, <1>5, <3>1, <3>2
  <2>4. ASSUME NEW i \in DOMAIN box1
        PROVE  \/ i \in DOMAIN box /\ box1[i] = box[i]
               \/ i = l + 1 /\ box1[i] = new /\ i \notin DOMAIN box
    BY <1>2, <2>2
  <2>5. InSequence(j, m)'
    <3>1. \A x \in Chain : serial'[x] = locked'[x].id
      BY <1>0, <1>4, <1>5, <2>1 DEF InSequence
    <3>2. locked'["nested"].id = Num(Latest(j)) /\ locked'["root"].id = Num(m)
      BY <1>0, <1>4, <1>5, <2>1 DEF InSequence
    <3>3. ASSUME NEW i \in DOMAIN box1 PROVE box1[i].batch.id = Num(j + i - 1)
      <4>1. CASE i \in DOMAIN box /\ box1[i] = box[i]
        BY <1>4, <4>1 DEF InSequence
      <4>2. CASE i = l + 1 /\ box1[i] = new
        <5>1. j + i - 1 = Latest(j)
          BY <1>2, <2>3, <4>2
        <5>. QED BY <2>1, <2>2, <3>2, <4>2, <5>1
      <4>. QED BY <2>4, <4>1, <4>2
    <3>4. Len(box1) >= 1
      BY <1>2, <2>2
    <3>5. box1[Len(box1)] = Published(locked'["nested"], ledger'["nested"].points)
      BY <1>0, <2>1, <2>2 DEF new
    <3>. QED BY <2>3, <3>1, <3>2, <3>3, <3>4, <3>5 DEF InSequence, box1
  <2>6. NestedAhead(j, m) => NestedAhead(j, m)'
    <3>. SUFFICES ASSUME NestedAhead(j, m) PROVE NestedAhead(j, m)'
      OBVIOUS
    <3>1. /\ Latest(j) - j \in 1 .. fallbacks + 1
          /\ N.answers = Num(m) /\ ~fresh["root"]
          /\ mail = <<Published(R, ledger["root"].points)>>
          /\ m = 0 => IsEmpty(R)
          /\ m > 0 => R.answers = Num(j)
      BY DEF NestedAhead
    <3>2. PICK t \in DOMAIN box :
            \A i \in DOMAIN box :
              /\ i <= t => \/ IsEmpty(box[i].batch)
                           \/ m > 0 /\ box[i].batch.answers = Num(m - 1)
              /\ i > t => box[i].batch.answers = Num(m)
      BY DEF NestedAhead
    <3>3. t \in DOMAIN box1 /\ t <= l
      BY <1>2, <2>2, <3>2
    <3>4. ASSUME NEW i \in DOMAIN box1
          PROVE  /\ i <= t => \/ IsEmpty(box1[i].batch)
                              \/ m > 0 /\ box1[i].batch.answers = Num(m - 1)
                 /\ i > t => box1[i].batch.answers = Num(m)
      <4>1. CASE i \in DOMAIN box /\ box1[i] = box[i]
        BY <3>2, <4>1
      <4>2. CASE i = l + 1 /\ box1[i] = new
        <5>1. ~(i <= t)
          BY <1>2, <3>3, <4>2
        <5>2. box1[i].batch.answers = Num(m)
          BY <1>0, <1>5, <2>2, <3>1, <4>2
        <5>. QED BY <5>1, <5>2
      <4>. QED BY <2>4, <4>1, <4>2
    <3>. QED BY <1>0, <1>5, <2>1, <2>3, <3>1, <3>3, <3>4 DEF NestedAhead, box1
  <2>7. RootAhead(j, m) => RootAhead(j, m)'
    <3>. SUFFICES ASSUME RootAhead(j, m) PROVE RootAhead(j, m)'
      OBVIOUS
    <3>1. ASSUME NEW i \in DOMAIN box1 PROVE box1[i].batch.answers = Num(m - 1)
      <4>1. CASE i \in DOMAIN box /\ box1[i] = box[i]
        BY <4>1 DEF RootAhead
      <4>2. CASE i = l + 1 /\ box1[i] = new
        BY <1>0, <1>5, <2>2, <4>2 DEF RootAhead
      <4>. QED BY <2>4, <4>1, <4>2
    <3>. QED BY <1>0, <1>5, <2>1, <2>3, <3>1 DEF RootAhead, box1
  <2>. QED BY <1>0, <1>1, <2>5, <2>6, <2>7 DEF Alternating
<1>6. CASE c = "root"
  <2>. DEFINE new == Published(batch, ledger["root"].points)
              mail1 == outbox'["root"]
  <2>1. /\ locked'["root"] = batch /\ locked'["nested"] = N
        /\ ~fresh'["root"] /\ fresh'["nested"] = fresh["nested"]
        /\ mail1 = Append(mail, new) /\ outbox'["nested"] = box
    BY <1>0, <1>6 DEF Ends, ExchangeTypes
  <2>2. RootAhead(j, m)
    BY <1>0, <1>1, <1>6 DEF NestedAhead
  <2>3. Len(mail) = 1
    BY <1>0, <1>6, <2>2 DEF RootAhead
  <2>. HIDE DEF new
  <2>4. Len(mail1) = 2 /\ mail1[1] = mail[1] /\ mail1[2] = new
    BY <1>3, <2>1, <2>3
  <2>. HIDE DEF mail1
  <2>5. Latest(j)' = Latest(j)
    BY <2>1 DEF Latest
  <2>6. InSequence(j, m)'
    <3>1. \A x \in Chain : serial'[x] = locked'[x].id
      BY <1>0, <1>4, <1>6, <2>1 DEF InSequence
    <3>. QED BY <1>0, <1>4, <1>6, <2>1, <2>5, <3>1 DEF InSequence
  <2>7. RootAhead(j, m)'
    <3>1. mail1[2] = Published(locked'["root"], ledger'["root"].points)
      BY <1>0, <2>1, <2>4 DEF new
    <3>2. locked'["root"].answers = Num(j)
      BY <1>0, <1>6, <2>1, <2>2 DEF RootAhead
    <3>. QED BY <1>0, <2>1, <2>2, <2>4, <2>5, <3>1, <3>2 DEF RootAhead, mail1
  <2>. QED BY <1>0, <2>6, <2>7 DEF Alternating
<1>. QED BY <1>0, <1>5, <1>6

\* The lock that c puts on its next batch when it has handled this one.
Rotated(c, remote, b, lock) ==
  /\ lock.id = (serial[c] % Serial) + 1 /\ lock.answers = remote.id /\ lock.ops = next[c]
  /\ ledger' = [ledger EXCEPT ![c] = b]
  /\ locked' = [locked EXCEPT ![c] = lock]
  /\ serial' = [serial EXCEPT ![c] = lock.id]
  /\ fresh' = [fresh EXCEPT ![c] = TRUE]
  /\ next' = [next EXCEPT ![c] = NoOps]

RotatedAs(c, remote, b, lock, receipts, mid, counter) ==
  /\ Rotated(c, remote, b, lock)
  /\ lock.receipts = receipts /\ lock.poolSize = mid /\ lock.counterPoolSize = counter

\* A rotation locks a batch with these receipts and sizes of the pools.
LEMMA RotateAs ==
  ASSUME NEW c, NEW remote, NEW mid, NEW done, NEW b,
         Rotate(c, remote, mid, done), ledger' = [ledger EXCEPT ![c] = b]
  PROVE  \E lock : RotatedAs(c, remote, b, lock, done.receipts, mid, done.counter)
<1>. DEFINE id == (serial[c] % Serial) + 1
            lock == [id |-> id, answers |-> remote.id, ops |-> next[c],
                     receipts |-> done.receipts, poolSize |-> mid,
                     counterPoolSize |-> done.counter]
<1>1. /\ serial' = [serial EXCEPT ![c] = id]
      /\ locked' = [locked EXCEPT ![c] = lock]
      /\ next' = [next EXCEPT ![c] = NoOps]
      /\ fresh' = [fresh EXCEPT ![c] = TRUE]
  BY DEF Rotate
<1>2. /\ lock.id = id /\ lock.answers = remote.id /\ lock.ops = next[c]
      /\ lock.receipts = done.receipts /\ lock.poolSize = mid
      /\ lock.counterPoolSize = done.counter
  OBVIOUS
<1>. HIDE DEF lock
<1>3. RotatedAs(c, remote, b, lock, done.receipts, mid, done.counter)
  BY <1>1, <1>2 DEF Rotated, RotatedAs
<1>. QED BY <1>3

\* Every handled batch ends with a rotation.
LEMMA HandleRotates ==
  ASSUME NEW c, NEW remote, NEW books, NEW own, HandleBatch(c, remote, books, own)
  PROVE  /\ \E b, lock : Rotated(c, remote, b, lock)
         /\ \/ IsEmpty(remote) /\ IsEmpty(own)
            \/ ~IsEmpty(remote) /\ (IsEmpty(own) \/ Answers(remote, own))
<1>1. CASE Quiet(c, remote, books, own)
  <2>. DEFINE done == Opened(books, remote.poolSize)
  <2>1. /\ Rotate(c, remote, books.liquidity, done) /\ ledger' = [ledger EXCEPT ![c] = books]
        /\ IsEmpty(remote) /\ IsEmpty(own)
    BY <1>1 DEF Quiet
  <2>. HIDE DEF done
  <2>2. \E lock : Rotated(c, remote, books, lock)
    <3>1. \E lock : RotatedAs(c, remote, books, lock, done.receipts, books.liquidity,
                              done.counter)
      BY <2>1, RotateAs
    <3>. QED BY <3>1 DEF RotatedAs
  <2>. QED BY <2>1, <2>2
<1>2. ASSUME NEW ordering \in Orderings(remote.ops), Busy(c, remote, books, own, ordering)
      PROVE  /\ \E b, lock : Rotated(c, remote, b, lock)
             /\ ~IsEmpty(remote) /\ (IsEmpty(own) \/ Answers(remote, own))
  <2>. DEFINE settled == Settled(books, own, remote)
              done == Executed(settled, remote.ops, ordering)
              b == Closed(done)
              mid == settled.liquidity
  <2>1. /\ ~IsEmpty(remote) /\ (IsEmpty(own) \/ Answers(remote, own))
        /\ ledger' = [ledger EXCEPT ![c] = b]
        /\ Rotate(c, remote, mid, done)
    BY <1>2 DEF Busy
  <2>. HIDE DEF done, b, mid
  <2>2. \E lock : Rotated(c, remote, b, lock)
    <3>1. \E lock : RotatedAs(c, remote, b, lock, done.receipts, mid, done.counter)
      BY <2>1, RotateAs
    <3>. QED BY <3>1 DEF RotatedAs
  <2>. QED BY <2>1, <2>2
<1>. QED BY <1>1, <1>2, HandleCases

\* The end of a list from its last element on.
LEMMA LastOne ==
  ASSUME NEW S, NEW s \in Seq(S), NEW i \in DOMAIN s, i = Len(s)
  PROVE  SubSeq(s, i, Len(s)) = <<s[i]>>
<1>1. /\ SubSeq(s, i, Len(s)) \in Seq(S)
      /\ Len(SubSeq(s, i, Len(s))) = Len(s) - i + 1
      /\ \A j \in 1 .. Len(s) - i + 1 : SubSeq(s, i, Len(s))[j] = s[i + j - 1]
  BY TailSeq
<1>. DEFINE t == SubSeq(s, i, Len(s))
<1>2. Len(s) \in Nat
  OBVIOUS
<1>3. Len(s) - i + 1 = 1 /\ i + 1 - 1 = i
  BY <1>2
<1>4. t \in Seq(S) /\ Len(t) = 1 /\ t[1] = s[i]
  BY <1>1, <1>3
<1>. HIDE DEF t
<1>5. t = <<s[i]>>
  BY <1>4
<1>. QED BY <1>5 DEF t

\* The parts of the two chains after the nested one has locked a batch.
LEMMA NestedLocks ==
  ASSUME ExchangeTypes, NEW remote, NEW b, NEW lock, Rotated("nested", remote, b, lock),
         NEW mail1, outbox' = [outbox EXCEPT !["root"] = mail1]
  PROVE  /\ locked'["nested"] = lock /\ locked'["root"] = locked["root"]
         /\ fresh'["nested"] /\ fresh'["root"] = fresh["root"]
         /\ serial'["nested"] = lock.id /\ serial'["root"] = serial["root"]
         /\ ledger'["root"] = ledger["root"] /\ ledger'["nested"] = b
         /\ outbox'["nested"] = outbox["nested"] /\ outbox'["root"] = mail1
BY ChainFacts DEF Rotated, ExchangeTypes

\* The parts of the two chains after the root chain has locked a batch.
LEMMA RootLocks ==
  ASSUME ExchangeTypes, NEW remote, NEW b, NEW lock, Rotated("root", remote, b, lock),
         NEW box1, outbox' = [outbox EXCEPT !["nested"] = box1]
  PROVE  /\ locked'["root"] = lock /\ locked'["nested"] = locked["nested"]
         /\ fresh'["root"] /\ fresh'["nested"] = fresh["nested"]
         /\ serial'["root"] = lock.id /\ serial'["nested"] = serial["nested"]
         /\ ledger'["nested"] = ledger["nested"] /\ ledger'["root"] = b
         /\ outbox'["root"] = outbox["root"] /\ outbox'["nested"] = box1
BY ChainFacts DEF Rotated, ExchangeTypes

\* The nested chain has locked one more batch.
LEMMA NestedInSequence ==
  ASSUME ExchangeTypes, NEW j \in Nat, NEW m \in Nat, InSequence(j, m), ~fresh["nested"],
         NEW remote, NEW b, NEW lock, Rotated("nested", remote, b, lock),
         NEW mail1, outbox' = [outbox EXCEPT !["root"] = mail1]
  PROVE  InSequence(j, m)' /\ Latest(j)' = Latest(j) + 1
<1>. DEFINE l == Len(outbox["nested"])
<1>0. /\ locked'["nested"] = lock /\ locked'["root"] = locked["root"]
      /\ fresh'["nested"] /\ fresh'["root"] = fresh["root"]
      /\ serial'["nested"] = lock.id /\ serial'["root"] = serial["root"]
      /\ ledger'["root"] = ledger["root"] /\ ledger'["nested"] = b
      /\ outbox'["nested"] = outbox["nested"] /\ outbox'["root"] = mail1
  BY NestedLocks
<1>1. /\ Latest(j) \in Nat /\ l \in Nat /\ l >= 1 /\ Latest(j) = j + l - 1
  BY LatestNat DEF InSequence
<1>2. Latest(j)' = Latest(j) + 1
  <2>1. Latest(j)' = j + l - 1 + 1
    BY <1>0 DEF Latest
  <2>. HIDE DEF l
  <2>. QED BY <1>1, <2>1
<1>3. lock.id = Num(Latest(j) + 1)
  <2>1. lock.id = (serial["nested"] % Serial) + 1 /\ serial["nested"] = Num(Latest(j))
    BY ChainFacts DEF Rotated, InSequence
  <2>. QED BY <1>1, <2>1, NumNext
<1>4. \A c \in Chain : serial'[c] = locked'[c].id
  BY <1>0, ChainFacts DEF InSequence
<1>5. InSequence(j, m)'
  BY <1>0, <1>2, <1>3, <1>4 DEF InSequence
<1>. QED BY <1>2, <1>5

\* The alternation when the nested chain has read the batch of the root chain.
LEMMA AlternatingReceiveNested ==
  ASSUME ExchangeTypes, Alternating, Receive("nested")
  PROVE  Alternating'
<1>. DEFINE N == locked["nested"]
            R == locked["root"]
            box == outbox["nested"]
            mail == outbox["root"]
            l == Len(box)
            k(j) == Latest(j)
<1>0. /\ Chain = {"root", "nested"} /\ Other("root") = "nested" /\ Other("nested") = "root"
      /\ fallbacks' = fallbacks
  BY DEF Chain, Other, Receive
<1>1. PICK i \in DOMAIN mail :
        /\ HandleBatch("nested", mail[i].batch, ledger["nested"], N)
        /\ outbox' = [outbox EXCEPT !["root"] = SubSeq(mail, i, Len(mail))]
  BY <1>0 DEF Receive
<1>. DEFINE remote == mail[i].batch
            mail1 == SubSeq(mail, i, Len(mail))
<1>2. PICK b, lock : Rotated("nested", remote, b, lock)
  BY <1>1, HandleRotates
<1>3. \/ IsEmpty(remote) /\ IsEmpty(N)
      \/ ~IsEmpty(remote) /\ (IsEmpty(N) \/ Answers(remote, N))
  BY <1>1, HandleRotates
<1>. HIDE DEF mail1
<1>4. /\ locked'["nested"] = lock /\ locked'["root"] = R
      /\ fresh'["nested"] /\ fresh'["root"] = fresh["root"]
      /\ serial'["nested"] = lock.id /\ serial'["root"] = serial["root"]
      /\ ledger'["root"] = ledger["root"] /\ ledger'["nested"] = b
      /\ outbox'["nested"] = box /\ outbox'["root"] = mail1
  BY <1>1, <1>2, NestedLocks DEF mail1
<1>5. lock.answers = remote.id /\ lock.id = (serial["nested"] % Serial) + 1
  BY <1>2 DEF Rotated
<1>6. mail \in Seq(Mail) /\ i \in 1 .. Len(mail) /\ Len(mail) \in Nat
  <2>1. mail \in Seq(Mail)
    BY <1>0 DEF ExchangeTypes
  <2>. QED BY <2>1, SeqDomain
<1>7. FlowFacts
  BY AlternatingFacts
<1>8. CASE NotStarted
  <2>1. /\ N.id = 0 /\ R.id = 0 /\ ~fresh["root"] /\ ~fresh["nested"]
        /\ serial["nested"] = 0 /\ serial["root"] = 0
        /\ box = <<Published(N, ledger["nested"].points)>>
        /\ mail = <<Published(R, ledger["root"].points)>>
        /\ fallbacks = 0 /\ IsEmpty(N) /\ IsEmpty(R)
    BY <1>0, <1>8 DEF NotStarted, NoBatch, IsEmpty
  <2>2. i = 1 /\ remote = R /\ mail1 = <<Published(R, ledger["root"].points)>>
    <3>1. i = 1
      BY <1>6, <2>1
    <3>2. mail1 = <<mail[1]>>
      BY <1>6, <2>1, <3>1, LastOne DEF mail1
    <3>. QED BY <2>1, <3>1, <3>2 DEF mail1, Published
  <2>3. /\ box[1].batch = N /\ Len(box) = 1 /\ DOMAIN box = {1}
    BY <2>1 DEF Published
  <2>4. Num(0) = 0 /\ Num(1) = (0 % Serial) + 1
    BY NumNext DEF Num
  <2>5. InSequence(0, 0) /\ ~fresh["nested"]
    <3>1. Latest(0) = 0 + 1 - 1 + 0
      BY <2>1, <2>3 DEF Latest
    <3>2. 0 + 1 - 1 + 0 = 0 /\ 0 + 1 - 1 = 0
      OBVIOUS
    <3>3. \A c \in Chain : serial[c] = locked[c].id
      BY <1>0, <2>1
    <3>4. \A x \in DOMAIN box : box[x].batch.id = Num(0 + x - 1)
      BY <2>1, <2>3, <2>4, <3>2
    <3>5. Len(box) >= 1 /\ box[Len(box)] = Published(N, ledger["nested"].points)
      BY <2>1, <2>3
    <3>. QED BY <2>1, <2>4, <3>1, <3>2, <3>3, <3>4, <3>5 DEF InSequence
  <2>6. InSequence(0, 0)' /\ Latest(0)' = Latest(0) + 1
    BY <1>1, <1>2, <2>5, NestedInSequence
  <2>7. Latest(0) = 0
    <3>1. Latest(0) = 0 + 1 - 1 + 0
      BY <2>1, <2>3 DEF Latest
    <3>. QED BY <3>1
  <2>8. NestedAhead(0, 0)'
    <3>1. \A x \in DOMAIN box : IsEmpty(box[x].batch) /\ x <= 1
      BY <2>1, <2>3
    <3>2. (Latest(0)' - 0) \in 1 .. fallbacks' + 1
      BY <1>0, <2>1, <2>6, <2>7
    <3>. QED BY <1>4, <1>5, <2>1, <2>2, <2>3, <2>4, <3>1, <3>2 DEF NestedAhead
  <2>9. fallbacks' \in 0 .. FallbackMax
    BY <1>0 DEF Alternating
  <2>. QED BY <2>6, <2>8, <2>9 DEF Alternating
<1>9. ASSUME NEW j \in Nat, NEW m \in Nat, InSequence(j, m), NestedAhead(j, m)
      PROVE  FALSE
  <2>1. /\ N.answers = R.id /\ i = 1 /\ remote = R /\ ~IsEmpty(N)
    <3>1. N.answers = Num(m) /\ R.id = Num(m) /\ mail = <<Published(R, ledger["root"].points)>>
      BY <1>9 DEF NestedAhead, InSequence
    <3>2. i = 1
      BY <1>6, <3>1
    <3>. QED BY <3>1, <3>2, NotEmpty DEF Published
  <2>2. R.answers # N.id
    BY <1>0, <1>7, <2>1 DEF FlowFacts, OneAhead
  <2>. QED BY <1>3, <2>1, <2>2 DEF Answers
<1>10. ASSUME NEW j \in Nat, NEW m \in Nat, InSequence(j, m), RootAhead(j, m)
       PROVE  Alternating'
  <2>0. fallbacks \in Nat /\ fallbacks + 1 < Serial /\ Serial \in Nat
    BY SerialFacts DEF Alternating
  <2>1. /\ Latest(j) \in Nat /\ Latest(j) >= j /\ l \in Nat /\ l >= 1 /\ DOMAIN box = 1 .. l
        /\ fresh["nested"] => Latest(j) = j + l
        /\ ~fresh["nested"] => Latest(j) = j + l - 1
    BY <1>10, LatestNat DEF InSequence
  <2>2. /\ m > 0 /\ (Latest(j) - j) \in 0 .. fallbacks
        /\ R.answers = Num(j) /\ N.answers = Num(m - 1) /\ R.id = Num(m)
        /\ N.id = Num(Latest(j))
        /\ \A x \in DOMAIN box : box[x].batch.answers = Num(m - 1)
        /\ fresh["root"] => Len(mail) = 1
        /\ ~fresh["root"] => /\ Len(mail) = 2
                             /\ mail[2] = Published(R, ledger["root"].points)
        /\ \/ IsEmpty(mail[1].batch)
           \/ \E a \in Nat : /\ mail[1].batch.answers = Num(a)
                             /\ (Latest(j) - a) \in 1 .. fallbacks + 1
    BY <1>10 DEF RootAhead, InSequence
  <2>3. ~IsEmpty(N)
    <3>1. m - 1 \in Nat
      BY <2>2
    <3>. QED BY <2>2, <3>1, NotEmpty
  <2>4. ~IsEmpty(remote) /\ remote.answers = N.id
    BY <1>3, <2>3 DEF Answers
  <2>5. i # 1
    <3>1. ASSUME i = 1 PROVE FALSE
      <4>1. PICK a \in Nat : /\ mail[1].batch.answers = Num(a)
                             /\ (Latest(j) - a) \in 1 .. fallbacks + 1
        BY <2>2, <2>4, <3>1
      <4>2. a < Latest(j) /\ Latest(j) - a < Serial
        BY <2>0, <2>1, <4>1
      <4>3. Num(a) # Num(Latest(j))
        BY <2>1, <4>2, NumDiffer
      <4>. QED BY <2>2, <2>4, <3>1, <4>1, <4>3
    <3>. QED BY <3>1
  <2>6. ~fresh["root"] /\ i = 2 /\ mail1 = <<Published(R, ledger["root"].points)>> /\ remote = R
    <3>1. ~fresh["root"] /\ Len(mail) = 2 /\ i = 2
      BY <1>6, <2>2, <2>5
    <3>2. mail1 = <<mail[2]>>
      BY <1>6, <3>1, LastOne DEF mail1
    <3>. QED BY <2>2, <3>1, <3>2 DEF mail1, Published
  <2>7. Latest(j) = j
    <3>1. Num(j) = Num(Latest(j))
      BY <2>2, <2>4, <2>6
    <3>2. Latest(j) - j < Serial /\ j - Latest(j) < Serial
      BY <2>0, <2>1, <2>2
    <3>. QED BY <2>1, <3>1, <3>2, SameNum
  <2>8. ~fresh["nested"] /\ l = 1
    <3>. HIDE DEF l
    <3>1. CASE fresh["nested"]
      <4>1. Latest(j) = j + l
        BY <2>1, <3>1
      <4>. QED BY <2>1, <2>7, <4>1
    <3>2. CASE ~fresh["nested"]
      <4>1. Latest(j) = j + l - 1
        BY <2>1, <3>2
      <4>. QED BY <2>1, <2>7, <3>2, <4>1
    <3>. QED BY <3>1, <3>2
  <2>9. InSequence(j, m)' /\ Latest(j)' = Latest(j) + 1
    BY <1>1, <1>2, <1>10, <2>8, NestedInSequence
  <2>10. NestedAhead(j, m)'
    <3>1. (Latest(j)' - j) \in 1 .. fallbacks' + 1
      BY <1>0, <2>0, <2>7, <2>9
    <3>2. 1 \in DOMAIN box /\ \A x \in DOMAIN box : x <= 1
      BY <2>1, <2>8
    <3>3. \E t \in DOMAIN box : \A x \in DOMAIN box :
            /\ x <= t => \/ IsEmpty(box[x].batch)
                         \/ m > 0 /\ box[x].batch.answers = Num(m - 1)
            /\ x > t => box[x].batch.answers = Num(m)
      <4>1. \A x \in DOMAIN box : ~(x > 1)
        BY <2>1, <2>8
      <4>. QED BY <2>2, <3>2, <4>1
    <3>4. lock.answers = Num(m)
      BY <1>5, <2>2, <2>6
    <3>5. ~(m = 0)
      BY <2>2
    <3>. QED BY <1>4, <2>2, <2>6, <3>1, <3>3, <3>4, <3>5 DEF NestedAhead
  <2>11. fallbacks' \in 0 .. FallbackMax
    BY <1>0 DEF Alternating
  <2>. QED BY <2>9, <2>10, <2>11 DEF Alternating
<1>. QED BY <1>8, <1>9, <1>10 DEF Alternating

\* The alternation when the root chain has read a batch of the nested chain.
LEMMA AlternatingReceiveRoot ==
  ASSUME ExchangeTypes, Alternating, Receive("root")
  PROVE  Alternating'
<1>. DEFINE N == locked["nested"]
            R == locked["root"]
            box == outbox["nested"]
            mail == outbox["root"]
            l == Len(box)
<1>0. /\ Chain = {"root", "nested"} /\ Other("root") = "nested" /\ Other("nested") = "root"
      /\ fallbacks' = fallbacks
  BY DEF Chain, Other, Receive
<1>1. PICK i \in DOMAIN box :
        /\ HandleBatch("root", box[i].batch, ledger["root"], R)
        /\ outbox' = [outbox EXCEPT !["nested"] = SubSeq(box, i, Len(box))]
        /\ ~IsEmpty(box[i].batch)
  BY <1>0 DEF Receive
<1>. DEFINE remote == box[i].batch
            box1 == SubSeq(box, i, Len(box))
<1>2. PICK b, lock : Rotated("root", remote, b, lock)
  BY <1>1, HandleRotates
<1>3. IsEmpty(R) \/ remote.answers = R.id
  BY <1>1, HandleRotates DEF Answers
<1>. HIDE DEF box1
<1>4. /\ locked'["root"] = lock /\ locked'["nested"] = N
      /\ fresh'["root"] /\ fresh'["nested"] = fresh["nested"]
      /\ serial'["root"] = lock.id /\ serial'["nested"] = serial["nested"]
      /\ ledger'["nested"] = ledger["nested"] /\ ledger'["root"] = b
      /\ outbox'["root"] = mail /\ outbox'["nested"] = box1
  BY <1>1, <1>2, RootLocks DEF box1
<1>5. lock.answers = remote.id /\ lock.id = (serial["root"] % Serial) + 1
  BY <1>2 DEF Rotated
<1>6. box \in Seq(Mail) /\ l \in Nat /\ DOMAIN box = 1 .. l
  <2>1. box \in Seq(Mail)
    BY <1>0 DEF ExchangeTypes
  <2>. QED BY <2>1, SeqDomain
<1>7. /\ Len(box1) = l - i + 1 /\ DOMAIN box1 = 1 .. l - i + 1
      /\ \A x \in 1 .. l - i + 1 : box1[x] = box[i + x - 1]
      /\ i \in 1 .. l
  <2>1. /\ box1 \in Seq(Mail) /\ Len(box1) = l - i + 1
        /\ \A x \in 1 .. l - i + 1 : box1[x] = box[i + x - 1]
    BY <1>6, TailSeq DEF box1
  <2>. QED BY <1>6, <2>1, SeqDomain
<1>. HIDE DEF l
<1>8. ASSUME NotStarted PROVE FALSE
  <2>1. box = <<Published(N, ledger["nested"].points)>> /\ IsEmpty(N)
    BY <1>0, <1>8 DEF NotStarted, NoBatch, IsEmpty
  <2>2. i = 1
    BY <1>6, <1>7, <2>1 DEF l
  <2>. QED BY <1>1, <2>1, <2>2 DEF Published
<1>9. ASSUME NEW j \in Nat, NEW m \in Nat, InSequence(j, m), RootAhead(j, m)
      PROVE  FALSE
  <2>1. /\ m > 0 /\ R.answers = Num(j) /\ R.id = Num(m) /\ remote.answers = Num(m - 1)
    BY <1>9 DEF RootAhead, InSequence
  <2>2. ~IsEmpty(R)
    BY <2>1, NotEmpty
  <2>3. m - 1 < m /\ m - (m - 1) < Serial /\ m - 1 \in Nat
    BY <2>1, SerialFacts
  <2>4. Num(m - 1) # Num(m)
    BY <2>3, NumDiffer
  <2>. QED BY <1>3, <2>1, <2>2, <2>4
<1>10. ASSUME NEW j \in Nat, NEW m \in Nat, InSequence(j, m), NestedAhead(j, m)
       PROVE  Alternating'
  <2>. DEFINE k == Latest(j)
              j1 == j + i - 1
              m1 == m + 1
  <2>0. fallbacks \in Nat
    BY DEF Alternating
  <2>1. /\ k \in Nat /\ k >= j /\ l >= 1
        /\ fresh["nested"] => k = j + l
        /\ ~fresh["nested"] => k = j + l - 1
    BY <1>10, LatestNat DEF InSequence, l
  <2>2. /\ (k - j) \in 1 .. fallbacks + 1
        /\ N.answers = Num(m) /\ ~fresh["root"] /\ R.id = Num(m) /\ N.id = Num(k)
        /\ mail = <<Published(R, ledger["root"].points)>>
        /\ m = 0 => IsEmpty(R)
        /\ m > 0 => R.answers = Num(j)
        /\ serial["root"] = R.id /\ serial["nested"] = N.id
        /\ \A x \in DOMAIN box : box[x].batch.id = Num(j + x - 1)
    BY <1>0, <1>10 DEF NestedAhead, InSequence
  <2>3. PICK t \in DOMAIN box :
          \A x \in DOMAIN box :
            /\ x <= t => \/ IsEmpty(box[x].batch)
                         \/ m > 0 /\ box[x].batch.answers = Num(m - 1)
            /\ x > t => box[x].batch.answers = Num(m)
    BY <1>10 DEF NestedAhead
  <2>4. i > t
    <3>1. ASSUME i <= t PROVE FALSE
      <4>1. m > 0 /\ remote.answers = Num(m - 1)
        BY <1>1, <2>3, <3>1
      <4>2. ~IsEmpty(R)
        BY <2>2, <4>1, NotEmpty
      <4>3. m - 1 < m /\ m - (m - 1) < Serial /\ m - 1 \in Nat
        BY <4>1, SerialFacts
      <4>4. Num(m - 1) # Num(m)
        BY <4>3, NumDiffer
      <4>. QED BY <1>3, <2>2, <4>1, <4>2, <4>4
    <3>2. t \in 1 .. l
      BY <1>6, <2>3
    <3>. QED BY <1>6, <1>7, <3>1, <3>2
  <2>5. /\ i \in Nat /\ i >= 2 /\ i <= l /\ j1 \in Nat /\ m1 \in Nat
    BY <1>6, <1>7, <2>3, <2>4
  <2>6. lock.id = Num(m1) /\ lock.answers = Num(j1)
    BY <1>5, <1>7, <1>1, <2>2, NumNext
  <2>7. Latest(j1)' = k
    <3>1. CASE fresh["nested"]
      <4>1. Latest(j1)' = j1 + (l - i + 1) - 1 + 1
        BY <1>4, <1>7, <3>1 DEF Latest
      <4>. QED BY <1>6, <2>1, <2>5, <3>1, <4>1
    <3>2. CASE ~fresh["nested"]
      <4>1. Latest(j1)' = j1 + (l - i + 1) - 1 + 0
        BY <1>4, <1>7, <3>2 DEF Latest
      <4>. QED BY <1>6, <2>1, <2>5, <3>2, <4>1
    <3>. QED BY <3>1, <3>2
  <2>8. ASSUME NEW x \in DOMAIN box1
        PROVE  /\ box1[x].batch.id = Num(j1 + x - 1)
               /\ box1[x].batch.answers = Num(m1 - 1)
    <3>1. x \in 1 .. l - i + 1 /\ i + x - 1 \in 1 .. l /\ i + x - 1 > t
      <4>1. t \in 1 .. l
        BY <1>6, <2>3
      <4>. QED BY <1>6, <1>7, <2>4, <2>5, <4>1
    <3>2. box1[x] = box[i + x - 1] /\ i + x - 1 \in DOMAIN box
      BY <1>6, <1>7, <3>1
    <3>3. j + (i + x - 1) - 1 = j1 + x - 1 /\ m1 - 1 = m
      BY <2>5, <3>1
    <3>4. box[i + x - 1].batch.id = Num(j + (i + x - 1) - 1)
      BY <2>2, <3>2
    <3>5. box[i + x - 1].batch.answers = Num(m)
      BY <2>3, <3>1, <3>2
    <3>. QED BY <3>2, <3>3, <3>4, <3>5
  <2>9. ~fresh["nested"] => box1[Len(box1)] = Published(N, ledger["nested"].points)
    <3>1. Len(box1) \in 1 .. l - i + 1 /\ i + Len(box1) - 1 = l
      BY <1>6, <1>7, <2>5
    <3>2. box1[Len(box1)] = box[l]
      BY <1>7, <3>1
    <3>. QED BY <1>10, <3>2 DEF InSequence, l
  <2>. HIDE DEF k, j1, m1
  <2>10. InSequence(j1, m1)'
    <3>1. \A c \in Chain : serial'[c] = locked'[c].id
      BY <1>0, <1>4, <2>2
    <3>2. Len(box1) >= 1
      BY <1>6, <1>7, <2>5
    <3>. QED BY <1>4, <2>2, <2>6, <2>7, <2>8, <2>9, <3>1, <3>2 DEF InSequence
  <2>11. RootAhead(j1, m1)'
    <3>1. m1 > 0
      BY DEF m1
    <3>2. (Latest(j1)' - j1) \in 0 .. fallbacks'
      <4>1. k - j <= fallbacks + 1 /\ k >= j + l - 1
        BY <1>6, <2>0, <2>1, <2>2
      <4>2. k - j1 = (k - j) - (i - 1)
        BY <2>1, <2>5 DEF j1
      <4>. QED BY <1>0, <1>6, <2>0, <2>1, <2>5, <2>7, <4>1, <4>2
    <3>3. N.answers = Num(m1 - 1)
      <4>1. m1 - 1 = m
        BY DEF m1
      <4>. QED BY <2>2, <4>1
    <3>4. Len(mail) = 1 /\ mail[1].batch.id = Num(m1 - 1) /\ mail[1].batch = R
      <4>1. m1 - 1 = m
        BY DEF m1
      <4>. QED BY <2>2, <4>1 DEF Published
    <3>5. \/ IsEmpty(mail[1].batch)
          \/ \E a \in Nat : /\ mail[1].batch.answers = Num(a)
                            /\ (Latest(j1)' - a) \in 1 .. fallbacks' + 1
      BY <1>0, <2>2, <2>7, <3>4
    <3>. QED BY <1>4, <2>6, <2>8, <3>1, <3>2, <3>3, <3>4, <3>5 DEF RootAhead
  <2>12. fallbacks' \in 0 .. FallbackMax
    BY <1>0 DEF Alternating
  <2>. QED BY <2>5, <2>10, <2>11, <2>12 DEF Alternating
<1>. QED BY <1>8, <1>9, <1>10 DEF Alternating

\* The alternation when the nested chain gave up a lock: its next batch answers the same one.
LEMMA AlternatingFallback ==
  ASSUME ExchangeTypes, Alternating, Fallback
  PROVE  Alternating'
<1>. DEFINE N == locked["nested"]
            R == locked["root"]
            box == outbox["nested"]
            mail == outbox["root"]
            l == Len(box)
<1>0. /\ Chain = {"root", "nested"}
      /\ ~IsEmpty(N) /\ ~fresh["nested"]
      /\ fallbacks' = fallbacks + 1 /\ fallbacks' \in 0 .. FallbackMax
      /\ fallbacks \in Nat
  <2>1. fallbacks < FallbackMax /\ fallbacks' = fallbacks + 1 /\ fallbacks \in 0 .. FallbackMax
    BY DEF Fallback, Alternating
  <2>. QED BY <2>1, SerialFacts DEF Fallback, Chain
<1>1. PICK i \in DOMAIN mail :
        /\ \E books : HandleBatch("nested", mail[i].batch, books, NoBatch(0))
        /\ outbox' = [outbox EXCEPT !["root"] = SubSeq(mail, i, Len(mail))]
  BY DEF Fallback
<1>. DEFINE remote == mail[i].batch
            mail1 == SubSeq(mail, i, Len(mail))
<1>2. PICK b, lock : Rotated("nested", remote, b, lock)
  BY <1>1, HandleRotates
<1>. HIDE DEF mail1
<1>4. /\ locked'["nested"] = lock /\ locked'["root"] = R
      /\ fresh'["nested"] /\ fresh'["root"] = fresh["root"]
      /\ serial'["nested"] = lock.id /\ serial'["root"] = serial["root"]
      /\ ledger'["root"] = ledger["root"] /\ ledger'["nested"] = b
      /\ outbox'["nested"] = box /\ outbox'["root"] = mail1
  BY <1>1, <1>2, NestedLocks DEF mail1
<1>5. lock.answers = remote.id
  BY <1>2 DEF Rotated
<1>6. mail \in Seq(Mail) /\ i \in 1 .. Len(mail) /\ Len(mail) \in Nat
  <2>1. mail \in Seq(Mail)
    BY <1>0 DEF ExchangeTypes
  <2>. QED BY <2>1, SeqDomain
<1>7. mail1 = mail \/ (i = Len(mail) /\ i > 1 /\ mail1 = <<mail[i]>>) \/ Len(mail) > 2
  <2>1. CASE i = 1
    BY <1>6, <2>1 DEF mail1
  <2>2. CASE i = Len(mail)
    BY <1>6, <2>1, <2>2, LastOne DEF mail1
  <2>. QED BY <1>6, <2>1, <2>2
<1>8. ASSUME NotStarted PROVE FALSE
  BY <1>0, <1>8 DEF NotStarted, NoBatch, IsEmpty
<1>9. ASSUME NEW j \in Nat, NEW m \in Nat, InSequence(j, m),
             NestedAhead(j, m) \/ RootAhead(j, m)
      PROVE  /\ InSequence(j, m)' /\ Latest(j)' = Latest(j) + 1
             /\ Latest(j) \in Nat /\ Latest(j) >= j
             /\ DOMAIN box = 1 .. l /\ l \in Nat /\ l >= 1
  <2>1. InSequence(j, m)' /\ Latest(j)' = Latest(j) + 1
    BY <1>0, <1>1, <1>2, <1>9, NestedInSequence
  <2>. QED BY <1>9, <2>1, LatestNat DEF InSequence
<1>10. ASSUME NEW j \in Nat, NEW m \in Nat, InSequence(j, m), NestedAhead(j, m)
       PROVE  NestedAhead(j, m)'
  <2>1. /\ (Latest(j) - j) \in 1 .. fallbacks + 1
        /\ ~fresh["root"] /\ R.id = Num(m)
        /\ mail = <<Published(R, ledger["root"].points)>>
        /\ m = 0 => IsEmpty(R)
        /\ m > 0 => R.answers = Num(j)
    BY <1>0, <1>10 DEF NestedAhead, InSequence
  <2>2. \E t \in DOMAIN box : \A x \in DOMAIN box :
          /\ x <= t => \/ IsEmpty(box[x].batch)
                       \/ m > 0 /\ box[x].batch.answers = Num(m - 1)
          /\ x > t => box[x].batch.answers = Num(m)
    BY <1>10 DEF NestedAhead
  <2>3. mail1 = mail /\ remote = R
    <3>1. i = 1 /\ Len(mail) = 1
      BY <1>6, <2>1
    <3>. QED BY <1>7, <2>1, <3>1 DEF Published
  <2>4. (Latest(j)' - j) \in 1 .. fallbacks' + 1
    BY <1>0, <1>9, <1>10, <2>1
  <2>5. lock.answers = Num(m)
    BY <1>5, <2>1, <2>3
  <2>. QED BY <1>4, <2>1, <2>2, <2>3, <2>4, <2>5 DEF NestedAhead
<1>11. ASSUME NEW j \in Nat, NEW m \in Nat, InSequence(j, m), RootAhead(j, m)
       PROVE  NestedAhead(j, m)' \/ RootAhead(j, m)'
  <2>1. /\ m > 0 /\ (Latest(j) - j) \in 0 .. fallbacks
        /\ R.answers = Num(j) /\ R.id = Num(m)
        /\ \A x \in DOMAIN box : box[x].batch.answers = Num(m - 1)
        /\ fresh["root"] => Len(mail) = 1
        /\ ~fresh["root"] => /\ Len(mail) = 2
                             /\ mail[2] = Published(R, ledger["root"].points)
        /\ mail[1].batch.id = Num(m - 1)
    BY <1>11 DEF RootAhead, InSequence
  <2>2. \/ IsEmpty(mail[1].batch)
        \/ \E a \in Nat : /\ mail[1].batch.answers = Num(a)
                          /\ (Latest(j) - a) \in 1 .. fallbacks + 1
    BY <1>11 DEF RootAhead
  <2>3. (Latest(j)' - j) \in 1 .. fallbacks' /\ (Latest(j)' - j) \in 0 .. fallbacks'
        /\ (Latest(j)' - j) \in 1 .. fallbacks' + 1
    BY <1>0, <1>9, <1>11, <2>1
  <2>4. CASE i = 1
    <3>1. mail1 = mail /\ lock.answers = Num(m - 1)
      BY <1>5, <1>6, <1>7, <2>1, <2>4 DEF mail1
    <3>2. \/ IsEmpty(mail[1].batch)
          \/ \E a \in Nat : /\ mail[1].batch.answers = Num(a)
                            /\ (Latest(j)' - a) \in 1 .. fallbacks' + 1
      <4>1. ASSUME NEW a \in Nat, (Latest(j) - a) \in 1 .. fallbacks + 1
            PROVE  (Latest(j)' - a) \in 1 .. fallbacks' + 1
        BY <1>0, <1>9, <1>11, <4>1
      <4>. QED BY <2>2, <4>1
    <3>3. RootAhead(j, m)'
      BY <1>4, <2>1, <2>3, <3>1, <3>2 DEF RootAhead
    <3>. QED BY <3>3
  <2>5. CASE i # 1
    <3>1. ~fresh["root"] /\ i = 2 /\ Len(mail) = 2
      BY <1>6, <2>1, <2>5
    <3>2. mail1 = <<Published(R, ledger["root"].points)>> /\ remote = R
      <4>1. mail1 = <<mail[2]>>
        BY <1>6, <3>1, LastOne DEF mail1
      <4>. QED BY <2>1, <3>1, <4>1 DEF Published
    <3>3. \E t \in DOMAIN box : \A x \in DOMAIN box :
            /\ x <= t => \/ IsEmpty(box[x].batch)
                         \/ m > 0 /\ box[x].batch.answers = Num(m - 1)
            /\ x > t => box[x].batch.answers = Num(m)
      <4>1. l \in DOMAIN box /\ \A x \in DOMAIN box : ~(x > l)
        BY <1>9, <1>11
      <4>. QED BY <2>1, <4>1
    <3>4. lock.answers = Num(m) /\ m # 0
      BY <1>5, <2>1, <3>2
    <3>5. NestedAhead(j, m)'
      BY <1>4, <2>1, <2>3, <3>1, <3>2, <3>3, <3>4 DEF NestedAhead
    <3>. QED BY <3>5
  <2>. QED BY <2>4, <2>5
<1>. QED BY <1>0, <1>8, <1>9, <1>10, <1>11 DEF Alternating

\* The alternation holds initially.
LEMMA AlternatingInit ==
  ASSUME Init
  PROVE  Alternating
<1>1. NotStarted
  <2>1. /\ ledger["root"].points = ledger["nested"].points
        /\ \A c \in Chain : ledger[c].liquidity = InitialLiquidity[c]
    BY ChainFacts DEF Init
  <2>. QED BY <2>1 DEF Init, NotStarted
<1>2. 0 \in 0 .. FallbackMax
  BY SerialFacts
<1>. QED BY <1>1, <1>2 DEF Alternating, Init

\* It says nothing of what a step leaves alone.
LEMMA AlternatingStutter ==
  ASSUME ExchangeTypes, Alternating, UNCHANGED vars
  PROVE  Alternating'
<1>1. SameFlow
  BY DEF vars, SameFlow
<1>. QED BY <1>1, AlternatingPlace

\* Every step keeps the alternation.
LEMMA AlternatingStep ==
  ASSUME ExchangeTypes, Alternating, [Next]_vars
  PROVE  Alternating'
<1>1. CASE \/ \E o \in Order : PlaceOrder(o)
           \/ \E d \in Deposit : PlaceDeposit(d)
           \/ \E w \in Withdrawal : PlaceWithdrawal(w)
  BY <1>1, PlacesSameFlow, AlternatingPlace
<1>2. ASSUME NEW c \in Chain, Receive(c) PROVE Alternating'
  BY <1>2, AlternatingReceiveNested, AlternatingReceiveRoot, ChainFacts
<1>3. ASSUME NEW c \in Chain, EndBlock(c) PROVE Alternating'
  BY <1>3, EndBlockEnds, AlternatingEnd
<1>4. CASE Fallback
  BY <1>4, AlternatingFallback
<1>5. CASE UNCHANGED vars
  BY <1>5, AlternatingStutter
<1>. QED BY <1>1, <1>2, <1>3, <1>4, <1>5 DEF Next

\* As long as the nested chain has locked nothing, nobody has.
LEMMA NestedFirst ==
  ASSUME Alternating, IsEmpty(locked["nested"])
  PROVE  NotStarted
<1>1. ASSUME NEW m \in Nat, locked["nested"].answers = Num(m) PROVE FALSE
  BY <1>1, NotEmpty
<1>2. ASSUME NEW j \in Nat, NEW m \in Nat, InSequence(j, m), NestedAhead(j, m) PROVE FALSE
  BY <1>1, <1>2 DEF NestedAhead
<1>3. ASSUME NEW j \in Nat, NEW m \in Nat, InSequence(j, m), RootAhead(j, m) PROVE FALSE
  <2>1. m - 1 \in Nat /\ locked["nested"].answers = Num(m - 1)
    BY <1>3 DEF RootAhead
  <2>. QED BY <1>1, <2>1
<1>. QED BY <1>2, <1>3 DEF Alternating

-----------------------------------------------------------------------------
(***************************************************************************)
(* Every operation is in a batch of its own chain.                         *)
(***************************************************************************)
\* The operations of s are of chain c and were sent.
From(c, s, sent) == \A i \in DOMAIN s : s[i].chain = c /\ s[i] \in sent
OpsFrom(c, ops, sent) == From(c, ops.orders, sent) /\ From(c, ops.deposits, sent)
Belonging ==
  \A c \in Chain : OpsFrom(c, next[c], placed) /\ OpsFrom(c, locked[c].ops, placed)

\* The operations of two lists, one after the other.
LEMMA JoinedFrom ==
  ASSUME NEW S, NEW w \in Seq(S), NEW a \in Seq(S), NEW b \in Seq(S), Joined(w, a, b),
         NEW c, NEW sent
  PROVE  From(c, w, sent) <=> From(c, a, sent) /\ From(c, b, sent)
<1>. DEFINE n == Len(a)
            m == Len(b)
<1>1. /\ n \in Nat /\ m \in Nat /\ DOMAIN a = 1 .. n /\ DOMAIN b = 1 .. m
      /\ DOMAIN w = 1 .. n + m
      /\ \A i \in 1 .. n : w[i] = a[i]
      /\ \A j \in 1 .. m : w[n + j] = b[j]
  <2>1. n \in Nat /\ m \in Nat /\ DOMAIN a = 1 .. n /\ DOMAIN b = 1 .. m /\ DOMAIN w = 1 .. Len(w)
    BY SeqDomain
  <2>. QED BY <2>1 DEF Joined
<1>. HIDE DEF n, m
<1>2. ASSUME From(c, w, sent) PROVE From(c, a, sent) /\ From(c, b, sent)
  <2>1. ASSUME NEW i \in DOMAIN a PROVE a[i].chain = c /\ a[i] \in sent
    <3>1. i \in DOMAIN w /\ w[i] = a[i]
      BY <1>1
    <3>. QED BY <1>2, <3>1 DEF From
  <2>2. ASSUME NEW j \in DOMAIN b PROVE b[j].chain = c /\ b[j] \in sent
    <3>1. n + j \in DOMAIN w /\ w[n + j] = b[j]
      BY <1>1
    <3>. QED BY <1>2, <3>1 DEF From
  <2>. QED BY <2>1, <2>2 DEF From
<1>3. ASSUME From(c, a, sent), From(c, b, sent) PROVE From(c, w, sent)
  <2>1. ASSUME NEW i \in DOMAIN w PROVE w[i].chain = c /\ w[i] \in sent
    <3>1. CASE i \in 1 .. n
      <4>1. w[i] = a[i] /\ i \in DOMAIN a
        BY <1>1, <3>1
      <4>. QED BY <1>3, <4>1 DEF From
    <3>2. CASE ~(i \in 1 .. n)
      <4>1. i - n \in 1 .. m /\ n + (i - n) = i
        BY <1>1, <3>2
      <4>2. w[i] = b[i - n] /\ i - n \in DOMAIN b
        BY <1>1, <4>1
      <4>. QED BY <1>3, <4>2 DEF From
    <3>. QED BY <3>1, <3>2
  <2>. QED BY <2>1 DEF From
<1>. QED BY <1>2, <1>3

\* More operations were sent.
LEMMA FromMore ==
  ASSUME NEW c, NEW ops, NEW sent, NEW more, OpsFrom(c, ops, sent), sent \subseteq more
  PROVE  OpsFrom(c, ops, more)
BY DEF OpsFrom, From

\* What an operation of a user does to what waits.
Waits(c, x, ops) ==
  /\ next' = [next EXCEPT ![c] = ops]
  /\ placed' = placed \cup {x}
  /\ UNCHANGED <<locked, fresh, serial, outbox, fallbacks, outcome, payments>>

\* A new order waits on its chain,
LEMMA OrderWaits ==
  ASSUME ExchangeTypes, NEW o \in Order, PlaceOrder(o)
  PROVE  LET c == o.chain IN
         /\ c \in Chain /\ o \notin placed
         /\ Waits(c, o, [orders |-> Append(next[c].orders, o), deposits |-> next[c].deposits,
                         withdrawals |-> next[c].withdrawals])
<1>. DEFINE c == o.chain
            ops == [next[c] EXCEPT !.orders = Append(@, o)]
<1>1. c \in Chain
  BY ExchangeAssumption
<1>2. next[c] \in Ops
  BY <1>1 DEF ExchangeTypes
<1>3. Waits(c, o, ops) /\ o \notin placed
  BY <1>1 DEF PlaceOrder, Waits, ExchangeTypes
<1>4. ops = [orders |-> Append(next[c].orders, o), deposits |-> next[c].deposits,
             withdrawals |-> next[c].withdrawals]
  <2>1. ops = [next[c] EXCEPT !.orders = Append(next[c].orders, o)]
    OBVIOUS
  <2>. HIDE DEF ops, c
  <2>. QED BY <1>2, <2>1 DEF Ops
<1>. HIDE DEF ops
<1>. QED BY <1>1, <1>3, <1>4

\* so does a new deposit,
LEMMA DepositWaits ==
  ASSUME ExchangeTypes, NEW d \in Deposit, PlaceDeposit(d)
  PROVE  LET c == d.chain IN
         /\ c \in Chain
         /\ Waits(c, d, [orders |-> next[c].orders, deposits |-> Append(next[c].deposits, d),
                         withdrawals |-> next[c].withdrawals])
<1>. DEFINE c == d.chain
            ops == [next[c] EXCEPT !.deposits = Append(@, d)]
<1>1. c \in Chain
  BY ExchangeAssumption
<1>2. next[c] \in Ops
  BY <1>1 DEF ExchangeTypes
<1>3. Waits(c, d, ops)
  BY <1>1 DEF PlaceDeposit, Waits, ExchangeTypes
<1>4. ops = [orders |-> next[c].orders, deposits |-> Append(next[c].deposits, d),
             withdrawals |-> next[c].withdrawals]
  <2>1. ops = [next[c] EXCEPT !.deposits = Append(next[c].deposits, d)]
    OBVIOUS
  <2>. HIDE DEF ops, c
  <2>. QED BY <1>2, <2>1 DEF Ops
<1>. HIDE DEF ops
<1>. QED BY <1>1, <1>3, <1>4

\* and a new withdrawal.
LEMMA WithdrawalWaits ==
  ASSUME ExchangeTypes, NEW w \in Withdrawal, PlaceWithdrawal(w)
  PROVE  LET c == w.chain IN
         /\ c \in Chain
         /\ Waits(c, w, [orders |-> next[c].orders, deposits |-> next[c].deposits,
                         withdrawals |-> Append(next[c].withdrawals, w)])
<1>. DEFINE c == w.chain
            ops == [next[c] EXCEPT !.withdrawals = Append(@, w)]
<1>1. c \in Chain
  BY ExchangeAssumption
<1>2. next[c] \in Ops
  BY <1>1 DEF ExchangeTypes
<1>3. Waits(c, w, ops)
  BY <1>1 DEF PlaceWithdrawal, Waits, ExchangeTypes
<1>4. ops = [orders |-> next[c].orders, deposits |-> next[c].deposits,
             withdrawals |-> Append(next[c].withdrawals, w)]
  <2>1. ops = [next[c] EXCEPT !.withdrawals = Append(next[c].withdrawals, w)]
    OBVIOUS
  <2>. HIDE DEF ops, c
  <2>. QED BY <1>2, <2>1 DEF Ops
<1>. HIDE DEF ops
<1>. QED BY <1>1, <1>3, <1>4

\* The operations of a chain are its own, with one that is new,
LEMMA BelongingWaits ==
  ASSUME ExchangeTypes, Belonging, NEW c \in Chain, NEW x, NEW ops, Waits(c, x, ops),
         OpsFrom(c, next[c], placed \cup {x}) => OpsFrom(c, ops, placed \cup {x})
  PROVE  Belonging'
<1>1. ASSUME NEW d \in Chain
      PROVE  OpsFrom(d, next'[d], placed') /\ OpsFrom(d, locked'[d].ops, placed')
  <2>1. /\ locked' = locked /\ placed' = placed \cup {x}
        /\ next'[d] = IF d = c THEN ops ELSE next[d]
    BY DEF Waits, ExchangeTypes
  <2>2. OpsFrom(d, next[d], placed') /\ OpsFrom(d, locked[d].ops, placed')
    BY <2>1, FromMore DEF Belonging
  <2>. QED BY <2>1, <2>2
<1>. QED BY <1>1 DEF Belonging

\* whatever a user sends,
LEMMA BelongingPlace ==
  ASSUME ExchangeTypes, Belonging,
         \/ \E o \in Order : PlaceOrder(o)
         \/ \E d \in Deposit : PlaceDeposit(d)
         \/ \E w \in Withdrawal : PlaceWithdrawal(w)
  PROVE  Belonging'
<1>1. ASSUME NEW o \in Order, PlaceOrder(o) PROVE Belonging'
  <2>. DEFINE c == o.chain
              ops == [orders |-> Append(next[c].orders, o), deposits |-> next[c].deposits,
                      withdrawals |-> next[c].withdrawals]
              sent == placed \cup {o}
  <2>1. c \in Chain /\ Waits(c, o, ops)
    BY <1>1, OrderWaits
  <2>2. next[c].orders \in Seq(Order)
    BY <2>1 DEF ExchangeTypes, Ops
  <2>3. From(c, Append(next[c].orders, o), sent) <=>
          From(c, next[c].orders, sent) /\ From(c, <<o>>, sent)
    <3>1. /\ Append(next[c].orders, o) \in Seq(Order) /\ <<o>> \in Seq(Order)
          /\ Joined(Append(next[c].orders, o), next[c].orders, <<o>>)
      BY <2>2, AppendJoined
    <3>. HIDE DEF c, sent
    <3>. QED BY <2>2, <3>1, JoinedFrom
  <2>4. From(c, <<o>>, sent)
    BY DEF From
  <2>5. OpsFrom(c, next[c], sent) => OpsFrom(c, ops, sent)
    BY <2>3, <2>4 DEF OpsFrom
  <2>. HIDE DEF c, ops
  <2>. QED BY <2>1, <2>5, BelongingWaits
<1>2. ASSUME NEW d \in Deposit, PlaceDeposit(d) PROVE Belonging'
  <2>. DEFINE c == d.chain
              ops == [orders |-> next[c].orders, deposits |-> Append(next[c].deposits, d),
                      withdrawals |-> next[c].withdrawals]
              sent == placed \cup {d}
  <2>1. c \in Chain /\ Waits(c, d, ops)
    BY <1>2, DepositWaits
  <2>2. next[c].deposits \in Seq(Deposit)
    BY <2>1 DEF ExchangeTypes, Ops
  <2>3. From(c, Append(next[c].deposits, d), sent) <=>
          From(c, next[c].deposits, sent) /\ From(c, <<d>>, sent)
    <3>1. /\ Append(next[c].deposits, d) \in Seq(Deposit) /\ <<d>> \in Seq(Deposit)
          /\ Joined(Append(next[c].deposits, d), next[c].deposits, <<d>>)
      BY <2>2, AppendJoined
    <3>. HIDE DEF c, sent
    <3>. QED BY <2>2, <3>1, JoinedFrom
  <2>4. From(c, <<d>>, sent)
    BY DEF From
  <2>5. OpsFrom(c, next[c], sent) => OpsFrom(c, ops, sent)
    BY <2>3, <2>4 DEF OpsFrom
  <2>. HIDE DEF c, ops
  <2>. QED BY <2>1, <2>5, BelongingWaits
<1>3. ASSUME NEW w \in Withdrawal, PlaceWithdrawal(w) PROVE Belonging'
  <2>. DEFINE c == w.chain
              ops == [orders |-> next[c].orders, deposits |-> next[c].deposits,
                      withdrawals |-> Append(next[c].withdrawals, w)]
  <2>1. c \in Chain /\ Waits(c, w, ops)
    BY <1>3, WithdrawalWaits
  <2>2. OpsFrom(c, next[c], placed \cup {w}) => OpsFrom(c, ops, placed \cup {w})
    BY DEF OpsFrom
  <2>. HIDE DEF c, ops
  <2>. QED BY <2>1, <2>2, BelongingWaits
<1>. QED BY <1>1, <1>2, <1>3

\* when a batch is locked,
LEMMA BelongingRotate ==
  ASSUME ExchangeTypes, Belonging, NEW c \in Chain, NEW remote, NEW b, NEW lock,
         Rotated(c, remote, b, lock), placed' = placed
  PROVE  Belonging'
<1>1. OpsFrom(c, NoOps, placed)
  BY DEF OpsFrom, From, NoOps
<1>2. ASSUME NEW d \in Chain
      PROVE  OpsFrom(d, next'[d], placed) /\ OpsFrom(d, locked'[d].ops, placed)
  <2>1. /\ next'[d] = IF d = c THEN NoOps ELSE next[d]
        /\ locked'[d] = IF d = c THEN lock ELSE locked[d]
        /\ lock.ops = next[c]
    BY DEF Rotated, ExchangeTypes
  <2>. QED BY <1>1, <2>1 DEF Belonging
<1>. QED BY <1>2 DEF Belonging

\* The operations of a block and of the batch locked in it, before and after its end.
LEMMA EndJoined ==
  ASSUME ExchangeTypes, NEW c \in Chain, NEW batch, Ends(c, batch)
  PROVE  LET ops == locked[c].ops
             late == next[c]
             left == LeftOver(ops, late)
         IN /\ \E s \in Seq(Order) : /\ Joined(batch.ops.orders, ops.orders, s)
                                     /\ Joined(late.orders, s, left.orders)
            /\ \E s \in Seq(Deposit) : /\ Joined(batch.ops.deposits, ops.deposits, s)
                                       /\ Joined(late.deposits, s, left.deposits)
            /\ ops \in Ops /\ late \in Ops /\ left \in Ops /\ batch.ops \in Ops
<1>. DEFINE ops == locked[c].ops
            late == next[c]
            mo == Moved(ops.orders, late.orders, MaxOrdersPerDexBatch)
            md == Moved(ops.deposits, late.deposits, MaxDepositsPerDexBatch)
<1>0. ops \in Ops /\ late \in Ops
  BY DEF ExchangeTypes, Batch
<1>. HIDE DEF ops, late
<1>1. /\ ops.orders \in Seq(Order) /\ late.orders \in Seq(Order)
      /\ ops.deposits \in Seq(Deposit) /\ late.deposits \in Seq(Deposit)
  BY <1>0 DEF Ops
<1>2. MaxOrdersPerDexBatch \in Nat /\ MaxDepositsPerDexBatch \in Nat
  BY ExchangeAssumption
<1>3. batch.ops = Included(ops, late)
  BY DEF Ends, ops, late
<1>4. batch.ops.orders = ops.orders \o mo /\ batch.ops.deposits = ops.deposits \o md
  <2>1. /\ Included(ops, late).orders = ops.orders \o mo
        /\ Included(ops, late).deposits = ops.deposits \o md
    BY DEF Included
  <2>. QED BY <1>3, <2>1
<1>5. /\ LeftOver(ops, late).orders = Left(ops.orders, late.orders, MaxOrdersPerDexBatch)
      /\ LeftOver(ops, late).deposits = Left(ops.deposits, late.deposits, MaxDepositsPerDexBatch)
  BY DEF LeftOver
<1>6. /\ mo \in Seq(Order) /\ Joined(late.orders, mo, LeftOver(ops, late).orders)
      /\ md \in Seq(Deposit) /\ Joined(late.deposits, md, LeftOver(ops, late).deposits)
  BY <1>1, <1>2, <1>5, MovedJoined
<1>. HIDE DEF mo, md
<1>7. Joined(ops.orders \o mo, ops.orders, mo) /\ Joined(ops.deposits \o md, ops.deposits, md)
  BY <1>1, <1>6, ConcatJoined
<1>8. LeftOver(ops, late) \in Ops /\ batch.ops \in Ops
  BY <1>0, <1>3, IncludedKeeps
<1>. QED BY <1>0, <1>4, <1>6, <1>7, <1>8 DEF ops, late

\* and when its block ends.
LEMMA BelongingEnd ==
  ASSUME ExchangeTypes, Belonging, NEW c \in Chain, NEW batch, Ends(c, batch)
  PROVE  Belonging'
<1>. DEFINE ops == locked[c].ops
            late == next[c]
            left == LeftOver(ops, late)
<1>1. /\ \E s \in Seq(Order) : /\ Joined(batch.ops.orders, ops.orders, s)
                               /\ Joined(late.orders, s, left.orders)
      /\ \E s \in Seq(Deposit) : /\ Joined(batch.ops.deposits, ops.deposits, s)
                                 /\ Joined(late.deposits, s, left.deposits)
      /\ ops \in Ops /\ late \in Ops /\ left \in Ops /\ batch.ops \in Ops
  BY EndJoined
<1>2. OpsFrom(c, ops, placed) /\ OpsFrom(c, late, placed)
  BY DEF Belonging
<1>3. /\ next' = [next EXCEPT ![c] = left] /\ locked' = [locked EXCEPT ![c] = batch]
      /\ placed' = placed
  BY DEF Ends
<1>. HIDE DEF ops, late, left
<1>4. From(c, batch.ops.orders, placed) /\ From(c, left.orders, placed)
  <2>1. PICK s \in Seq(Order) : /\ Joined(batch.ops.orders, ops.orders, s)
                                /\ Joined(late.orders, s, left.orders)
    BY <1>1
  <2>2. /\ ops.orders \in Seq(Order) /\ late.orders \in Seq(Order) /\ left.orders \in Seq(Order)
        /\ batch.ops.orders \in Seq(Order)
    BY <1>1 DEF Ops
  <2>3. From(c, late.orders, placed) <=> From(c, s, placed) /\ From(c, left.orders, placed)
    BY <2>1, <2>2, JoinedFrom
  <2>4. From(c, batch.ops.orders, placed) <=> From(c, ops.orders, placed) /\ From(c, s, placed)
    BY <2>1, <2>2, JoinedFrom
  <2>. QED BY <1>2, <2>3, <2>4 DEF OpsFrom
<1>5. From(c, batch.ops.deposits, placed) /\ From(c, left.deposits, placed)
  <2>1. PICK s \in Seq(Deposit) : /\ Joined(batch.ops.deposits, ops.deposits, s)
                                  /\ Joined(late.deposits, s, left.deposits)
    BY <1>1
  <2>2. /\ ops.deposits \in Seq(Deposit) /\ late.deposits \in Seq(Deposit)
        /\ left.deposits \in Seq(Deposit) /\ batch.ops.deposits \in Seq(Deposit)
    BY <1>1 DEF Ops
  <2>3. From(c, late.deposits, placed) <=> From(c, s, placed) /\ From(c, left.deposits, placed)
    BY <2>1, <2>2, JoinedFrom
  <2>4. From(c, batch.ops.deposits, placed)
          <=> From(c, ops.deposits, placed) /\ From(c, s, placed)
    BY <2>1, <2>2, JoinedFrom
  <2>. QED BY <1>2, <2>3, <2>4 DEF OpsFrom
<1>6. OpsFrom(c, batch.ops, placed) /\ OpsFrom(c, left, placed)
  BY <1>4, <1>5 DEF OpsFrom
<1>7. ASSUME NEW d \in Chain
      PROVE  OpsFrom(d, next'[d], placed') /\ OpsFrom(d, locked'[d].ops, placed')
  <2>1. /\ next'[d] = IF d = c THEN left ELSE next[d]
        /\ locked'[d] = IF d = c THEN batch ELSE locked[d]
    BY <1>3 DEF ExchangeTypes
  <2>. QED BY <1>3, <1>6, <2>1 DEF Belonging
<1>. QED BY <1>7 DEF Belonging

\* Every step keeps the operations of a chain its own.
LEMMA BelongingStep ==
  ASSUME ExchangeTypes, Belonging, [Next]_vars
  PROVE  Belonging'
<1>1. CASE \/ \E o \in Order : PlaceOrder(o)
           \/ \E d \in Deposit : PlaceDeposit(d)
           \/ \E w \in Withdrawal : PlaceWithdrawal(w)
  BY <1>1, BelongingPlace
<1>2. ASSUME NEW c \in Chain, Receive(c) PROVE Belonging'
  <2>1. PICK remote : HandleBatch(c, remote, ledger[c], locked[c])
    BY <1>2 DEF Receive
  <2>2. placed' = placed
    BY <1>2 DEF Receive
  <2>. QED BY <2>1, <2>2, HandleRotates, BelongingRotate
<1>3. ASSUME NEW c \in Chain, EndBlock(c) PROVE Belonging'
  BY <1>3, EndBlockEnds, BelongingEnd
<1>4. CASE Fallback
  <2>1. PICK remote, books : HandleBatch("nested", remote, books, NoBatch(0))
    BY <1>4 DEF Fallback
  <2>2. placed' = placed /\ "nested" \in Chain
    BY <1>4, ChainFacts DEF Fallback
  <2>. QED BY <2>1, <2>2, HandleRotates, BelongingRotate
<1>5. CASE UNCHANGED vars
  BY <1>5 DEF Belonging, vars
<1>. QED BY <1>1, <1>2, <1>3, <1>4, <1>5 DEF Next

\* They are initially, when there are none.
LEMMA BelongingInit ==
  ASSUME Init
  PROVE  Belonging
<1>1. OpsFrom("root", NoOps, placed) /\ OpsFrom("nested", NoOps, placed)
  BY DEF OpsFrom, From, NoOps
<1>2. \A c \in Chain : next[c] = NoOps /\ locked[c].ops = NoOps
  BY DEF Init, NoBatch
<1>. QED BY <1>1, <1>2 DEF Belonging, Chain

-----------------------------------------------------------------------------
(***************************************************************************)
(* The two chains in step: when a chain has answered the batch of the      *)
(* other, settling it will bring the other where this one is.              *)
(***************************************************************************)
\* No deposit of the root chain waits to be counted by a chain that gave up a lock.
Clean == fallbacks = 0 \/ (\A d \in Deposit \cap placed : d.chain = "nested")

\* What a chain with these books makes of the answer to its batch is what the other
\* chain has.
Like(b, here) == b \in Book /\ b.points = here.points /\ b.liquidity = here.liquidity
Reflects(here, own, remote, there) ==
  \A b : Like(b, here) => Facing(Settled(b, own, remote), there)
ReflectsBack(here, own, remote) ==
  \A b : Like(b, here) => Settled(b, own, remote).liquidity = remote.counterPoolSize
Reflecting(c) ==
  LET d == Other(c) IN
  /\ Reflects(ledger[c], locked[c], locked[d], ledger[d])
  /\ fallbacks = 0 => ReflectsBack(ledger[c], locked[c], locked[d])
Mirroring ==
  Clean => \A c \in Chain : locked[Other(c)].answers = locked[c].id => Reflecting(c)

\* A batch without withdrawals changes no books by them,
LEMMA NoWithdrawal ==
  ASSUME NEW books
  PROVE  WithdrawAll(books, <<>>) = books
<1>1. DOMAIN <<>> = {}
  OBVIOUS
<1>2. \A f : SumOver(f, {}) = 0
  BY SumEmpty
<1>. QED BY <1>1, <1>2 DEF WithdrawAll

\* nor one without deposits by those.
LEMMA NoDeposit ==
  ASSUME NEW books, NEW local \in BOOLEAN
  PROVE  DepositAll(books, <<>>, local) = books
<1>1. DOMAIN <<>> = {}
  OBVIOUS
<1>2. Put(<<>>) = 0
  BY <1>1, SumEmpty DEF Put
<1>. QED BY <1>2 DEF DepositAll

\* A batch of orders only is settled by its receipts.
LEMMA SettledPlain ==
  ASSUME NEW books, NEW own, NEW remote,
         own.ops.deposits = <<>>, own.ops.withdrawals = <<>>
  PROVE  Settled(books, own, remote) = Traded(books, own, remote)
<1>. DEFINE traded == Traded(books, own, remote)
<1>1. Settled(books, own, remote) = DepositAll(WithdrawAll(traded, <<>>), <<>>, TRUE)
  BY DEF Settled
<1>. HIDE DEF traded
<1>2. WithdrawAll(traded, <<>>) = traded
  BY NoWithdrawal
<1>3. DepositAll(traded, <<>>, TRUE) = traded
  BY NoDeposit
<1>4. Settled(books, own, remote) = traded
  BY <1>1, <1>2, <1>3
<1>. QED BY <1>4 DEF traded

\* Orders change no points.
LEMMA TradedPoints ==
  ASSUME NEW books \in Book, NEW own, NEW remote
  PROVE  Traded(books, own, remote).points = books.points
<1>. DEFINE pool == remote.poolSize
            o == [account |-> books.account, holding |-> books.holding,
                  liquidity |-> books.liquidity, points |-> books.points,
                  counter |-> pool, receipts |-> <<>>]
            s == SettleOrders(o, own.ops.orders, remote.receipts)
<1>1. Traded(books, own, remote) = s
  BY DEF Traded, Opened
<1>2. o.points = books.points
  OBVIOUS
<1>3. \E h, l, a, k : s = [o EXCEPT !.holding = h, !.liquidity = l, !.account = a, !.counter = k]
  BY DEF SettleOrders
<1>4. s.points = o.points
  <2>1. PICK h, l, a, k :
          s = [o EXCEPT !.holding = h, !.liquidity = l, !.account = a, !.counter = k]
    BY <1>3
  <2>. HIDE DEF s
  <2>. QED BY <2>1
<1>. QED BY <1>1, <1>2, <1>4

\* A batch without operations changes nothing.
LEMMA TradedNothing ==
  ASSUME NEW books \in Book, NEW own, own.ops = NoOps, NEW remote, remote.poolSize \in Nat
  PROVE  LET s == Settled(books, own, remote) IN
         /\ s \in OpenBook(Nat) /\ s.points = books.points
         /\ s.liquidity = books.liquidity /\ s.counter = remote.poolSize
<1>. DEFINE pool == remote.poolSize
            o == Opened(books, pool)
            s == SettleOrders(o, <<>>, remote.receipts)
<1>1. /\ o \in OpenBook(Nat) /\ o.points = books.points
      /\ o.liquidity = books.liquidity /\ o.counter = pool
  BY OpenedBook
<1>2. Settled(books, own, remote) = s
  BY SettledPlain DEF Traded, NoOps
<1>3. <<>> \in Seq(Order) /\ DOMAIN <<>> = {} /\ PaidOrders(<<>>, remote.receipts) = {}
  BY DEF PaidOrders
<1>4. /\ s \in OpenBook(Int) /\ s.points = o.points
      /\ s.liquidity = o.liquidity + SumOver(Sales(<<>>), {})
      /\ s.counter = o.counter - SumOver(remote.receipts, {})
  <2>. HIDE DEF o
  <2>1. PICK none \in Seq(Order) : none = <<>>
    BY <1>3
  <2>2. DOMAIN none = {} /\ PaidOrders(none, remote.receipts) = {}
    BY <1>3, <2>1
  <2>3. \A i \in DOMAIN none : remote.receipts[i] \in Nat
    BY <2>2
  <2>. DEFINE t == SettleOrders(o, none, remote.receipts)
  <2>4. /\ t \in OpenBook(Int) /\ t.points = o.points
        /\ t.liquidity = o.liquidity + SumOver(Sales(none), {})
        /\ t.counter = o.counter - SumOver(remote.receipts, {})
    <3>1. o \in OpenBook(Nat)
      BY <1>1
    <3>2. /\ t \in OpenBook(Int) /\ t.points = o.points
          /\ t.liquidity = o.liquidity + SumOver(Sales(none), PaidOrders(none, remote.receipts))
          /\ t.counter = o.counter - SumOver(remote.receipts, PaidOrders(none, remote.receipts))
      BY <2>3, <3>1, SettleKeeps
    <3>. HIDE DEF t
    <3>. QED BY <2>2, <3>2
  <2>5. t = s /\ Sales(none) = Sales(<<>>)
    BY <2>1
  <2>. HIDE DEF t, s
  <2>. QED BY <2>4, <2>5
<1>5. SumOver(Sales(<<>>), {}) = 0 /\ SumOver(remote.receipts, {}) = 0
  BY SumEmpty
<1>. HIDE DEF o, s
<1>6. s.liquidity = books.liquidity /\ s.counter = pool /\ s.points = books.points
  <2>1. books.liquidity \in Nat /\ pool \in Nat
    BY DEF Book
  <2>. QED BY <1>1, <1>4, <1>5, <2>1
<1>7. s \in OpenBook(Nat)
  BY <1>4, <1>6 DEF OpenBook
<1>. QED BY <1>2, <1>6, <1>7

\* The answer that c gives to a batch of the other chain reflects what c did with it.
LEMMA AnswerReflects ==
  ASSUME NEW m \in OpenBook(Nat), m.counter > 0, NEW own \in Batch,
         NEW ordering \in Orderings(own.ops), NEW here, here.points = m.points,
         own.ops.deposits = <<>> \/ m.counter = here.liquidity,
         NEW done, done = Executed(m, own.ops, ordering),
         NEW lock, lock.poolSize = m.liquidity, lock.receipts = done.receipts,
         lock.counterPoolSize = done.counter
  PROVE  /\ Reflects(here, own, lock, Closed(done))
         /\ m.counter = here.liquidity => ReflectsBack(here, own, lock)
<1>1. ASSUME NEW b, Like(b, here)
      PROVE  /\ Facing(Settled(b, own, lock), done)
             /\ m.counter = here.liquidity => FacingBack(Settled(b, own, lock), done)
  <2>1. b \in Book /\ b.points = m.points /\ b.liquidity = here.liquidity
    BY <1>1 DEF Like
  <2>2. own.ops.deposits = <<>> \/ m.counter = b.liquidity
    BY <2>1
  <2>. QED BY <2>1, <2>2, MirrorBatch
<1>2. Closed(done).points = done.points /\ Closed(done).liquidity = done.liquidity
  BY DEF Closed
<1>3. Reflects(here, own, lock, Closed(done))
  BY <1>1, <1>2 DEF Reflects, Facing
<1>4. m.counter = here.liquidity => ReflectsBack(here, own, lock)
  BY <1>1 DEF ReflectsBack, FacingBack
<1>. QED BY <1>3, <1>4

\* A chain that did nothing reflects a batch with no operations.
LEMMA NothingReflects ==
  ASSUME NEW own, own.ops = NoOps, NEW lock, NEW here, NEW there \in Book,
         there.points = here.points, lock.poolSize = there.liquidity
  PROVE  /\ Reflects(here, own, lock, there)
         /\ here.liquidity = lock.counterPoolSize => ReflectsBack(here, own, lock)
<1>1. ASSUME NEW b, Like(b, here)
      PROVE  /\ Facing(Settled(b, own, lock), there)
             /\ Settled(b, own, lock).liquidity = here.liquidity
  <2>1. b \in Book /\ b.points = here.points /\ b.liquidity = here.liquidity
        /\ lock.poolSize \in Nat
    BY <1>1 DEF Like, Book
  <2>. QED BY <2>1, TradedNothing DEF Facing
<1>. QED BY <1>1 DEF Reflects, ReflectsBack

\* Books with the same pool and points are settled alike.
LEMMA SameLike ==
  ASSUME NEW here, NEW new, new.points = here.points, new.liquidity = here.liquidity,
         NEW there, NEW far, far.points = there.points, far.liquidity = there.liquidity,
         NEW own, NEW remote, NEW lock, lock.poolSize = remote.poolSize,
         lock.receipts = remote.receipts, lock.counterPoolSize = remote.counterPoolSize
  PROVE  /\ Reflects(here, own, remote, there) => Reflects(new, own, lock, far)
         /\ ReflectsBack(here, own, remote) => ReflectsBack(new, own, lock)
<1>1. \A b : Settled(b, own, lock) = Settled(b, own, remote)
  BY DEF Settled, Traded
<1>2. \A b : Like(b, here) <=> Like(b, new)
  BY DEF Like
<1>. QED BY <1>1, <1>2 DEF Reflects, ReflectsBack, Facing

\* The two chains keep in step.
InStep == Mirroring /\ MirrorExact

\* The pools stay in step when a user sends an operation,
LEMMA InStepPlace ==
  ASSUME ExchangeTypes, InStep, SameFlow, placed \subseteq placed'
  PROVE  InStep'
<1>1. /\ locked' = locked /\ fallbacks' = fallbacks
      /\ \A c \in Chain : /\ ledger'[c].points = ledger[c].points
                          /\ ledger'[c].liquidity = ledger[c].liquidity
      /\ \A c \in Chain : Other(c) \in Chain
  BY ChainFacts DEF SameFlow
<1>2. Clean' => Clean
  BY <1>1 DEF Clean
<1>3. ASSUME Clean', NEW c \in Chain, locked'[Other(c)].answers = locked'[c].id
      PROVE  Reflecting(c)'
  <2>1. Reflecting(c)
    BY <1>1, <1>2, <1>3 DEF InStep, Mirroring
  <2>. DEFINE d == Other(c)
  <2>2. /\ Reflects(ledger[c], locked[c], locked[d], ledger[d])
        /\ fallbacks = 0 => ReflectsBack(ledger[c], locked[c], locked[d])
    BY <2>1 DEF Reflecting
  <2>3. /\ ledger'[c].points = ledger[c].points /\ ledger'[c].liquidity = ledger[c].liquidity
        /\ ledger'[d].points = ledger[d].points /\ ledger'[d].liquidity = ledger[d].liquidity
    BY <1>1
  <2>4. /\ Reflects(ledger'[c], locked[c], locked[d], ledger'[d])
        /\ fallbacks = 0 => ReflectsBack(ledger'[c], locked[c], locked[d])
    BY <2>2, <2>3, SameLike
  <2>. QED BY <1>1, <2>4 DEF Reflecting
<1>4. MirrorExact'
  BY <1>1 DEF InStep, MirrorExact, Answered
<1>. QED BY <1>3, <1>4 DEF InStep, Mirroring

\* A chain that has just locked a batch has handled what the other one locked.
LEMMA InStepLock ==
  ASSUME InStep, NEW c \in Chain, NEW remote, NEW b, NEW lock, ExchangeTypes,
         Rotated(c, remote, b, lock), FlowFacts',
         LET d == Other(c) IN
         Clean' /\ remote.id = locked[d].id =>
           /\ Reflects(ledger[d], locked[d], lock, b)
           /\ fallbacks' = 0 => /\ ReflectsBack(ledger[d], locked[d], lock)
                                /\ IsEmpty(locked[d]) \/ lock.poolSize = locked[d].counterPoolSize
  PROVE  InStep'
<1>. DEFINE d == Other(c)
<1>1. /\ d \in Chain /\ d # c /\ Other(d) = c
      /\ \A x \in Chain : x = c \/ x = d
  BY ChainFacts
<1>. HIDE DEF d
<1>2. /\ locked'[c] = lock /\ locked'[d] = locked[d] /\ fresh'[c]
      /\ ledger'[c] = b /\ ledger'[d] = ledger[d]
      /\ lock.answers = remote.id
  BY <1>1 DEF Rotated, ExchangeTypes
<1>3. locked'[d].answers # locked'[c].id
  BY <1>2 DEF FlowFacts, Unanswered, d
<1>4. ASSUME Clean', NEW x \in Chain, locked'[Other(x)].answers = locked'[x].id
      PROVE  Reflecting(x)'
  <2>1. x = d
    BY <1>1, <1>3, <1>4 DEF d
  <2>2. remote.id = locked[d].id
    BY <1>1, <1>2, <1>4, <2>1
  <2>3. /\ Reflects(ledger[d], locked[d], lock, b)
        /\ fallbacks' = 0 => ReflectsBack(ledger[d], locked[d], lock)
    BY <1>4, <2>2 DEF d
  <2>. QED BY <1>1, <1>2, <2>1, <2>3 DEF Reflecting
<1>5. MirrorExact'
  <2>. SUFFICES ASSUME NEW x \in Chain, fallbacks' = 0, Answered(Other(x))'
                PROVE  locked'[Other(x)].poolSize = locked'[x].counterPoolSize
    BY DEF MirrorExact
  <2>1. /\ ~IsEmpty(locked'[Other(Other(x))])
        /\ locked'[Other(x)].answers = locked'[Other(Other(x))].id
    BY DEF Answered
  <2>2. x = d /\ Other(x) = c
    BY <1>1, <1>3, <2>1 DEF d
  <2>3. remote.id = locked[d].id /\ ~IsEmpty(locked[d])
    BY <1>1, <1>2, <2>1, <2>2 DEF d
  <2>4. Clean'
    BY DEF Clean
  <2>. QED BY <1>2, <2>2, <2>3, <2>4 DEF d
<1>. QED BY <1>4, <1>5 DEF InStep, Mirroring

\* when a chain has handled the batch of the other,
LEMMA InStepReceive ==
  ASSUME ExchangeTypes, Alternating, InStep, NEW c \in Chain, Receive(c), FlowFacts'
  PROVE  InStep'
<1>. DEFINE d == Other(c)
            own == locked[c]
<1>1. d \in Chain /\ d # c /\ Other(d) = c /\ outbox[d] \in Seq(Mail)
  BY ChainFacts DEF ExchangeTypes
<1>. HIDE DEF d
<1>2. PICK i \in DOMAIN outbox[d] :
        /\ HandleBatch(c, outbox[d][i].batch, ledger[c], own)
        /\ c = "root" => ~IsEmpty(outbox[d][i].batch)
  BY DEF Receive, d
<1>. DEFINE remote == outbox[d][i].batch
<1>3. fallbacks' = fallbacks /\ placed' = placed /\ (Clean' <=> Clean)
  BY DEF Receive, Clean
<1>4. FlowFacts
  BY AlternatingFacts
<1>5. remote.id = locked[d].id => remote = locked[d]
  <2>1. \A x \in DOMAIN outbox[d] :
          outbox[d][x].batch.id = locked[d].id
            => outbox[d][x] = Published(locked[d], ledger[d].points)
    BY <1>1, <1>4 DEF FlowFacts, Current
  <2>2. Published(locked[d], ledger[d].points).batch = locked[d]
    BY DEF Published
  <2>. QED BY <2>1, <2>2
<1>6. /\ ledger[c] \in Book /\ ledger[d] \in Book /\ own \in Batch /\ remote \in Batch
      /\ locked[d] \in Batch
  <2>1. outbox[d][i] \in Mail
    BY <1>1
  <2>. QED BY <1>1, <2>1 DEF ExchangeTypes, Mail
<1>. HIDE DEF remote, own
<1>7. CASE Quiet(c, remote, ledger[c], own)
  <2>. DEFINE books == ledger[c]
              opened == Opened(books, remote.poolSize)
  <2>1. /\ IsEmpty(remote) /\ IsEmpty(own)
        /\ Rotate(c, remote, books.liquidity, opened)
        /\ ledger' = [ledger EXCEPT ![c] = books]
    BY <1>7 DEF Quiet
  <2>2. opened.receipts = <<>> /\ opened.counter = remote.poolSize
    BY DEF Opened
  <2>. HIDE DEF books, opened
  <2>3. PICK lock : /\ Rotated(c, remote, books, lock)
                    /\ lock.receipts = <<>> /\ lock.poolSize = books.liquidity
                    /\ lock.counterPoolSize = remote.poolSize
    <3>1. \E lock : RotatedAs(c, remote, books, lock, opened.receipts, books.liquidity,
                              opened.counter)
      BY <2>1, RotateAs
    <3>. QED BY <2>2, <3>1 DEF RotatedAs
  <2>4. c = "nested"
    BY <1>2, <2>1, ChainFacts DEF remote
  <2>5. NotStarted
    BY <2>1, <2>4, NestedFirst DEF own
  <2>6. /\ locked[d] = NoBatch(InitialLiquidity[d]) /\ ledger[d].liquidity = InitialLiquidity[d]
        /\ ledger[c].points = ledger[d].points
        /\ outbox[d] = <<Published(locked[d], ledger[d].points)>>
    BY <1>1, <2>4, <2>5, ChainFacts DEF NotStarted
  <2>7. /\ locked[d].ops = NoOps /\ locked[d].poolSize = InitialLiquidity[d] /\ IsEmpty(locked[d])
    BY <2>6 DEF NoBatch, IsEmpty
  <2>8. remote = locked[d]
    <3>1. i = 1
      BY <1>1, <2>6
    <3>. QED BY <2>6, <3>1 DEF Published, remote
  <2>9. /\ Reflects(ledger[d], locked[d], lock, books)
        /\ ReflectsBack(ledger[d], locked[d], lock)
    <3>1. books \in Book /\ books.points = ledger[d].points /\ lock.poolSize = books.liquidity
          /\ ledger[d].liquidity = lock.counterPoolSize
      BY <1>6, <2>3, <2>6, <2>7, <2>8 DEF books
    <3>. QED BY <2>7, <3>1, NothingReflects
  <2>. QED BY <2>3, <2>7, <2>9, InStepLock DEF d
<1>8. ASSUME NEW ordering \in Orderings(remote.ops), Busy(c, remote, ledger[c], own, ordering)
      PROVE  InStep'
  <2>. DEFINE m == Settled(ledger[c], own, remote)
              done == Executed(m, remote.ops, ordering)
              mid == m.liquidity
              b == Closed(done)
  <2>1. /\ ~IsEmpty(remote) /\ (IsEmpty(own) \/ Answers(remote, own))
        /\ Traded(ledger[c], own, remote).counter > 0
        /\ m.counter > 0 /\ m.liquidity > 0
        /\ ledger' = [ledger EXCEPT ![c] = b]
        /\ Rotate(c, remote, mid, done)
    BY <1>8 DEF Busy
  <2>2. m \in OpenBook(Nat)
    BY <1>6, <2>1, SettledKeeps
  <2>. HIDE DEF m, b, done, mid
  <2>3. PICK lock : /\ Rotated(c, remote, b, lock)
                    /\ lock.receipts = done.receipts /\ lock.poolSize = mid
                    /\ lock.counterPoolSize = done.counter
    <3>1. \E lock : RotatedAs(c, remote, b, lock, done.receipts, mid, done.counter)
      BY <2>1, RotateAs
    <3>. QED BY <3>1 DEF RotatedAs
  <2>4. ASSUME Clean', remote.id = locked[d].id
        PROVE  /\ Reflects(ledger[d], locked[d], lock, b)
               /\ fallbacks' = 0 => /\ ReflectsBack(ledger[d], locked[d], lock)
                                    /\ lock.poolSize = locked[d].counterPoolSize
    <3>1. remote = locked[d]
      BY <1>5, <2>4 DEF remote
    <3>2. remote.answers = own.id
      <4>1. CASE IsEmpty(own)
        BY <1>4, <2>1, <3>1, <4>1 DEF FlowFacts, FirstAnswer, own, d
      <4>2. CASE Answers(remote, own)
        BY <4>2 DEF Answers
      <4>. QED BY <2>1, <4>1, <4>2
    <3>3. Reflecting(c)
      BY <1>3, <2>4, <3>1, <3>2 DEF InStep, Mirroring, own, d
    <3>4. /\ Reflects(ledger[c], own, remote, ledger[d])
          /\ fallbacks = 0 => ReflectsBack(ledger[c], own, remote)
      BY <3>1, <3>3 DEF Reflecting, own, d
    <3>5. Like(ledger[c], ledger[c])
      BY <1>6 DEF Like
    <3>6. m.points = ledger[d].points /\ m.counter = ledger[d].liquidity
      BY <3>4, <3>5 DEF Reflects, Facing, m
    <3>7. fallbacks = 0 => m.liquidity = remote.counterPoolSize
      BY <3>4, <3>5 DEF ReflectsBack, m
    <3>8. Reflects(ledger[d], remote, lock, b) /\ ReflectsBack(ledger[d], remote, lock)
      <4>1. lock.poolSize = m.liquidity /\ done = Executed(m, remote.ops, ordering)
        BY <2>3 DEF mid, done
      <4>. QED BY <1>6, <2>1, <2>2, <2>3, <3>6, <4>1, AnswerReflects DEF b
    <3>. QED BY <1>3, <2>3, <3>1, <3>7, <3>8 DEF mid
  <2>. QED BY <2>3, <2>4, InStepLock DEF d
<1>. QED BY <1>2, <1>7, <1>8, HandleCases DEF remote

\* when the nested chain has given up a lock,
LEMMA InStepFallback ==
  ASSUME ExchangeTypes, Alternating, Belonging, InStep, Fallback, FlowFacts'
  PROVE  InStep'
<1>. DEFINE c == "nested"
            d == "root"
            own == locked[c]
<1>1. c \in Chain /\ d \in Chain /\ Other(c) = d /\ outbox[d] \in Seq(Mail)
  BY DEF Chain, Other, ExchangeTypes
<1>2. PICK i \in DOMAIN outbox[d] :
        HandleBatch(c, outbox[d][i].batch, Refunded(ledger[c], own, outbox[d][i].points),
                    NoBatch(0))
  BY DEF Fallback
<1>. DEFINE seen == outbox[d][i]
            remote == seen.batch
            books == Refunded(ledger[c], own, seen.points)
            none == NoBatch(0)
<1>3. fallbacks' # 0 /\ placed' = placed
  BY DEF Fallback, ExchangeTypes
<1>4. FlowFacts
  BY AlternatingFacts
<1>5. remote.id = locked[d].id => remote = locked[d] /\ seen.points = ledger[d].points
  <2>1. \A x \in DOMAIN outbox[d] :
          outbox[d][x].batch.id = locked[d].id
            => outbox[d][x] = Published(locked[d], ledger[d].points)
    BY <1>1, <1>4 DEF FlowFacts, Current
  <2>2. /\ Published(locked[d], ledger[d].points).batch = locked[d]
        /\ Published(locked[d], ledger[d].points).points = ledger[d].points
    BY DEF Published
  <2>. QED BY <2>1, <2>2
<1>6. /\ ledger[c] \in Book /\ ledger[d] \in Book /\ own \in Batch /\ remote \in Batch
      /\ seen.points \in [Holder -> Nat] /\ locked[d] \in Batch
  <2>1. seen \in Mail
    BY <1>1
  <2>. QED BY <1>1, <2>1 DEF ExchangeTypes, Mail
<1>7. none \in Batch /\ none.ops = NoOps /\ IsEmpty(none)
  BY NoBatchType DEF NoBatch, IsEmpty
<1>8. books \in Book /\ books.points = seen.points
  <2>. HIDE DEF seen, own, c
  <2>. QED BY <1>6, RefundedBook
<1>9. Clean' => locked[d].ops.deposits = <<>>
  <2>. SUFFICES ASSUME Clean' PROVE locked[d].ops.deposits = <<>>
    OBVIOUS
  <2>. DEFINE s == locked[d].ops.deposits
  <2>1. s \in Seq(Deposit)
    BY <1>6 DEF Batch, Ops
  <2>2. \A x \in DOMAIN s : s[x].chain = "root" /\ s[x] \in placed
    BY <1>1 DEF Belonging, OpsFrom, From
  <2>3. \A x \in Deposit \cap placed : x.chain = "nested"
    BY <1>3 DEF Clean
  <2>. HIDE DEF s
  <2>4. DOMAIN s = {}
    BY <2>1, <2>2, <2>3, SeqDomain
  <2>5. s = <<>>
    BY <2>1, <2>4
  <2>. QED BY <2>5 DEF s
<1>10. HandleBatch(c, remote, books, none)
  BY <1>2
<1>. HIDE DEF seen, remote, books, none, own
<1>11. CASE Quiet(c, remote, books, none)
  <2>. DEFINE opened == Opened(books, remote.poolSize)
  <2>1. /\ IsEmpty(remote)
        /\ Rotate(c, remote, books.liquidity, opened)
        /\ ledger' = [ledger EXCEPT ![c] = books]
    BY <1>11 DEF Quiet
  <2>. HIDE DEF opened, c
  <2>3. PICK lock : Rotated(c, remote, books, lock) /\ lock.poolSize = books.liquidity
    <3>1. \E lock : RotatedAs(c, remote, books, lock, opened.receipts, books.liquidity,
                              opened.counter)
      BY <2>1, RotateAs
    <3>. QED BY <3>1 DEF RotatedAs
  <2>4. ASSUME remote.id = locked[d].id
        PROVE  Reflects(ledger[d], locked[d], lock, books)
    <3>1. remote = locked[d] /\ books.points = ledger[d].points
      BY <1>5, <1>8, <2>4 DEF remote
    <3>2. locked[d].ops = NoOps
      BY <2>1, <3>1 DEF IsEmpty
    <3>. HIDE DEF d
    <3>. QED BY <1>8, <2>3, <3>1, <3>2, NothingReflects
  <2>. QED BY <1>1, <1>3, <2>3, <2>4, InStepLock
<1>12. ASSUME NEW ordering \in Orderings(remote.ops), Busy(c, remote, books, none, ordering)
       PROVE  InStep'
  <2>. DEFINE m == Settled(books, none, remote)
              done == Executed(m, remote.ops, ordering)
              mid == m.liquidity
              b == Closed(done)
  <2>1. /\ m.counter > 0
        /\ ledger' = [ledger EXCEPT ![c] = b]
        /\ Rotate(c, remote, mid, done)
    BY <1>12 DEF Busy
  <2>2. m \in OpenBook(Nat) /\ m.points = books.points
    <3>1. remote.poolSize \in Nat
      BY <1>6 DEF Batch
    <3>. QED BY <1>7, <1>8, <3>1, TradedNothing
  <2>. HIDE DEF m, b, done, mid, c
  <2>3. PICK lock : /\ Rotated(c, remote, b, lock)
                    /\ lock.receipts = done.receipts /\ lock.poolSize = mid
                    /\ lock.counterPoolSize = done.counter
    <3>1. \E lock : RotatedAs(c, remote, b, lock, done.receipts, mid, done.counter)
      BY <2>1, RotateAs
    <3>. QED BY <3>1 DEF RotatedAs
  <2>4. ASSUME Clean', remote.id = locked[d].id
        PROVE  Reflects(ledger[d], locked[d], lock, b)
    <3>1. remote = locked[d] /\ books.points = ledger[d].points
      BY <1>5, <1>8, <2>4 DEF remote
    <3>2. remote.ops.deposits = <<>>
      BY <1>9, <2>4, <3>1
    <3>3. lock.poolSize = m.liquidity /\ done = Executed(m, remote.ops, ordering)
      BY <2>3 DEF mid, done
    <3>4. Reflects(ledger[d], remote, lock, b)
      <4>. HIDE DEF d
      <4>1. ledger[d].points = m.points
        BY <2>2, <3>1
      <4>. QED BY <1>6, <1>12, <2>1, <2>2, <2>3, <3>2, <3>3, <4>1, AnswerReflects DEF b
    <3>. QED BY <3>1, <3>4
  <2>. QED BY <1>1, <1>3, <2>3, <2>4, InStepLock
<1>. QED BY <1>10, <1>11, <1>12, HandleCases

\* and when a block ends.
LEMMA InStepEnd ==
  ASSUME ExchangeTypes, Alternating, InStep, NEW c \in Chain, NEW batch, Ends(c, batch)
  PROVE  InStep'
<1>. DEFINE d == Other(c)
<1>1. /\ d \in Chain /\ d # c /\ Other(d) = c
      /\ \A x \in Chain : x = c \/ x = d
  BY ChainFacts
<1>. HIDE DEF d
<1>2. /\ locked'[c] = batch /\ locked'[d] = locked[d]
      /\ ledger' = ledger /\ fallbacks' = fallbacks /\ placed' = placed
      /\ batch.id = locked[c].id /\ batch.answers = locked[c].answers
      /\ batch.receipts = locked[c].receipts /\ batch.poolSize = locked[c].poolSize
      /\ batch.counterPoolSize = locked[c].counterPoolSize
      /\ fresh[c]
  BY <1>1 DEF Ends, ExchangeTypes
<1>3. locked[d].answers # locked[c].id
  BY <1>2, AlternatingFacts DEF FlowFacts, Unanswered, d
<1>4. Clean' <=> Clean
  BY <1>2 DEF Clean
<1>5. ASSUME Clean', NEW x \in Chain, locked'[Other(x)].answers = locked'[x].id
      PROVE  Reflecting(x)'
  <2>1. x = d
    BY <1>1, <1>2, <1>3, <1>5 DEF d
  <2>2. Reflecting(d)
    BY <1>1, <1>2, <1>4, <1>5, <2>1 DEF InStep, Mirroring
  <2>3. /\ Reflects(ledger[d], locked[d], locked[c], ledger[c])
        /\ fallbacks = 0 => ReflectsBack(ledger[d], locked[d], locked[c])
    BY <1>1, <2>2 DEF Reflecting
  <2>4. /\ Reflects(ledger[d], locked[d], batch, ledger[c])
        /\ fallbacks = 0 => ReflectsBack(ledger[d], locked[d], batch)
    BY <1>2, <2>3, SameLike
  <2>. QED BY <1>1, <1>2, <2>1, <2>4 DEF Reflecting
<1>6. MirrorExact'
  <2>. SUFFICES ASSUME NEW x \in Chain, fallbacks' = 0, Answered(Other(x))'
                PROVE  locked'[Other(x)].poolSize = locked'[x].counterPoolSize
    BY DEF MirrorExact
  <2>1. /\ ~IsEmpty(locked'[Other(Other(x))])
        /\ locked'[Other(x)].answers = locked'[Other(Other(x))].id
    BY DEF Answered
  <2>2. x = d /\ Other(x) = c
    BY <1>1, <1>2, <1>3, <2>1 DEF d
  <2>3. Answered(c)
    BY <1>1, <1>2, <2>1, <2>2 DEF Answered, d
  <2>4. locked[c].poolSize = locked[d].counterPoolSize
    BY <1>1, <1>2, <2>2, <2>3 DEF InStep, MirrorExact
  <2>. QED BY <1>2, <2>2, <2>4
<1>. QED BY <1>5, <1>6 DEF InStep, Mirroring

\* They are in step initially.
LEMMA InStepInit ==
  ASSUME Init
  PROVE  InStep
<1>1. \A c \in Chain : /\ locked[c].answers = NULL /\ locked[c].id = 0 /\ IsEmpty(locked[c])
                       /\ Other(c) \in Chain /\ Other(Other(c)) = c
  BY ChainFacts DEF Init, NoBatch, IsEmpty
<1>2. 0 # NULL
  BY ExchangeAssumption
<1>. QED BY <1>1, <1>2 DEF InStep, Mirroring, MirrorExact, Answered

DexInv == ExchangeTypes /\ AllAccounted /\ Alternating /\ Belonging /\ InStep

\* The invariant holds initially.
LEMMA DexInvInit ==
  ASSUME Init
  PROVE  DexInv
BY ExchangeInit, AlternatingInit, BelongingInit, InStepInit DEF DexInv

\* Every step keeps the pools in step.
LEMMA InStepStep ==
  ASSUME ExchangeTypes, Alternating, Belonging, InStep, FlowFacts', [Next]_vars
  PROVE  InStep'
<1>1. CASE \/ \E o \in Order : PlaceOrder(o)
           \/ \E d \in Deposit : PlaceDeposit(d)
           \/ \E w \in Withdrawal : PlaceWithdrawal(w)
  <2>1. SameFlow
    BY <1>1, PlacesSameFlow
  <2>2. placed \subseteq placed'
    BY <1>1 DEF PlaceOrder, PlaceDeposit, PlaceWithdrawal
  <2>. QED BY <2>1, <2>2, InStepPlace
<1>2. ASSUME NEW c \in Chain, Receive(c) PROVE InStep'
  BY <1>2, InStepReceive
<1>3. ASSUME NEW c \in Chain, EndBlock(c) PROVE InStep'
  BY <1>3, EndBlockEnds, InStepEnd
<1>4. CASE Fallback
  BY <1>4, InStepFallback
<1>5. CASE UNCHANGED vars
  <2>1. SameFlow /\ placed \subseteq placed'
    BY <1>5 DEF vars, SameFlow
  <2>. QED BY <2>1, InStepPlace
<1>. QED BY <1>1, <1>2, <1>3, <1>4, <1>5 DEF Next

\* The facts about the alternation hold after a step as well.
LEMMA NextFacts == ExchangeTypes' /\ Alternating' => FlowFacts'
<1>1. ExchangeTypes /\ Alternating => FlowFacts
  BY AlternatingFacts
<1>. QED BY <1>1, PTL

\* Every step keeps the invariant.
LEMMA DexInvStep ==
  ASSUME DexInv, [Next]_vars
  PROVE  DexInv'
<1>1. ExchangeTypes /\ AllAccounted /\ Alternating /\ Belonging /\ InStep
  BY DEF DexInv
<1>2. ExchangeTypes' /\ AllAccounted'
  BY <1>1, ExchangeStep
<1>3. Alternating'
  BY <1>1, AlternatingStep
<1>4. FlowFacts'
  BY <1>2, <1>3, NextFacts
<1>5. Belonging'
  BY <1>1, BelongingStep
<1>6. InStep'
  BY <1>1, <1>4, InStepStep
<1>. QED BY <1>2, <1>3, <1>5, <1>6 DEF DexInv

\* The inductive invariant: types, account, alternation of the batches, whose operations
\* they are, and the pools of the chains in step.
THEOREM DexInvariant == DexSpec => []DexInv
<1>1. Init => DexInv
  BY DexInvInit
<1>2. DexInv /\ [Next]_vars => DexInv'
  BY DexInvStep
<1>. QED BY <1>1, <1>2, PTL DEF DexSpec

\* The batches of the two chains answer each other in turn (RotateDexBatches), although
\* the root chain may read old ones: what can be read under the number of the locked batch
\* is that batch, a batch of the open block has no answer, and at most one chain is answered.
THEOREM AlternatingBatches == DexSpec => []FlowFacts
<1>1. DexInv => FlowFacts
  BY AlternatingFacts DEF DexInv
<1>. QED BY <1>1, DexInvariant, PTL

\* Without a fallback a chain computes with the very pool that the other has after it
\* settled its batch (poolSize and counterPoolSize of a batch).
THEOREM MirrorIsExact == DexSpec => []MirrorExact
<1>1. DexInv => MirrorExact
  BY DEF DexInv, InStep
<1>. QED BY <1>1, DexInvariant, PTL

\* Both chains have the same liquidity points when a chain has answered the batch of the
\* other and that batch changes none (HandleBatchWithdraw, HandleBatchDeposit).
THEOREM PointsAreMirrored == DexSpec => []PointsMirrored
<1>1. DexInv => PointsMirrored
  <2>. SUFFICES ASSUME DexInv, Clean, NEW c \in Chain, Answered(c),
                       \A d \in Chain : /\ locked[d].ops.deposits = <<>>
                                        /\ locked[d].ops.withdrawals = <<>>
                PROVE  ledger["root"].points = ledger["nested"].points
    BY DEF PointsMirrored, Clean
  <2>. DEFINE d == Other(c)
  <2>1. /\ d \in Chain /\ Other(d) = c /\ (\A x \in Chain : x = c \/ x = d)
        /\ Chain = {"root", "nested"}
    BY ChainFacts
  <2>. HIDE DEF d
  <2>2. locked[c].answers = locked[d].id
    BY DEF Answered, d
  <2>3. Reflecting(d)
    BY <2>1, <2>2 DEF DexInv, InStep, Mirroring
  <2>4. Reflects(ledger[d], locked[d], locked[c], ledger[c])
    BY <2>1, <2>3 DEF Reflecting
  <2>5. ledger[d] \in Book
    BY <2>1 DEF DexInv, ExchangeTypes
  <2>. DEFINE s == Settled(ledger[d], locked[d], locked[c])
  <2>6. s.points = ledger[c].points
    BY <2>4, <2>5 DEF Reflects, Like, Facing
  <2>7. s.points = ledger[d].points
    <3>1. locked[d].ops.deposits = <<>> /\ locked[d].ops.withdrawals = <<>>
      BY <2>1
    <3>. QED BY <2>5, <3>1, SettledPlain, TradedPoints
  <2>8. ledger[c].points = ledger[d].points
    BY <2>6, <2>7
  <2>. QED BY <2>1, <2>8
<1>. QED BY <1>1, DexInvariant, PTL

-----------------------------------------------------------------------------
(***************************************************************************)
(* Atomicity: an order is in one list of its chain at most, is not paid or *)
(* decided before its batch is answered, and then paid as the answer says. *)
(***************************************************************************)
\* No operation is twice in the two sequences.
Distinct(a, b) ==
  /\ \A i, j \in DOMAIN a : a[i] = a[j] => i = j
  /\ \A i, j \in DOMAIN b : b[i] = b[j] => i = j
  /\ \A i \in DOMAIN a, j \in DOMAIN b : a[i] # b[j]

Untouched(o) == outcome[o] = "open" /\ payments[o] = 0
Sound(o) ==
  /\ payments[o] \in {0, 1}
  /\ outcome[o] = "kept" => payments[o] = 1
  /\ outcome[o] = "returned" => payments[o] = 0

\* The orders of the locked batch are open, and paid as the other chain's answer says.
LockedOpen(c) ==
  LET s == locked[c].ops.orders
      answer == locked[Other(c)]
  IN /\ answer.answers # locked[c].id => \A i \in DOMAIN s : Untouched(s[i])
     /\ answer.answers = locked[c].id =>
          /\ DOMAIN answer.receipts = DOMAIN s
          /\ \A i \in DOMAIN s : /\ outcome[s[i]] = "open"
                                 /\ payments[s[i]] = IF answer.receipts[i] # 0 THEN 1 ELSE 0
OrdersOpen(c) ==
  /\ Distinct(locked[c].ops.orders, next[c].orders)
  /\ \A i \in DOMAIN next[c].orders : Untouched(next[c].orders[i])
  /\ LockedOpen(c)
PaidAsAnswered ==
  fallbacks = 0 => /\ \A c \in Chain : OrdersOpen(c)
                   /\ \A o \in Order : /\ o \notin placed => Untouched(o)
                                       /\ Sound(o)

\* The elements of a list that is one and then another.
LEMMA JoinedParts ==
  ASSUME NEW S, NEW w \in Seq(S), NEW a \in Seq(S), NEW b \in Seq(S), Joined(w, a, b)
  PROVE  /\ \A i \in DOMAIN a : i \in DOMAIN w /\ w[i] = a[i]
         /\ \A j \in DOMAIN b : Len(a) + j \in DOMAIN w /\ w[Len(a) + j] = b[j]
         /\ \A i \in DOMAIN w : i \in DOMAIN a \/ i - Len(a) \in DOMAIN b
         /\ DOMAIN a \subseteq Nat /\ DOMAIN b \subseteq Nat /\ Len(a) \in Nat
         /\ \A i \in DOMAIN a, j \in DOMAIN b : i # Len(a) + j
         /\ DOMAIN w \subseteq Nat
<1>. DEFINE n == Len(a)
            m == Len(b)
<1>1. /\ n \in Nat /\ m \in Nat /\ DOMAIN a = 1 .. n /\ DOMAIN b = 1 .. m
      /\ DOMAIN w = 1 .. n + m
      /\ \A i \in 1 .. n : w[i] = a[i]
      /\ \A j \in 1 .. m : w[n + j] = b[j]
  <2>1. n \in Nat /\ m \in Nat /\ DOMAIN a = 1 .. n /\ DOMAIN b = 1 .. m /\ DOMAIN w = 1 .. Len(w)
    BY SeqDomain
  <2>. QED BY <2>1 DEF Joined
<1>. HIDE DEF n, m
<1>2. \A i \in DOMAIN a : i \in DOMAIN w /\ w[i] = a[i]
  BY <1>1
<1>3. \A j \in DOMAIN b : n + j \in DOMAIN w /\ w[n + j] = b[j]
  BY <1>1
<1>4. \A i \in DOMAIN w : i \in DOMAIN a \/ i - n \in DOMAIN b
  BY <1>1
<1>5. \A i \in DOMAIN a, j \in DOMAIN b : i # n + j
  BY <1>1
<1>6. DOMAIN a \subseteq Nat /\ DOMAIN b \subseteq Nat /\ n \in Nat /\ DOMAIN w \subseteq Nat
  BY <1>1
<1>. QED BY <1>2, <1>3, <1>4, <1>5, <1>6 DEF n

\* What moves between two lists is in one of them only.
LEMMA DistinctMoves ==
  ASSUME NEW S, NEW a \in Seq(S), NEW b \in Seq(S), NEW s \in Seq(S), NEW a1 \in Seq(S),
         NEW b1 \in Seq(S), Joined(a1, a, s), Joined(b, s, b1), Distinct(a, b)
  PROVE  Distinct(a1, b1)
<1>. DEFINE n == Len(a)
            k == Len(s)
<1>1. /\ \A i \in DOMAIN a1 : i \in DOMAIN a \/ i - n \in DOMAIN s
      /\ \A i \in DOMAIN a : a1[i] = a[i]
      /\ \A j \in DOMAIN s : a1[n + j] = s[j]
      /\ n \in Nat /\ DOMAIN a1 \subseteq Nat
  BY JoinedParts
<1>2. /\ \A i \in DOMAIN s : i \in DOMAIN b /\ b[i] = s[i]
      /\ \A j \in DOMAIN b1 : k + j \in DOMAIN b /\ b[k + j] = b1[j]
      /\ \A i \in DOMAIN s, j \in DOMAIN b1 : i # k + j
      /\ k \in Nat /\ DOMAIN b1 \subseteq Nat /\ DOMAIN s \subseteq Nat
  BY JoinedParts
<1>. HIDE DEF n, k
<1>3. /\ \A i, j \in DOMAIN a : a[i] = a[j] => i = j
      /\ \A i, j \in DOMAIN b : b[i] = b[j] => i = j
      /\ \A i \in DOMAIN a, j \in DOMAIN b : a[i] # b[j]
  BY DEF Distinct
<1>4. ASSUME NEW i \in DOMAIN a1, i \notin DOMAIN a
      PROVE  i - n \in DOMAIN s /\ i - n \in DOMAIN b /\ a1[i] = b[i - n] /\ i \in Nat
  <2>1. i - n \in DOMAIN s /\ n + (i - n) = i /\ i \in Nat
    BY <1>1, <1>4
  <2>. QED BY <1>1, <1>2, <2>1
<1>5. ASSUME NEW i \in DOMAIN a1, NEW j \in DOMAIN a1, a1[i] = a1[j]
      PROVE  i = j
  <2>1. CASE i \in DOMAIN a /\ j \in DOMAIN a
    BY <1>1, <1>3, <1>5, <2>1
  <2>2. CASE i \in DOMAIN a /\ j \notin DOMAIN a
    BY <1>1, <1>3, <1>4, <1>5, <2>2
  <2>3. CASE i \notin DOMAIN a /\ j \in DOMAIN a
    BY <1>1, <1>3, <1>4, <1>5, <2>3
  <2>4. CASE i \notin DOMAIN a /\ j \notin DOMAIN a
    <3>1. i - n = j - n
      BY <1>3, <1>4, <1>5, <2>4
    <3>. QED BY <1>1, <1>4, <2>4, <3>1
  <2>. QED BY <2>1, <2>2, <2>3, <2>4
<1>6. ASSUME NEW i \in DOMAIN b1, NEW j \in DOMAIN b1, b1[i] = b1[j]
      PROVE  i = j
  <2>1. k + i = k + j
    BY <1>2, <1>3, <1>6
  <2>. QED BY <1>2, <2>1
<1>7. ASSUME NEW i \in DOMAIN a1, NEW j \in DOMAIN b1
      PROVE  a1[i] # b1[j]
  <2>1. CASE i \in DOMAIN a
    BY <1>1, <1>2, <1>3, <2>1
  <2>2. CASE i \notin DOMAIN a
    <3>1. i - n # k + j
      BY <1>2, <1>4, <2>2
    <3>. QED BY <1>2, <1>3, <1>4, <2>2, <3>1
  <2>. QED BY <2>1, <2>2
<1>. QED BY <1>5, <1>6, <1>7 DEF Distinct

\* An operation that is in no list joins one.
LEMMA DistinctNew ==
  ASSUME NEW S, NEW a \in Seq(S), NEW b \in Seq(S), Distinct(a, b), NEW x \in S,
         \A i \in DOMAIN a : a[i] # x, \A i \in DOMAIN b : b[i] # x
  PROVE  Distinct(a, Append(b, x))
<1>. DEFINE w == Append(b, x)
<1>1. /\ \A i \in DOMAIN b : w[i] = b[i]
      /\ \A i \in DOMAIN w : i \in DOMAIN b \/ (i = Len(b) + 1 /\ w[i] = x)
  OBVIOUS
<1>. HIDE DEF w
<1>2. /\ \A i, j \in DOMAIN a : a[i] = a[j] => i = j
      /\ \A i, j \in DOMAIN b : b[i] = b[j] => i = j
      /\ \A i \in DOMAIN a, j \in DOMAIN b : a[i] # b[j]
  BY DEF Distinct
<1>3. \A i, j \in DOMAIN w : w[i] = w[j] => i = j
  BY <1>1, <1>2
<1>4. \A i \in DOMAIN a, j \in DOMAIN w : a[i] # w[j]
  BY <1>1, <1>2
<1>. QED BY <1>2, <1>3, <1>4 DEF Distinct, w

\* What the proofs below need of the orders of a batch and of the waiting ones.
LEMMA BatchOrders ==
  ASSUME ExchangeTypes, Belonging, NEW c \in Chain
  PROVE  /\ locked[c].ops.orders \in Seq(Order) /\ next[c].orders \in Seq(Order)
         /\ \A i \in DOMAIN locked[c].ops.orders :
              LET o == locked[c].ops.orders[i] IN o \in Order /\ o.chain = c /\ o \in placed
         /\ \A i \in DOMAIN next[c].orders :
              LET o == next[c].orders[i] IN o \in Order /\ o.chain = c /\ o \in placed
<1>1. locked[c].ops \in Ops /\ next[c] \in Ops
  BY DEF ExchangeTypes, Batch
<1>2. locked[c].ops.orders \in Seq(Order) /\ next[c].orders \in Seq(Order)
  BY <1>1 DEF Ops
<1>3. From(c, locked[c].ops.orders, placed) /\ From(c, next[c].orders, placed)
  BY DEF Belonging, OpsFrom
<1>. QED BY <1>2, <1>3, SeqDomain DEF From

\* An operation of a user.
LEMMA OpenWaits ==
  ASSUME ExchangeTypes, Belonging, PaidAsAnswered, NEW c \in Chain, NEW x, NEW ops,
         Waits(c, x, ops),
         \/ ops.orders = next[c].orders
         \/ x \in Order /\ x \notin placed /\ ops.orders = Append(next[c].orders, x)
  PROVE  PaidAsAnswered'
<1>. SUFFICES ASSUME fallbacks = 0
              PROVE  /\ \A b \in Chain : OrdersOpen(b)'
                     /\ \A o \in Order : o \notin placed' => Untouched(o)'
                     /\ \A o \in Order : Sound(o)'
  <2>1. fallbacks' = fallbacks
    BY DEF Waits
  <2>. QED BY <2>1 DEF PaidAsAnswered
<1>1. /\ \A b \in Chain : OrdersOpen(b)
      /\ \A o \in Order : (o \notin placed => Untouched(o)) /\ Sound(o)
  BY DEF PaidAsAnswered
<1>2. /\ locked' = locked /\ outcome' = outcome /\ payments' = payments
      /\ placed' = placed \cup {x} /\ next' = [next EXCEPT ![c] = ops]
  BY DEF Waits
<1>3. \A b \in Chain : LockedOpen(b)'
  BY <1>1, <1>2 DEF OrdersOpen, LockedOpen, Untouched
<1>4. \A o : (Untouched(o)' <=> Untouched(o)) /\ (Sound(o)' <=> Sound(o))
  BY <1>2 DEF Untouched, Sound
<1>5. ASSUME NEW b \in Chain PROVE OrdersOpen(b)'
  <2>1. next \in [Chain -> Ops]
    BY DEF ExchangeTypes
  <2>2. /\ Distinct(locked[b].ops.orders, next[b].orders)
        /\ \A i \in DOMAIN next[b].orders : Untouched(next[b].orders[i])
    BY <1>1 DEF OrdersOpen
  <2>3. CASE b # c \/ ops.orders = next[c].orders
    <3>1. next'[b].orders = next[b].orders
      BY <1>2, <2>1, <2>3
    <3>. QED BY <1>2, <1>3, <1>4, <2>2, <3>1 DEF OrdersOpen
  <2>4. CASE b = c /\ x \in Order /\ x \notin placed /\ ops.orders = Append(next[c].orders, x)
    <3>. DEFINE w == next[c].orders
                s == locked[c].ops.orders
    <3>1. next'[b].orders = Append(w, x)
      BY <1>2, <2>1, <2>4
    <3>2. w \in Seq(Order) /\ s \in Seq(Order) /\ (\A i \in DOMAIN s : s[i] # x)
          /\ (\A i \in DOMAIN w : w[i] # x)
      BY <2>4, BatchOrders
    <3>3. Distinct(s, w)
      BY <2>2, <2>4
    <3>4. Untouched(x)
      BY <1>1, <2>4
    <3>5. \A i \in DOMAIN w : Untouched(w[i])
      BY <2>2, <2>4
    <3>. HIDE DEF w, s
    <3>6. Distinct(s, Append(w, x))
      BY <2>4, <3>2, <3>3, DistinctNew
    <3>7. \A i \in DOMAIN Append(w, x) :
            Append(w, x)[i] = x \/ (i \in DOMAIN w /\ Append(w, x)[i] = w[i])
      BY <2>4, <3>2
    <3>8. \A i \in DOMAIN Append(w, x) : Untouched(Append(w, x)[i])
      BY <3>4, <3>5, <3>7
    <3>9. locked'[b].ops.orders = s
      BY <1>2, <2>4 DEF s
    <3>. QED BY <1>3, <1>4, <3>1, <3>6, <3>8, <3>9 DEF OrdersOpen
  <2>. QED BY <2>3, <2>4
<1>. QED BY <1>1, <1>2, <1>4, <1>5

\* Whatever a user sends, the orders are paid as answered,
LEMMA OpenPlace ==
  ASSUME ExchangeTypes, Belonging, PaidAsAnswered,
         \/ \E o \in Order : PlaceOrder(o)
         \/ \E d \in Deposit : PlaceDeposit(d)
         \/ \E w \in Withdrawal : PlaceWithdrawal(w)
  PROVE  PaidAsAnswered'
<1>1. ASSUME NEW o \in Order, PlaceOrder(o) PROVE PaidAsAnswered'
  <2>. DEFINE c == o.chain
              ops == [orders |-> Append(next[c].orders, o), deposits |-> next[c].deposits,
                      withdrawals |-> next[c].withdrawals]
  <2>1. c \in Chain /\ o \notin placed /\ Waits(c, o, ops)
    BY <1>1, OrderWaits
  <2>2. ops.orders = Append(next[c].orders, o)
    OBVIOUS
  <2>. HIDE DEF ops, c
  <2>. QED BY <2>1, <2>2, OpenWaits
<1>2. ASSUME NEW d \in Deposit, PlaceDeposit(d) PROVE PaidAsAnswered'
  <2>. DEFINE c == d.chain
              ops == [orders |-> next[c].orders, deposits |-> Append(next[c].deposits, d),
                      withdrawals |-> next[c].withdrawals]
  <2>1. c \in Chain /\ Waits(c, d, ops)
    BY <1>2, DepositWaits
  <2>2. ops.orders = next[c].orders
    OBVIOUS
  <2>. HIDE DEF ops, c
  <2>. QED BY <2>1, <2>2, OpenWaits
<1>3. ASSUME NEW w \in Withdrawal, PlaceWithdrawal(w) PROVE PaidAsAnswered'
  <2>. DEFINE c == w.chain
              ops == [orders |-> next[c].orders, deposits |-> next[c].deposits,
                      withdrawals |-> Append(next[c].withdrawals, w)]
  <2>1. c \in Chain /\ Waits(c, w, ops)
    BY <1>3, WithdrawalWaits
  <2>2. ops.orders = next[c].orders
    OBVIOUS
  <2>. HIDE DEF ops, c
  <2>. QED BY <2>1, <2>2, OpenWaits
<1>. QED BY <1>1, <1>2, <1>3

\* The end of a block.
LEMMA OpenEnd ==
  ASSUME ExchangeTypes, Belonging, PaidAsAnswered, FlowFacts, NEW c \in Chain, NEW batch,
         Ends(c, batch)
  PROVE  PaidAsAnswered'
<1>. SUFFICES ASSUME fallbacks = 0
              PROVE  /\ \A b \in Chain : OrdersOpen(b)'
                     /\ \A o \in Order : o \notin placed' => Untouched(o)'
                     /\ \A o \in Order : Sound(o)'
  <2>1. fallbacks' = fallbacks
    BY DEF Ends
  <2>. QED BY <2>1 DEF PaidAsAnswered
<1>. DEFINE d == Other(c)
            ops == locked[c].ops
            late == next[c]
            left == LeftOver(ops, late)
<1>1. /\ \A b \in Chain : OrdersOpen(b)
      /\ \A o \in Order : (o \notin placed => Untouched(o)) /\ Sound(o)
  BY DEF PaidAsAnswered
<1>2. /\ outcome' = outcome /\ payments' = payments /\ placed' = placed
      /\ locked' = [locked EXCEPT ![c] = batch] /\ next' = [next EXCEPT ![c] = left]
      /\ batch.id = locked[c].id /\ batch.answers = locked[c].answers
      /\ batch.receipts = locked[c].receipts /\ fresh[c]
  BY DEF Ends
<1>3. d \in Chain /\ d # c /\ Other(d) = c /\ \A b \in Chain : b = c \/ b = d
  BY ChainFacts
<1>4. /\ locked'[c] = batch /\ locked'[d] = locked[d]
      /\ next'[c] = left /\ next'[d] = next[d]
  BY <1>2, <1>3 DEF ExchangeTypes
<1>5. locked[d].answers # locked[c].id
  BY <1>2 DEF FlowFacts, Unanswered
<1>6. PICK s \in Seq(Order) : Joined(batch.ops.orders, ops.orders, s)
                              /\ Joined(late.orders, s, left.orders)
  BY EndJoined
<1>7. /\ ops.orders \in Seq(Order) /\ late.orders \in Seq(Order)
      /\ left.orders \in Seq(Order) /\ batch.ops.orders \in Seq(Order)
  BY EndJoined DEF Ops
<1>8. /\ Distinct(ops.orders, late.orders)
      /\ \A i \in DOMAIN late.orders : Untouched(late.orders[i])
      /\ \A i \in DOMAIN ops.orders : Untouched(ops.orders[i])
  BY <1>1, <1>5 DEF OrdersOpen, LockedOpen
<1>9. \A o : (Untouched(o)' <=> Untouched(o)) /\ (Sound(o)' <=> Sound(o))
  BY <1>2 DEF Untouched, Sound
<1>. HIDE DEF d, ops, late, left
<1>10. Distinct(batch.ops.orders, left.orders)
  BY <1>6, <1>7, <1>8, DistinctMoves
<1>11. /\ \A i \in DOMAIN left.orders : Untouched(left.orders[i])
       /\ \A i \in DOMAIN s : Untouched(s[i])
  <2>. DEFINE k == Len(s)
  <2>1. /\ \A j \in DOMAIN left.orders : /\ k + j \in DOMAIN late.orders
                                         /\ late.orders[k + j] = left.orders[j]
        /\ \A i \in DOMAIN s : i \in DOMAIN late.orders /\ late.orders[i] = s[i]
    BY <1>6, <1>7, JoinedParts
  <2>. HIDE DEF k
  <2>. QED BY <1>8, <2>1
<1>12. \A i \in DOMAIN batch.ops.orders : Untouched(batch.ops.orders[i])
  <2>. DEFINE k == Len(ops.orders)
              w == batch.ops.orders
  <2>1. /\ \A i \in DOMAIN w : i \in DOMAIN ops.orders \/ i - k \in DOMAIN s
        /\ \A i \in DOMAIN ops.orders : w[i] = ops.orders[i]
        /\ \A j \in DOMAIN s : w[k + j] = s[j]
        /\ k \in Nat /\ DOMAIN w \subseteq Nat
    BY <1>6, <1>7, JoinedParts
  <2>. HIDE DEF k, w
  <2>2. ASSUME NEW i \in DOMAIN w PROVE Untouched(w[i])
    <3>1. CASE i \in DOMAIN ops.orders
      BY <1>8, <2>1, <3>1
    <3>2. CASE i - k \in DOMAIN s
      <4>1. k + (i - k) = i
        BY <2>1
      <4>2. w[i] = s[i - k]
        BY <2>1, <3>2, <4>1
      <4>. QED BY <1>11, <3>2, <4>2
    <3>. QED BY <2>1, <3>1, <3>2
  <2>. QED BY <2>2 DEF w
<1>13. OrdersOpen(c)'
  <2>1. LockedOpen(c)'
    <3>1. locked'[d].answers # locked'[c].id
      BY <1>2, <1>4, <1>5
    <3>. QED BY <1>4, <1>9, <1>12, <3>1 DEF LockedOpen, d
  <2>. QED BY <1>4, <1>9, <1>10, <1>11, <2>1 DEF OrdersOpen
<1>14. OrdersOpen(d)'
  <2>1. OrdersOpen(d)
    BY <1>1, <1>3
  <2>2. LockedOpen(d)'
    <3>1. /\ locked'[Other(d)].answers = locked[Other(d)].answers
          /\ locked'[Other(d)].receipts = locked[Other(d)].receipts
      BY <1>2, <1>3, <1>4
    <3>. QED BY <1>2, <1>4, <1>9, <2>1, <3>1 DEF OrdersOpen, LockedOpen
  <2>. QED BY <1>4, <1>9, <2>1, <2>2 DEF OrdersOpen
<1>15. \A b \in Chain : OrdersOpen(b)'
  BY <1>3, <1>13, <1>14
<1>. QED BY <1>1, <1>2, <1>9, <1>15

\* Handling a batch that c has not answered, when it settles its own.
Answering(c, own, remote, lock, receipts) ==
  /\ locked' = [locked EXCEPT ![c] = lock]
  /\ next' = [next EXCEPT ![c] = NoOps]
  /\ lock.ops = next[c] /\ lock.answers = remote.id /\ lock.receipts = receipts
  /\ outcome' = Decided(own, remote.receipts)
  /\ payments' = [o \in Order |->
        IF o \in PaidBy(remote.ops, receipts) THEN payments[o] + 1 ELSE payments[o]]
  /\ fallbacks' = fallbacks /\ placed' = placed

\* What it makes of an order of its own batch, of one of the other, and of the rest.
LEMMA DecidedOwn ==
  ASSUME NEW own, NEW receipts, NEW i \in DOMAIN own.ops.orders,
         own.ops.orders[i] \in Order,
         DOMAIN receipts = DOMAIN own.ops.orders, NEW waiting, Distinct(own.ops.orders, waiting)
  PROVE  Decided(own, receipts)[own.ops.orders[i]] = IF receipts[i] # 0 THEN "kept" ELSE "returned"
<1>. DEFINE o == own.ops.orders[i]
<1>1. o \in OrdersOf(own.ops)
  BY DEF OrdersOf
<1>2. o \in PaidBy(own.ops, receipts) <=> receipts[i] # 0
  BY DEF PaidBy, Distinct
<1>. HIDE DEF o
<1>3. o \in Order
  BY DEF o
<1>4. Decided(own, receipts)[o] = IF o \in PaidBy(own.ops, receipts) THEN "kept" ELSE "returned"
  BY <1>1, <1>3 DEF Decided
<1>. QED BY <1>2, <1>4 DEF o

\* Orders of other batches stay as they are.
LEMMA DecidedRest ==
  ASSUME NEW own, NEW receipts, NEW o \in Order,
         \A i \in DOMAIN own.ops.orders : own.ops.orders[i] # o
  PROVE  Decided(own, receipts)[o] = outcome[o]
<1>1. o \notin OrdersOf(own.ops)
  BY DEF OrdersOf
<1>. QED BY <1>1 DEF Decided

\* A chain that settles its batch by the answer, and pays the orders of the other one.
LEMMA OpenAnswered ==
  ASSUME ExchangeTypes, Belonging, PaidAsAnswered, fallbacks = 0, NEW c \in Chain,
         NEW own, own = locked[c], NEW remote, remote = locked[Other(c)],
         NEW lock, NEW receipts, DOMAIN receipts = DOMAIN remote.ops.orders,
         Answering(c, own, remote, lock, receipts),
         remote.answers # lock.id,
         locked[c].answers # remote.id,
         own.ops.orders = <<>> \/ remote.answers = own.id
  PROVE  PaidAsAnswered'
<1>. DEFINE d == Other(c)
            s == own.ops.orders
            r == remote.ops.orders
<1>1. d \in Chain /\ d # c /\ Other(d) = c /\ \A b \in Chain : b = c \/ b = d
  BY ChainFacts
<1>2. /\ locked' = [locked EXCEPT ![c] = lock] /\ next' = [next EXCEPT ![c] = NoOps]
      /\ lock.ops = next[c] /\ lock.answers = remote.id /\ lock.receipts = receipts
      /\ outcome' = Decided(own, remote.receipts)
      /\ payments' = [o \in Order |->
            IF o \in PaidBy(remote.ops, receipts) THEN payments[o] + 1 ELSE payments[o]]
      /\ fallbacks' = fallbacks /\ placed' = placed
  BY DEF Answering
<1>3. /\ OrdersOpen(c) /\ OrdersOpen(d)
      /\ \A o \in Order : (o \notin placed => Untouched(o)) /\ Sound(o)
  BY <1>1 DEF PaidAsAnswered
<1>4. /\ locked'[c] = lock /\ locked'[d] = remote
      /\ next'[c] = NoOps /\ next'[d] = next[d]
  BY <1>1, <1>2 DEF ExchangeTypes
<1>5. /\ s \in Seq(Order) /\ \A i \in DOMAIN s : s[i] \in Order /\ s[i].chain = c /\ s[i] \in placed
      /\ \A i \in DOMAIN r : r[i] \in Order /\ r[i].chain = d /\ r[i] \in placed
      /\ \A i \in DOMAIN next[c].orders : /\ next[c].orders[i] \in Order
                                          /\ next[c].orders[i].chain = c
      /\ \A i \in DOMAIN next[d].orders : /\ next[d].orders[i] \in Order
                                          /\ next[d].orders[i].chain = d
  BY <1>1, BatchOrders
<1>6. /\ Distinct(s, next[c].orders) /\ Distinct(r, next[d].orders)
      /\ \A i \in DOMAIN next[c].orders : Untouched(next[c].orders[i])
      /\ \A i \in DOMAIN next[d].orders : Untouched(next[d].orders[i])
  BY <1>3 DEF OrdersOpen
<1>7. \A i \in DOMAIN r : Untouched(r[i])
  BY <1>1, <1>3 DEF OrdersOpen, LockedOpen
<1>8. \A i \in DOMAIN s :
        /\ DOMAIN remote.receipts = DOMAIN s
        /\ payments[s[i]] = IF remote.receipts[i] # 0 THEN 1 ELSE 0
  <2>1. CASE s = <<>>
    BY <2>1
  <2>2. CASE remote.answers = own.id
    BY <1>3, <2>2 DEF OrdersOpen, LockedOpen
  <2>. QED BY <2>1, <2>2
<1>. HIDE DEF d
<1>9. ASSUME NEW o \in Order, \A i \in DOMAIN r : r[i] # o
      PROVE  payments'[o] = payments[o]
  <2>1. o \notin PaidBy(remote.ops, receipts)
    BY <1>9 DEF PaidBy
  <2>. QED BY <1>2, <2>1
<1>10. ASSUME NEW o \in Order, \A i \in DOMAIN s : s[i] # o
       PROVE  outcome'[o] = outcome[o]
  BY <1>2, <1>10, DecidedRest
<1>11. \A i \in DOMAIN r, x \in DOMAIN s : r[i] # s[x]
  BY <1>1, <1>5
<1>12. ASSUME NEW i \in DOMAIN s
       PROVE  /\ outcome'[s[i]] = IF remote.receipts[i] # 0 THEN "kept" ELSE "returned"
              /\ payments'[s[i]] = IF remote.receipts[i] # 0 THEN 1 ELSE 0
  <2>1. DOMAIN remote.receipts = DOMAIN s /\ s[i] \in Order /\ Distinct(s, next[c].orders)
    BY <1>5, <1>6, <1>8
  <2>2. outcome'[s[i]] = IF remote.receipts[i] # 0 THEN "kept" ELSE "returned"
    BY <1>2, <2>1, DecidedOwn
  <2>3. payments'[s[i]] = payments[s[i]]
    BY <1>5, <1>9, <1>11
  <2>. QED BY <1>8, <2>2, <2>3
<1>13. ASSUME NEW i \in DOMAIN r
       PROVE  /\ outcome'[r[i]] = "open"
              /\ payments'[r[i]] = IF receipts[i] # 0 THEN 1 ELSE 0
  <2>1. outcome'[r[i]] = outcome[r[i]]
    BY <1>5, <1>10, <1>11
  <2>2. \A x, y \in DOMAIN r : r[x] = r[y] => x = y
    BY <1>6 DEF Distinct
  <2>3. r[i] \in PaidBy(remote.ops, receipts) <=> receipts[i] # 0
    BY <2>2 DEF PaidBy
  <2>4. payments[r[i]] = 0 /\ outcome[r[i]] = "open"
    BY <1>7 DEF Untouched
  <2>. HIDE DEF r
  <2>5. r[i] \in Order
    BY <1>5
  <2>6. payments'[r[i]] = IF r[i] \in PaidBy(remote.ops, receipts) THEN 0 + 1 ELSE 0
    BY <1>2, <2>4, <2>5
  <2>. QED BY <2>1, <2>3, <2>4, <2>6
<1>14. ASSUME NEW o \in Order, Untouched(o), \A i \in DOMAIN s : s[i] # o,
              \A i \in DOMAIN r : r[i] # o
       PROVE  Untouched(o)'
  BY <1>9, <1>10, <1>14 DEF Untouched
<1>15. OrdersOpen(c)'
  <2>1. /\ Distinct(next[c].orders, <<>>)
        /\ NoOps.orders = <<>> /\ DOMAIN <<>> = {}
    BY <1>6 DEF Distinct, NoOps
  <2>2. ASSUME NEW i \in DOMAIN next[c].orders
        PROVE  outcome'[next[c].orders[i]] = "open" /\ payments'[next[c].orders[i]] = 0
    <3>. DEFINE o == next[c].orders[i]
    <3>1. o \in Order /\ Untouched(o)
      BY <1>5, <1>6
    <3>2. \A x \in DOMAIN s : s[x] # o
      BY <1>6 DEF Distinct
    <3>3. \A x \in DOMAIN r : r[x] # o
      BY <1>1, <1>5
    <3>. HIDE DEF o
    <3>4. outcome'[o] = "open" /\ payments'[o] = 0
      BY <1>9, <1>10, <3>1, <3>2, <3>3 DEF Untouched
    <3>. QED BY <3>4 DEF o
  <2>. QED BY <1>2, <1>4, <2>1, <2>2 DEF OrdersOpen, LockedOpen, Untouched, d
<1>16. OrdersOpen(d)'
  <2>1. ASSUME NEW i \in DOMAIN next[d].orders
        PROVE  outcome'[next[d].orders[i]] = "open" /\ payments'[next[d].orders[i]] = 0
    <3>. DEFINE o == next[d].orders[i]
    <3>1. o \in Order /\ Untouched(o)
      BY <1>5, <1>6
    <3>2. \A x \in DOMAIN r : r[x] # o
      BY <1>6 DEF Distinct
    <3>3. \A x \in DOMAIN s : s[x] # o
      BY <1>1, <1>5
    <3>. HIDE DEF o
    <3>4. outcome'[o] = "open" /\ payments'[o] = 0
      BY <1>9, <1>10, <3>1, <3>2, <3>3 DEF Untouched
    <3>. QED BY <3>4 DEF o
  <2>2. LockedOpen(d)'
    <3>1. locked'[Other(d)].receipts = receipts /\ locked'[Other(d)].answers = locked'[d].id
      BY <1>1, <1>2, <1>4
    <3>. QED BY <1>4, <1>13, <3>1 DEF LockedOpen
  <2>. QED BY <1>4, <1>6, <2>1, <2>2 DEF OrdersOpen, Untouched
<1>17. ASSUME NEW o \in Order
       PROVE  (o \notin placed' => Untouched(o)') /\ Sound(o)'
  <2>1. CASE \E i \in DOMAIN s : s[i] = o
    BY <1>2, <1>5, <1>12, <2>1 DEF Sound
  <2>2. CASE \E i \in DOMAIN r : r[i] = o
    BY <1>2, <1>5, <1>13, <2>2 DEF Sound
  <2>3. CASE (\A i \in DOMAIN s : s[i] # o) /\ (\A i \in DOMAIN r : r[i] # o)
    BY <1>2, <1>3, <1>9, <1>10, <2>3 DEF Sound, Untouched
  <2>. QED BY <2>1, <2>2, <2>3
<1>18. \A b \in Chain : OrdersOpen(b)'
  BY <1>1, <1>15, <1>16
<1>. QED BY <1>17, <1>18 DEF PaidAsAnswered

\* The orders are paid as answered when a chain has handled the batch of the other.
LEMMA OpenReceive ==
  ASSUME ExchangeTypes, Alternating, Belonging, PaidAsAnswered, NEW c \in Chain, Receive(c),
         FlowFacts'
  PROVE  PaidAsAnswered'
<1>. SUFFICES ASSUME fallbacks = 0
              PROVE  PaidAsAnswered'
  <2>1. fallbacks' = fallbacks
    BY DEF Receive
  <2>. QED BY <2>1 DEF PaidAsAnswered
<1>. DEFINE d == Other(c)
            own == locked[c]
<1>1. d \in Chain /\ d # c /\ Other(d) = c /\ outbox[d] \in Seq(Mail)
  BY ChainFacts DEF ExchangeTypes
<1>2. FlowFacts
  BY AlternatingFacts
<1>. HIDE DEF d
<1>3. PICK i \in DOMAIN outbox[d] :
        /\ HandleBatch(c, outbox[d][i].batch, ledger[c], own)
        /\ c = "root" => ~IsEmpty(outbox[d][i].batch)
        /\ outcome' = Decided(own, outbox[d][i].batch.receipts)
  BY DEF Receive, d
<1>. DEFINE remote == outbox[d][i].batch
<1>4. fallbacks' = fallbacks /\ placed' = placed
  BY DEF Receive
<1>5. /\ ledger[c] \in Book /\ own \in Batch /\ remote \in Batch /\ locked[d] \in Batch
      /\ payments \in [Order -> Nat]
  <2>1. outbox[d][i] \in Mail
    BY <1>1
  <2>. QED BY <1>1, <2>1 DEF ExchangeTypes, Mail
<1>6. remote.id = locked[d].id => remote = locked[d]
  <2>1. \A x \in DOMAIN outbox[d] :
          outbox[d][x].batch.id = locked[d].id
            => outbox[d][x] = Published(locked[d], ledger[d].points)
    BY <1>1, <1>2 DEF FlowFacts, Current
  <2>2. Published(locked[d], ledger[d].points).batch = locked[d]
    BY DEF Published
  <2>. QED BY <2>1, <2>2
<1>7. ~IsEmpty(remote) /\ (IsEmpty(own) \/ remote.answers = own.id) => remote = locked[d]
  <2>1. \A x \in DOMAIN outbox[d] :
          ~IsEmpty(outbox[d][x].batch) /\ (IsEmpty(own) \/ outbox[d][x].batch.answers = own.id)
            => outbox[d][x].batch.id = locked[d].id
    BY <1>2 DEF FlowFacts, LatestAnswers, d
  <2>. QED BY <1>6, <2>1
<1>. HIDE DEF remote, own
<1>8. ASSUME NEW b, NEW lock, NEW receipts, Rotated(c, remote, b, lock), lock.receipts = receipts,
             remote = locked[d], DOMAIN receipts = DOMAIN remote.ops.orders,
             locked[c].answers # remote.id,
             own.ops.orders = <<>> \/ remote.answers = own.id,
             payments' = [o \in Order |->
                IF o \in PaidBy(remote.ops, receipts) THEN payments[o] + 1 ELSE payments[o]]
      PROVE  PaidAsAnswered'
  <2>1. Answering(c, own, remote, lock, receipts)
    BY <1>3, <1>4, <1>8 DEF Answering, Rotated, remote
  <2>2. locked'[c] = lock /\ locked'[d] = remote /\ fresh'[c]
    BY <1>1, <1>8 DEF Rotated, ExchangeTypes
  <2>3. remote.answers # lock.id
    BY <2>2 DEF FlowFacts, Unanswered, d
  <2>. QED BY <1>8, <2>1, <2>3, OpenAnswered DEF own, d
<1>9. CASE Quiet(c, remote, ledger[c], own)
  <2>. DEFINE books == ledger[c]
              opened == Opened(books, remote.poolSize)
  <2>1. /\ IsEmpty(remote) /\ IsEmpty(own)
        /\ Rotate(c, remote, books.liquidity, opened)
        /\ ledger' = [ledger EXCEPT ![c] = books]
        /\ payments' = payments
    BY <1>9 DEF Quiet
  <2>2. opened.receipts = <<>>
    BY DEF Opened
  <2>. HIDE DEF books, opened
  <2>3. PICK lock : Rotated(c, remote, books, lock) /\ lock.receipts = <<>>
    <3>1. \E lock : RotatedAs(c, remote, books, lock, opened.receipts, books.liquidity,
                              opened.counter)
      BY <2>1, RotateAs
    <3>. QED BY <2>2, <3>1 DEF RotatedAs
  <2>4. c = "nested" /\ NotStarted
    <3>1. c = "nested"
      BY <1>3, <2>1, ChainFacts DEF remote
    <3>. QED BY <2>1, <3>1, NestedFirst DEF own
  <2>5. remote = locked[d] /\ locked[c].answers # remote.id
    <3>1. /\ outbox[d] = <<Published(locked[d], ledger[d].points)>>
          /\ locked[d] = NoBatch(InitialLiquidity[d]) /\ locked[c] = NoBatch(InitialLiquidity[c])
      BY <1>1, <2>4 DEF NotStarted
    <3>2. i = 1
      BY <1>1, <3>1
    <3>3. remote = locked[d]
      BY <3>1, <3>2 DEF Published, remote
    <3>4. locked[d].id = 0 /\ locked[c].answers = NULL /\ NULL # 0
      BY <3>1, ExchangeAssumption DEF NoBatch
    <3>. QED BY <3>3, <3>4
  <2>6. remote.ops.orders = <<>> /\ own.ops.orders = <<>>
    BY <2>1, EmptyEscrow
  <2>7. PICK receipts : receipts = <<>>
    OBVIOUS
  <2>8. payments' = [o \in Order |->
                       IF o \in PaidBy(remote.ops, receipts) THEN payments[o] + 1 ELSE payments[o]]
    <3>1. PaidBy(remote.ops, receipts) = {}
      BY <2>7 DEF PaidBy
    <3>. QED BY <1>5, <2>1, <3>1
  <2>. QED BY <1>8, <2>3, <2>5, <2>6, <2>7, <2>8
<1>10. ASSUME NEW ordering \in Orderings(remote.ops), Busy(c, remote, ledger[c], own, ordering)
       PROVE  PaidAsAnswered'
  <2>. DEFINE m == Settled(ledger[c], own, remote)
              done == Executed(m, remote.ops, ordering)
              mid == m.liquidity
              b == Closed(done)
  <2>1. /\ ~IsEmpty(remote) /\ (IsEmpty(own) \/ Answers(remote, own))
        /\ Traded(ledger[c], own, remote).counter > 0
        /\ m.counter > 0 /\ m.liquidity > 0
        /\ ledger' = [ledger EXCEPT ![c] = b]
        /\ Rotate(c, remote, mid, done)
        /\ payments' = [o \in Order |->
              IF o \in PaidBy(remote.ops, done.receipts) THEN payments[o] + 1 ELSE payments[o]]
    BY <1>10 DEF Busy
  <2>2. m \in OpenBook(Nat)
    BY <1>5, <2>1, SettledKeeps
  <2>. HIDE DEF m
  <2>3. DOMAIN done.receipts = DOMAIN remote.ops.orders
    <3>. DEFINE e == ExecuteOrders(m, remote.ops.orders, ordering)
    <3>1. remote.ops \in Ops
      BY <1>5 DEF Batch
    <3>2. /\ ExecutedBook(m, remote.ops.orders, DOMAIN remote.ops.orders, e)
          /\ done.receipts = e.receipts
      BY <2>1, <2>2, <3>1, ExecutedKeeps
    <3>. HIDE DEF e, done
    <3>. QED BY <3>2 DEF ExecutedBook
  <2>. HIDE DEF b, done, mid
  <2>4. PICK lock : Rotated(c, remote, b, lock) /\ lock.receipts = done.receipts
    <3>1. \E lock : RotatedAs(c, remote, b, lock, done.receipts, mid, done.counter)
      BY <2>1, RotateAs
    <3>. QED BY <3>1 DEF RotatedAs
  <2>5. remote = locked[d]
    BY <1>7, <2>1 DEF Answers
  <2>6. remote.answers = own.id
    <3>1. CASE IsEmpty(own)
      BY <1>2, <2>1, <2>5, <3>1 DEF FlowFacts, FirstAnswer, own, d
    <3>2. CASE Answers(remote, own)
      BY <3>2 DEF Answers
    <3>. QED BY <2>1, <3>1, <3>2
  <2>7. locked[c].answers # remote.id
    <3>1. ~ \A x \in Chain : locked[Other(x)].answers = locked[x].id
      BY <1>2 DEF FlowFacts, OneAhead
    <3>2. \A x \in Chain : x = c \/ x = d
      BY ChainFacts DEF d
    <3>. QED BY <1>1, <2>5, <2>6, <3>1, <3>2 DEF own, d
  <2>. QED BY <1>8, <2>1, <2>3, <2>4, <2>5, <2>6, <2>7
<1>. QED BY <1>3, <1>9, <1>10, HandleCases DEF remote

\* Every step keeps the orders paid as answered, or is a fallback.
LEMMA OpenStep ==
  ASSUME ExchangeTypes, Alternating, Belonging, PaidAsAnswered, FlowFacts', [Next]_vars
  PROVE  PaidAsAnswered'
<1>1. CASE \/ \E o \in Order : PlaceOrder(o)
           \/ \E d \in Deposit : PlaceDeposit(d)
           \/ \E w \in Withdrawal : PlaceWithdrawal(w)
  BY <1>1, OpenPlace
<1>2. ASSUME NEW c \in Chain, Receive(c) PROVE PaidAsAnswered'
  BY <1>2, OpenReceive
<1>3. ASSUME NEW c \in Chain, EndBlock(c) PROVE PaidAsAnswered'
  BY <1>3, EndBlockEnds, AlternatingFacts, OpenEnd
<1>4. CASE Fallback
  <2>1. fallbacks' = fallbacks + 1 /\ fallbacks \in Nat
    BY <1>4 DEF Fallback, ExchangeTypes
  <2>2. fallbacks' # 0
    BY <2>1
  <2>. QED BY <2>2 DEF PaidAsAnswered
<1>5. CASE UNCHANGED vars
  BY <1>5 DEF vars, PaidAsAnswered, OrdersOpen, LockedOpen, Untouched, Sound
<1>. QED BY <1>1, <1>2, <1>3, <1>4, <1>5 DEF Next

\* Initially no order is touched.
LEMMA OpenInit ==
  ASSUME Init
  PROVE  PaidAsAnswered
<1>1. \A o \in Order : Untouched(o) /\ Sound(o)
  BY DEF Init, Untouched, Sound
<1>2. ASSUME NEW c \in Chain PROVE OrdersOpen(c)
  <2>1. /\ locked[c] = NoBatch(InitialLiquidity[c]) /\ next[c] = NoOps
        /\ locked[Other(c)] = NoBatch(InitialLiquidity[Other(c)])
    BY ChainFacts DEF Init
  <2>2. /\ locked[c].ops = NoOps /\ locked[c].id = 0 /\ locked[Other(c)].answers = NULL
    BY <2>1 DEF NoBatch
  <2>3. NoOps.orders = <<>> /\ DOMAIN <<>> = {} /\ NULL # 0
    BY ExchangeAssumption DEF NoOps
  <2>. QED BY <2>1, <2>2, <2>3 DEF OrdersOpen, LockedOpen, Distinct
<1>. QED BY <1>1, <1>2 DEF PaidAsAnswered

\* Without a fallback an order is paid once by the other chain when its own chain keeps
\* what it sold, and not at all when it returns it (HandleOrderReceipts).
THEOREM ExchangeIsAtomic == DexSpec => []ExchangeAtomic
<1>1. Init => DexInv /\ PaidAsAnswered
  BY DexInvInit, OpenInit
<1>2. DexInv /\ PaidAsAnswered /\ [Next]_vars => DexInv' /\ PaidAsAnswered'
  <2>. SUFFICES ASSUME DexInv, PaidAsAnswered, [Next]_vars
                PROVE  DexInv' /\ PaidAsAnswered'
    OBVIOUS
  <2>1. DexInv'
    BY DexInvStep
  <2>2. FlowFacts'
    <3>1. ExchangeTypes' /\ Alternating'
      BY <2>1 DEF DexInv
    <3>. QED BY <3>1, NextFacts
  <2>3. PaidAsAnswered'
    BY <2>2, OpenStep DEF DexInv
  <2>. QED BY <2>1, <2>3
<1>3. PaidAsAnswered => ExchangeAtomic
  BY DEF PaidAsAnswered, ExchangeAtomic, Sound
<1>. QED BY <1>1, <1>2, <1>3, PTL DEF DexSpec
=============================================================================
