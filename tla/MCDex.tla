-------------------------------- MODULE MCDex --------------------------------
(***************************************************************************)
(* An instance of the exchange for TLC: two orders and a deposit on the     *)
(* nested chain, an order on the root chain, and a provider who withdraws  *)
(* on the other chain.                                                     *)
(***************************************************************************)
EXTENDS DexProperties

Trades ==
  {[id |-> "o1", chain |-> "nested", sale |-> 20, min |-> 20],
   [id |-> "o2", chain |-> "nested", sale |-> 9, min |-> 10],
   [id |-> "o3", chain |-> "root", sale |-> 15, min |-> 1]}
Deposits == {[id |-> "d1", chain |-> "nested", who |-> "provider", amount |-> 30]}
Withdrawals == {[id |-> "w1", chain |-> "root", who |-> "provider", percent |-> 60]}

Accounts == [root |-> 50, nested |-> 100]
Pools == [root |-> 120, nested |-> 90]
=============================================================================
