----------------------------- MODULE MCRootChain -----------------------------
(***************************************************************************)
(* An instance for TLC of two parts of the root chain that share no state:  *)
(* the staking of validators and the order book of a nested chain.  A       *)
(* behaviour is of one of them; the other stays as it is at genesis.        *)
(***************************************************************************)
EXTENDS MCStaking, OrderBook, TLC

VARIABLE scene

rootChainVars == <<scene, vars, orderVars>>

Listings == {[sale |-> 1, terms |-> "cheap"], [sale |-> 2, terms |-> "dear"]}

BuyersAlike == Permutations(Buyer)

RootChainInit ==
  /\ scene \in {"staking", "orders"}
  /\ Init
  /\ OrdersInit
  /\ scene = "orders" => upgrade = Max(Upgrade)

RootChainNext ==
  /\ \/ scene = "staking" /\ Next /\ UNCHANGED orderVars
     \/ scene = "orders" /\ OrdersNext /\ UNCHANGED vars
  /\ UNCHANGED scene

RootChainSpec == RootChainInit /\ [][RootChainNext]_rootChainVars
=============================================================================
