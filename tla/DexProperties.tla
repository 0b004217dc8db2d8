---------------------------- MODULE DexProperties ----------------------------
(* What makes the exchange of the two chains correct. *)
EXTENDS DexExchange

\* The batch of c answers the batch that the other chain has locked.
Answered(c) == ~IsEmpty(locked[Other(c)]) /\ locked[c].answers = locked[Other(c)].id

\* A chain moves its own tokens only, and its holding pool is what its two
\* batches escrow: every order and deposit can be settled or refunded, whatever
\* the chain believes of the other one (HandleOrderReceipts, HandleBatchDeposit,
\* HandleLivenessFallback).  No payout is more than the liquidity pool holds, from
\* which the code takes what it paid without looking (HandleBatchWithdraw).
EscrowKept ==
  \A c \in Chain :
    /\ ledger[c].holding = Escrow(next[c]) + Escrow(locked[c].ops)
    /\ ledger[c].account + ledger[c].holding + ledger[c].liquidity
         = InitialAccount[c] + InitialLiquidity[c]
    /\ ledger[c].account >= 0 /\ ledger[c].liquidity >= 0

\* "Both the X and Y pool should have the same a) pool holders b) pool points
\* per holder c) totalPoolPoints" (HandleBatchWithdraw): whenever a chain has
\* answered the other's batch and that batch changes no points any more.  The
\* fallback takes over the points of the root chain, but executes its batch again
\* with pools that do not match, so it does not keep up with deposits there.
PointsMirrored ==
  fallbacks = 0 \/ (\A d \in Deposit \cap placed : d.chain = "nested") =>
    \A c \in Chain :
      /\ Answered(c)
      /\ \A d \in Chain : locked[d].ops.deposits = <<>> /\ locked[d].ops.withdrawals = <<>>
      => ledger["root"].points = ledger["nested"].points

\* "AMM math on either side uses the same reserves" (dex.go): what a chain
\* computed for the pool of the other is what the other has once it settled.
MirrorExact ==
  \A c \in Chain :
    fallbacks = 0 /\ Answered(Other(c)) => locked[Other(c)].poolSize = locked[c].counterPoolSize

\* An exchange is atomic: what an order sold is kept when the other chain paid
\* it, once, and returned when it did not.
ExchangeAtomic ==
  fallbacks = 0 =>
    \A o \in Order :
      /\ payments[o] \in {0, 1}
      /\ outcome[o] = "kept" => payments[o] = 1
      /\ outcome[o] = "returned" => payments[o] = 0

\* "Atomic exchanges between root & nested chains" (dex.go): an order is paid at
\* most once, also when the nested chain gave up a lock.
PaidAtMostOnce == \A o \in Order : payments[o] <= 1

\* No order waits for ever, although each chain waits for the other: lost and
\* late batches are answered, or the nested chain gives up.
OrdersSettle ==
  (\E o \in Order \cap placed : outcome[o] = "open")
    ~> (\A o \in Order \cap placed : outcome[o] # "open") \/ fallbacks = FallbackMax
=============================================================================
