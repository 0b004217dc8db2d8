------------------------------ MODULE PoolAdmin ------------------------------
(***************************************************************************)
(* The messages that move tokens outside of any game: transfers between    *)
(* accounts and the moves of an administrator between pools and accounts.  *)
(* The administrator is whoever the message names and signs it.  None of   *)
(* these messages updates GameTreasury or a competition's records.         *)
(***************************************************************************)
EXTENDS ArcadeState

CONSTANTS
  Amount,    \* the amounts a message may move
  SendFee    \* the fees a transfer may carry

ASSUME AdminAssumption ==
  /\ Amount \subseteq Nat \ {0}
  /\ SendFee \subseteq Nat

-----------------------------------------------------------------------------
\* What the accounts hold after a transfer.  The two new amounts are worked out
\* apart and the sender's is written last, or deleted when nothing is left: a
\* transfer to oneself keeps only the debit.
AfterSend(from, to, amount, fee) ==
  [a \in Player |-> IF a = from THEN account[a] - amount - fee
                    ELSE IF a = to THEN account[a] + amount
                    ELSE account[a]]

\* DeliverMessageSend.
MessageSend(from, to, amount, fee) ==
  /\ account[from] >= amount + fee
  /\ account' = AfterSend(from, to, amount, fee)
  /\ pool' = [pool EXCEPT !["FEE"] = @ + fee]
  /\ UNCHANGED <<treasury, session, stats>>

\* Mutant: the pool's amount is not compared with what is moved.
OverdrawnTransfer(i, j, amount) ==
  /\ i # j
  /\ pool' = [pool EXCEPT ![i] = IF @ >= amount THEN @ - amount ELSE 0,
                          ![j] = @ + amount]
  /\ UNCHANGED <<account, treasury, session, stats>>

\* DeliverMessagePoolTransfer: any two pools.
PoolTransfer(i, j, amount) ==
  /\ i # j
  /\ pool[i] >= amount
  /\ pool' = [pool EXCEPT ![i] = @ - amount, ![j] = @ + amount]
  /\ UNCHANGED <<account, treasury, session, stats>>

\* DeliverMessagePoolDeposit: into the reserve pool only.
PoolDeposit(p, amount) ==
  /\ account[p] >= amount
  /\ account' = [account EXCEPT ![p] = @ - amount]
  /\ pool' = [pool EXCEPT !["RESERVE"] = @ + amount]
  /\ UNCHANGED <<treasury, session, stats>>

\* The pools a withdrawal may name: the weekly pool is not one of them.
WithdrawalPool == {"DAO", "PLATFORM", "RESERVE", "SHOP", "DAILY", "MONTHLY"}

\* DeliverMessagePoolWithdrawal: to any account.
PoolWithdrawal(i, p, amount) ==
  /\ i \in WithdrawalPool
  /\ PayFrom(i, p, amount)
  /\ UNCHANGED <<treasury, session, stats>>

-----------------------------------------------------------------------------
AdminNext ==
  \/ \E from, to \in Player, amount \in Amount, fee \in SendFee :
        MessageSend(from, to, amount, fee)
  \/ \E i, j \in PoolId, amount \in Amount : PoolTransfer(i, j, amount)
  \/ \E p \in Player, amount \in Amount : PoolDeposit(p, amount)
  \/ \E i \in PoolId, p \in Player, amount \in Amount : PoolWithdrawal(i, p, amount)

AdminSpec == StateInit /\ [][AdminNext]_stateVars
=============================================================================
