----------------------------- MODULE PrizeEscrow -----------------------------
(***************************************************************************)
(* What every prize competition promises, whatever its mode: a pot per     *)
(* contest that entries fill, from which every player is paid at most once *)
(* per contest, never more than the pot holds, and nothing else is taken.  *)
(***************************************************************************)
EXTENDS Integers

CONSTANTS Contest, Player, NULL

VARIABLES
  pot,     \* what each contest still holds
  receipt  \* the record of the payment of each player in each contest, or NULL

Init ==
  /\ pot = [c \in Contest |-> 0]
  /\ receipt = [c \in Contest |-> [p \in Player |-> NULL]]

\* An entry fills the pot of its contest.
Fund(c) ==
  /\ pot'[c] >= pot[c]
  /\ pot' = [pot EXCEPT ![c] = pot'[c]]
  /\ UNCHANGED receipt

\* A winner is paid out of the pot, for the first and only time.
Pay(c, p) ==
  LET r == receipt'[c][p]
  IN /\ receipt[c][p] = NULL
     /\ r # NULL
     /\ r.amount <= pot[c]
     /\ receipt' = [receipt EXCEPT ![c][p] = r]
     /\ pot' = [pot EXCEPT ![c] = @ - r.amount]

Next == \E c \in Contest : Fund(c) \/ \E p \in Player : Pay(c, p)

Spec == Init /\ [][Next]_<<pot, receipt>>
=============================================================================
