--------------------------- MODULE HeightDecision ---------------------------
(***************************************************************************)
(* What consensus promises of one height: one block at most is chosen, and *)
(* a node learns no other.                                                 *)
(***************************************************************************)
CONSTANTS Node, Block, NULL

VARIABLES
    chosen,   \* blocks that are decided
    learned   \* the block of the height in the chain of each node

Init == chosen = {} /\ learned = [n \in Node |-> NULL]

Choose(b) == chosen = {} /\ chosen' = {b} /\ UNCHANGED learned

Learn(n, b) ==
    /\ learned[n] = NULL /\ b \in chosen
    /\ learned' = [learned EXCEPT ![n] = b]
    /\ UNCHANGED chosen

Next == \E b \in Block : Choose(b) \/ \E n \in Node : Learn(n, b)

Spec == Init /\ [][Next]_<<chosen, learned>>
=============================================================================
