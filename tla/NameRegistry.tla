---------------------------- MODULE NameRegistry ----------------------------
(***************************************************************************)
(* What a registry of names promises: a name has one owner, an owner one   *)
(* name, and taking a name gives back the one held before.                 *)
(***************************************************************************)
CONSTANTS Player, Key, NULL

VARIABLE owner

Init ==
  /\ owner \in [Key -> Player \cup {NULL}]
  /\ \A k, l \in Key : owner[k] # NULL /\ owner[k] = owner[l] => k = l

\* p takes the name k, which is free or p's own.
Take(p, k) ==
  /\ owner[k] \in {NULL, p}
  /\ owner' = [l \in Key |-> IF l = k THEN p
                             ELSE IF owner[l] = p THEN NULL
                             ELSE owner[l]]

Next == \E p \in Player, k \in Key : Take(p, k)

Spec == Init /\ [][Next]_owner
=============================================================================
