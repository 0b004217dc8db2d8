-------------------------- MODULE UsernameRegistry --------------------------
(***************************************************************************)
(* Usernames: a PlayerIdentity, the UsernameRegistration it replaced and a *)
(* reverse lookup by the folded name, which one handler keeps in step.     *)
(* A state may still hold players who only have the older record.          *)
(***************************************************************************)
EXTENDS Integers

CONSTANTS
  Player,
  Name,       \* what a message may carry as a username
  ValidName,  \* the names of 3 to 20 letters, digits and underscores
  Key,        \* names in lower case
  Folded,     \* the lower case of every name
  Time,       \* the times a transaction may carry
  NULL        \* an absent record

IdentityRecord == [name : ValidName, registered : Nat, updated : Nat]
RegistrationRecord == [name : ValidName, registered : Nat, changed : Nat]

ASSUME RegistryAssumption ==
  /\ ValidName \subseteq Name
  /\ Folded \in [Name -> Key]
  /\ Time \subseteq Nat
  /\ NULL \notin Player \cup Name \cup IdentityRecord \cup RegistrationRecord

VARIABLES
  identity,      \* PlayerIdentity by player, or NULL
  registration,  \* UsernameRegistration by player, or NULL
  lookup         \* the address under every folded name, or NULL

vars == <<identity, registration, lookup>>

-----------------------------------------------------------------------------
\* getUsernameFromState: the identity first, then the older record.
NameOf(p) ==
  IF identity[p] # NULL THEN identity[p].name
  ELSE IF registration[p] # NULL THEN registration[p].name
  ELSE NULL

\* getRegistrationTime.
Registered(p) ==
  IF identity[p] # NULL THEN identity[p].registered
  ELSE IF registration[p] # NULL THEN registration[p].registered
  ELSE 0

\* Mutant: only the identity knows when a player registered.
SinceIdentity(p, now) == IF identity[p] # NULL THEN identity[p].registered ELSE now

\* The time of registration that is written.
Since(p, now) == IF Registered(p) # 0 THEN Registered(p) ELSE now

\* isUsernameValid.
IsUsernameValid(name) == name \in ValidName

\* The folded name is free or the player's own.
NameFree(p, name) == lookup[Folded[name]] \in {NULL, p}

\* Mutant: the name of the older record is not given up.
IdentityKeys(p) == IF identity[p] = NULL THEN {} ELSE {Folded[identity[p].name]}

\* The folded name that p gives up for another one.
OldKeys(p) == IF NameOf(p) = NULL THEN {} ELSE {Folded[NameOf(p)]}

\* Mutant: the old name is deleted although it folds to the same key.
LookupDeletingOwn(p, key) ==
  [k \in Key |-> IF k \in OldKeys(p) THEN NULL ELSE IF k = key THEN p ELSE lookup[k]]

\* The lookup after p took a name: the old key is deleted only if it differs.
LookupAfter(p, key) ==
  [k \in Key |-> IF k = key THEN p ELSE IF k \in OldKeys(p) THEN NULL ELSE lookup[k]]

\* DeliverMessageSetUsername.
SetUsername(p, name, now) ==
  /\ IsUsernameValid(name)
  /\ NameFree(p, name)
  /\ identity' = [identity EXCEPT
                    ![p] = [name |-> name, registered |-> Since(p, now), updated |-> now]]
  /\ registration' = [registration EXCEPT
                        ![p] = [name |-> name, registered |-> Since(p, now), changed |-> now]]
  /\ lookup' = LookupAfter(p, Folded[name])

-----------------------------------------------------------------------------
\* The lookup holds a player under a key exactly when it is the player's name.
LookupAgrees ==
  \A p \in Player, k \in Key :
    lookup[k] = p <=> NameOf(p) # NULL /\ Folded[NameOf(p)] = k

\* Any registrations that the older version of the contract may have left.
Init ==
  /\ identity = [p \in Player |-> NULL]
  /\ registration \in [Player -> [name : ValidName, registered : Time, changed : Time]
                                   \cup {NULL}]
  /\ lookup \in [Key -> Player \cup {NULL}]
  /\ LookupAgrees

Next == \E p \in Player, name \in Name, now \in Time : SetUsername(p, name, now)

Spec == Init /\ [][Next]_vars

-----------------------------------------------------------------------------
\* Every record has the shape its handler reads and writes.
TypeOK ==
  /\ identity \in [Player -> IdentityRecord \cup {NULL}]
  /\ registration \in [Player -> RegistrationRecord \cup {NULL}]
  /\ lookup \in [Key -> Player \cup {NULL}]

\* docs/ARCHITECTURE.md speaks of case-insensitive uniqueness: no two players
\* show names that differ only in their case, whichever of the two records
\* their names are read from.
UniqueNames ==
  \A p, q \in Player :
    p # q /\ NameOf(p) # NULL /\ NameOf(q) # NULL => Folded[NameOf(p)] # Folded[NameOf(q)]

\* A player who renames, or moves from the older record to the newer one, keeps
\* the time of the first registration.
RegistrationKept ==
  [][\A p \in Player : Registered(p) # 0 => Registered(p)' = Registered(p)]_vars

\* The three records implement a registry of names: the lookup is its owner.
Registry == INSTANCE NameRegistry WITH owner <- lookup

RegistrySpec == Registry!Spec
=============================================================================
