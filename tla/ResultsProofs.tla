---------------------------- MODULE ResultsProofs ----------------------------
(***************************************************************************)
(* Proofs about parts of the contract that stand by themselves.            *)
(*                                                                         *)
(*   1. the username registry, for any players, names, folding and times   *)
(*   2. the reward engine, with the two configurations in use, for any     *)
(*      pool and number of participants                                    *)
(*   3. the rules of 2048 and the replay, for boards of any size           *)
(***************************************************************************)
EXTENDS MCResults, SumProofs, SequenceTheorems, TLAPS

-----------------------------------------------------------------------------
(***************************************************************************)
(* Usernames.  The inductive invariant is that the lookup and the names    *)
(* that players show tell the same story; uniqueness follows from it, and  *)
(* so does the implementation of the abstract registry.                    *)
(***************************************************************************)
IInv == TypeOK /\ LookupAgrees

\* The facts about a step of SetUsername that every proof below uses.
LEMMA StepFacts ==
  ASSUME NEW p \in Player, NEW name \in Name, NEW now \in Time,
         TypeOK, SetUsername(p, name, now)
  PROVE  /\ NameOf(p)' = name
         /\ \A q \in Player \ {p} : NameOf(q)' = NameOf(q)
         /\ \A q \in Player \ {p} : Registered(q)' = Registered(q)
         /\ Registered(p)' = Since(p, now)
<1>1. identity'[p] = [name |-> name, registered |-> Since(p, now), updated |-> now]
  BY DEF TypeOK, SetUsername
<1>2. \A q \in Player \ {p} : identity'[q] = identity[q] /\ registration'[q] = registration[q]
  BY DEF TypeOK, SetUsername
<1>3. name \in ValidName /\ Since(p, now) \in Nat /\ now \in Nat
  BY RegistryAssumption DEF SetUsername, IsUsernameValid, Since, Registered, TypeOK,
     IdentityRecord, RegistrationRecord
<1>4. identity'[p] # NULL
  BY <1>1, <1>3, RegistryAssumption DEF IdentityRecord
<1>5. identity'[p].name = name /\ identity'[p].registered = Since(p, now)
  BY <1>1
<1>6. QED
  BY <1>2, <1>4, <1>5 DEF NameOf, Registered

\* A player's shown name is a valid name or NULL, and NULL is no name.
LEMMA ShownNameValid ==
  ASSUME TypeOK, NEW p \in Player
  PROVE  /\ NameOf(p) \in ValidName \cup {NULL}
         /\ Registered(p) \in Nat
         /\ NULL \notin ValidName
BY RegistryAssumption DEF TypeOK, NameOf, Registered, IdentityRecord, RegistrationRecord

\* The initial states are those of the invariant.
LEMMA InitIInv == Init => IInv
<1> SUFFICES ASSUME Init PROVE TypeOK
  BY DEF Init, IInv
<1>1. identity \in [Player -> IdentityRecord \cup {NULL}]
  BY DEF Init
<1>2. registration \in [Player -> RegistrationRecord \cup {NULL}]
  <2>1. [name : ValidName, registered : Time, changed : Time] \subseteq RegistrationRecord
    BY RegistryAssumption DEF RegistrationRecord
  <2>2. QED
    BY <2>1 DEF Init
<1>3. QED
  BY <1>1, <1>2 DEF Init, TypeOK

\* A step keeps the shape of the records.
LEMMA StepTypeOK ==
  ASSUME NEW p \in Player, NEW name \in Name, NEW now \in Time,
         TypeOK, SetUsername(p, name, now)
  PROVE  TypeOK'
<1>1. name \in ValidName /\ Since(p, now) \in Nat /\ now \in Nat
  BY RegistryAssumption DEF SetUsername, IsUsernameValid, Since, Registered, TypeOK,
     IdentityRecord, RegistrationRecord
<1>2. [name |-> name, registered |-> Since(p, now), updated |-> now] \in IdentityRecord
  BY <1>1 DEF IdentityRecord
<1>3. [name |-> name, registered |-> Since(p, now), changed |-> now] \in RegistrationRecord
  BY <1>1 DEF RegistrationRecord
<1>4. identity' \in [Player -> IdentityRecord \cup {NULL}]
  BY <1>2 DEF TypeOK, SetUsername
<1>5. registration' \in [Player -> RegistrationRecord \cup {NULL}]
  BY <1>3 DEF TypeOK, SetUsername
<1>6. lookup' \in [Key -> Player \cup {NULL}]
  BY DEF TypeOK, SetUsername, LookupAfter
<1>7. QED
  BY <1>4, <1>5, <1>6 DEF TypeOK

\* A step keeps lookup and names in agreement: the key that is taken was free or
\* the player's own, and the only other key the player had is the one given up.
LEMMA StepAgrees ==
  ASSUME NEW p \in Player, NEW name \in Name, NEW now \in Time,
         IInv, SetUsername(p, name, now)
  PROVE  LookupAgrees'
<1> DEFINE key == Folded[name]
<1>1. key \in Key /\ name \in ValidName /\ name # NULL
  BY RegistryAssumption DEF SetUsername, IsUsernameValid
<1>2. lookup' = LookupAfter(p, key) /\ lookup[key] \in {NULL, p}
  BY DEF SetUsername, NameFree
<1>3. /\ NameOf(p)' = name
      /\ \A q \in Player \ {p} : NameOf(q)' = NameOf(q)
  BY StepFacts DEF IInv
<1>4. NULL \notin Player
  BY RegistryAssumption
<1> SUFFICES ASSUME NEW q \in Player, NEW k \in Key
             PROVE  lookup'[k] = q <=> NameOf(q)' # NULL /\ Folded[NameOf(q)'] = k
  BY DEF LookupAgrees
<1>5. lookup'[k] = IF k = key THEN p ELSE IF k \in OldKeys(p) THEN NULL ELSE lookup[k]
  BY <1>2 DEF LookupAfter
<1>6. \A r \in Player, l \in Key : lookup[l] = r <=> NameOf(r) # NULL /\ Folded[NameOf(r)] = l
  BY DEF IInv, LookupAgrees
<1>7. CASE q = p
  <2>1. lookup[k] = p => k \in OldKeys(p)
    BY <1>6 DEF OldKeys
  <2>2. lookup'[k] = p <=> k = key
    BY <1>4, <1>5, <2>1
  <2>3. QED
    BY <1>1, <1>3, <1>7, <2>2
<1>8. CASE q # p
  <2>1. NameOf(q)' = NameOf(q)
    BY <1>3, <1>8
  <2>2. k \in OldKeys(p) => lookup[k] = p
    BY <1>6 DEF OldKeys
  <2>3. lookup'[k] = q <=> lookup[k] = q
    BY <1>1, <1>2, <1>4, <1>5, <1>8, <2>2
  <2>4. QED
    BY <1>6, <2>1, <2>3
<1>9. QED
  BY <1>7, <1>8

\* The invariant is inductive.
LEMMA NextIInv == IInv /\ [Next]_vars => IInv'
<1> SUFFICES ASSUME IInv, [Next]_vars PROVE IInv'
  OBVIOUS
<1>1. CASE Next
  <2>1. PICK p \in Player, name \in Name, now \in Time : SetUsername(p, name, now)
    BY <1>1 DEF Next
  <2>2. QED
    BY <2>1, StepTypeOK, StepAgrees DEF IInv
<1>2. CASE UNCHANGED vars
  BY <1>2 DEF IInv, TypeOK, LookupAgrees, NameOf, vars
<1>3. QED
  BY <1>1, <1>2

\* In every reachable state the lookup holds a player under a key exactly when
\* the name that the player shows folds to it.
THEOREM LookupAlwaysAgrees == Spec => [](TypeOK /\ LookupAgrees)
<1>1. Init => IInv
  BY InitIInv
<1>2. IInv /\ [Next]_vars => IInv'
  BY NextIInv
<1>3. IInv => TypeOK /\ LookupAgrees
  BY DEF IInv
<1>4. QED
  BY <1>1, <1>2, <1>3, PTL DEF Spec

\* No two players ever show names that differ only in their case: the lookup
\* holds one player under the key both names would fold to.
THEOREM NamesAlwaysUnique == Spec => []UniqueNames
<1>1. IInv => UniqueNames
  <2> SUFFICES ASSUME IInv, NEW p \in Player, NEW q \in Player, p # q,
                      NameOf(p) # NULL, NameOf(q) # NULL,
                      Folded[NameOf(p)] = Folded[NameOf(q)]
               PROVE  FALSE
    BY DEF UniqueNames
  <2>1. Folded[NameOf(p)] \in Key
    BY ShownNameValid, RegistryAssumption DEF IInv
  <2>2. lookup[Folded[NameOf(p)]] = p /\ lookup[Folded[NameOf(p)]] = q
    BY <2>1 DEF IInv, LookupAgrees
  <2>3. QED
    BY <2>2
<1>2. QED
  BY <1>1, InitIInv, NextIInv, PTL DEF Spec

\* A registration time that is set is never changed, by its player's renames or
\* by anyone else's.
THEOREM RegistrationAlwaysKept == Spec => RegistrationKept
<1>1. IInv /\ [Next]_vars
        => [\A p \in Player : Registered(p) # 0 => Registered(p)' = Registered(p)]_vars
  <2> SUFFICES ASSUME IInv, Next, NEW q \in Player, Registered(q) # 0
               PROVE  Registered(q)' = Registered(q)
    OBVIOUS
  <2>1. PICK p \in Player, name \in Name, now \in Time : SetUsername(p, name, now)
    BY DEF Next
  <2>2. CASE q = p
    BY <2>1, <2>2, StepFacts DEF IInv, Since
  <2>3. CASE q # p
    BY <2>1, <2>3, StepFacts DEF IInv
  <2>4. QED
    BY <2>2, <2>3
<1>2. QED
  BY <1>1, InitIInv, NextIInv, PTL DEF Spec, RegistrationKept

\* The three records implement the abstract registry: every step takes a name
\* and gives back all that its player held before.
THEOREM RegistryImplemented == Spec => RegistrySpec
<1>1. IInv => \A k \in Key, l \in Key : lookup[k] # NULL /\ lookup[k] = lookup[l] => k = l
  BY DEF IInv, TypeOK, LookupAgrees
<1>2. Init => Registry!Init
  BY <1>1, InitIInv DEF Init, Registry!Init
<1>3. IInv /\ [Next]_vars => [Registry!Next]_lookup
  <2> SUFFICES ASSUME IInv, Next PROVE Registry!Next
    BY DEF vars
  <2>1. PICK p \in Player, name \in Name, now \in Time : SetUsername(p, name, now)
    BY DEF Next
  <2>2. Folded[name] \in Key
    BY RegistryAssumption
  <2>3. \A k \in Key : k \in OldKeys(p) <=> lookup[k] = p
    BY DEF IInv, LookupAgrees, OldKeys
  <2>4. lookup' = [k \in Key |-> IF k = Folded[name] THEN p
                                 ELSE IF lookup[k] = p THEN NULL ELSE lookup[k]]
    BY <2>1, <2>3 DEF SetUsername, LookupAfter
  <2>5. Registry!Take(p, Folded[name])
    BY <2>1, <2>4 DEF Registry!Take, SetUsername, NameFree
  <2>6. QED
    BY <2>2, <2>5 DEF Registry!Next
<1>4. Spec => Registry!Init /\ [][Registry!Next]_lookup
  BY <1>2, <1>3, InitIInv, NextIInv, PTL DEF Spec
<1>5. QED
  BY <1>4, PTL DEF RegistrySpec, Registry!Spec

-----------------------------------------------------------------------------
(***************************************************************************)
(* Rewards.  The tiers divide the ranks that are paid, the rounded rewards *)
(* of a tier are no more than its part of the pool, and the first rank     *)
(* takes the rest.                                                         *)
(***************************************************************************)
\* The configurations in use.
Configs == {MONTHLY_COMPETITION_CONFIG, WEEKLY_BLITZ_CONFIG}
Tiers == {1, 2, 3}

\* Their figures fit: as many winners as there must be are no more than there must be
\* participants, and the shares of the three tiers are the whole.
LEMMA ConfigShape ==
  ASSUME NEW c \in Configs
  PROVE  /\ Len(c.tiers) = 3 /\ DOMAIN c.tiers = Tiers
         /\ \A k \in Tiers : /\ c.tiers[k].size \in Nat /\ c.tiers[k].share \in Nat
                             /\ c.tiers[k].kind \in {"exponential", "linear", "equal"}
         /\ c.tiers[1].share + c.tiers[2].share + c.tiers[3].share = 10000
         /\ {c.minParticipants, c.reward, c.minWinners, c.maxWinners} \subseteq Nat
         /\ c.minWinners > 0 /\ c.maxWinners > 0
         /\ c.minWinners <= c.minParticipants /\ c.reward <= 100
<1>1. CASE c = MONTHLY_COMPETITION_CONFIG
  BY <1>1 DEF MONTHLY_COMPETITION_CONFIG, Tiers
<1>2. CASE c = WEEKLY_BLITZ_CONFIG
  BY <1>2 DEF WEEKLY_BLITZ_CONFIG, Tiers
<1>. QED BY <1>1, <1>2 DEF Configs

\* There are winners, and no more than participants.
LEMMA WinnersThere ==
  ASSUME NEW c \in Configs, NEW n \in Nat, ~RolledOver(c, n)
  PROVE  LET w == TotalWinners(c, n)
         IN w \in Nat /\ w > 0 /\ w <= n /\ Min({n, w}) = w
<1>. DEFINE share == (n * c.reward) \div 100
            lo == c.minWinners
            hi == c.maxWinners
            most == Max({lo, share})
            w == TotalWinners(c, n)
<1>1. /\ lo \in Nat /\ hi \in Nat /\ lo > 0 /\ hi > 0 /\ lo <= n
      /\ c.reward \in Nat /\ c.reward <= 100
  BY ConfigShape DEF RolledOver
<1>2. share \in Nat /\ share <= n
  <2>. DEFINE p == n * c.reward
  <2>1. p \in Nat /\ p <= n * 100
    BY <1>1
  <2>. HIDE DEF p
  <2>2. p \div 100 \in Nat /\ p \div 100 <= n
    BY <2>1
  <2>. QED BY <2>2 DEF p
<1>3. w = Min({hi, most})
  BY DEF TotalWinners
<1>. HIDE DEF share, lo, hi, w
<1>4. (most = lo /\ share <= lo) \/ (most = share /\ lo <= share)
  BY <1>1, <1>2, MaxOfTwo
<1>5. most \in Nat /\ most > 0 /\ most <= n
  BY <1>1, <1>2, <1>4
<1>. HIDE DEF most
<1>6. (Min({hi, most}) = hi /\ hi <= most) \/ (Min({hi, most}) = most /\ most <= hi)
  BY <1>1, <1>5, MinOfTwo
<1>7. w \in Nat /\ w > 0 /\ w <= n
  BY <1>1, <1>3, <1>5, <1>6
<1>8. (Min({n, w}) = n /\ n <= w) \/ (Min({n, w}) = w /\ w <= n)
  BY <1>7, MinOfTwo
<1>9. Min({n, w}) = w
  BY <1>7, <1>8
<1>. QED BY <1>7, <1>9 DEF w

\* The tiers follow each other up to the winners, the first is not empty, and when
\* the winners run out nothing comes after.
Consecutive(e, w) ==
  /\ e[0] = 0 /\ e[1] > 0
  /\ \A k \in Tiers : e[k - 1] <= e[k]
  /\ \A k \in 0 .. 3 : e[k] \in Nat /\ e[k] <= w
  /\ \A k \in Tiers : e[k - 1] = w => e[k] = w

\* The ends of the tiers are such.
LEMMA EndsConsecutive ==
  ASSUME NEW c \in Configs, NEW n \in Nat, NEW w \in Nat, w > 0
  PROVE  Consecutive([k \in 0 .. 3 |-> EndRank(c, n, w, k)], w)
<1>. DEFINE size(j) == TierSize(c, n, j)
            sizes(k) == [j \in 1 .. k |-> TierSize(c, n, j)]
            all(k) == SumOver(sizes(k), 1 .. k)
            end(k) == EndRank(c, n, w, k)
<1>1. \A j \in Tiers : size(j) \in Nat /\ size(j) > 0
  <2>. SUFFICES ASSUME NEW j \in Tiers PROVE size(j) \in Nat /\ size(j) > 0
    OBVIOUS
  <2>. DEFINE s == (n * c.tiers[j].size) \div 100
  <2>1. s \in Nat
    <3>1. n * c.tiers[j].size \in Nat
      BY ConfigShape
    <3>. QED BY <3>1
  <2>2. size(j) = Max({1, s})
    BY DEF TierSize
  <2>. HIDE DEF s, size
  <2>3. (Max({1, s}) = 1 /\ s <= 1) \/ (Max({1, s}) = s /\ 1 <= s)
    BY <2>1, MaxOfTwo
  <2>. QED BY <2>1, <2>2, <2>3
<1>2. all(0) = 0
  <2>1. 1 .. 0 = {}
    OBVIOUS
  <2>. QED BY <2>1, SumEmpty
<1>3. \A k \in Tiers : all(k) \in Int /\ all(k) = all(k - 1) + size(k)
  <2>. SUFFICES ASSUME NEW k \in Tiers PROVE all(k) \in Int /\ all(k) = all(k - 1) + size(k)
    OBVIOUS
  <2>1. k \in Nat /\ k > 0 /\ 1 .. k \subseteq Tiers /\ 1 .. k - 1 \subseteq 1 .. k /\ k \in 1 .. k
    BY DEF Tiers
  <2>2. \A j \in 1 .. k : sizes(k)[j] \in Int /\ sizes(k)[j] = size(j)
    BY <1>1, <2>1
  <2>3. SumOver(sizes(k), 1 .. k) = sizes(k)[k] + SumOver(sizes(k), 1 .. k - 1)
    <3>. HIDE DEF sizes
    <3>. QED BY <2>1, <2>2, SumLast
  <2>4. SumOver(sizes(k), 1 .. k - 1) \in Int
    <3>. HIDE DEF sizes
    <3>. QED BY <2>1, <2>2, SumLast
  <2>5. SumOver(sizes(k - 1), 1 .. k - 1) = SumOver(sizes(k), 1 .. k - 1)
    <3>1. \A j \in 1 .. k - 1 : sizes(k)[j] \in Int /\ sizes(k - 1)[j] = sizes(k)[j]
      BY <2>1, <2>2
    <3>2. IsFiniteSet(1 .. k - 1)
      <4>1. k - 1 \in Int
        BY <2>1
      <4>. QED BY <4>1, FS_Interval
    <3>. HIDE DEF sizes
    <3>. QED BY <3>1, <3>2, SumSame
  <2>6. sizes(k)[k] = size(k) /\ size(k) \in Int
    BY <1>1, <2>1, <2>2
  <2>. HIDE DEF sizes, size
  <2>. QED BY <2>3, <2>4, <2>5, <2>6
<1>4. \A k \in 0 .. 3 : end(k) = Min({w, all(k)})
  BY DEF EndRank
<1>. HIDE DEF all, size, end
<1>5. /\ all(1) = all(0) + size(1) /\ all(2) = all(1) + size(2) /\ all(3) = all(2) + size(3)
      /\ size(1) \in Nat /\ size(1) > 0 /\ size(2) \in Nat /\ size(3) \in Nat
  <2>1. 1 \in Tiers /\ 2 \in Tiers /\ 3 \in Tiers /\ 1 - 1 = 0 /\ 2 - 1 = 1 /\ 3 - 1 = 2
    BY DEF Tiers
  <2>. QED BY <1>1, <1>3, <2>1
<1>6. all(0) \in Nat /\ all(1) \in Nat /\ all(2) \in Nat /\ all(3) \in Nat
  BY <1>2, <1>5
<1>7. ASSUME NEW a \in Nat
      PROVE  (Min({w, a}) = w /\ w <= a) \/ (Min({w, a}) = a /\ a <= w)
  BY MinOfTwo
<1>8. \A k \in 0 .. 3 : \/ end(k) = w /\ w <= all(k)
                        \/ end(k) = all(k) /\ all(k) <= w
  <2>1. \A k \in 0 .. 3 : all(k) \in Nat
    BY <1>6
  <2>. QED BY <1>4, <1>7, <2>1
<1>9. /\ end(0) = 0 /\ end(1) > 0 /\ end(0) <= end(1) /\ end(1) <= end(2) /\ end(2) <= end(3)
      /\ \A k \in 0 .. 3 : end(k) \in Nat /\ end(k) <= w
      /\ end(0) = w => end(1) = w
      /\ end(1) = w => end(2) = w
      /\ end(2) = w => end(3) = w
  BY <1>2, <1>5, <1>6, <1>8
<1>. DEFINE e == [k \in 0 .. 3 |-> EndRank(c, n, w, k)]
<1>10. \A k \in 0 .. 3 : e[k] = end(k)
  BY DEF end
<1>. HIDE DEF e
<1>11. e[0] = end(0) /\ e[1] = end(1) /\ e[2] = end(2) /\ e[3] = end(3)
  BY <1>10
<1>12. e[0] = 0 /\ e[1] > 0
  BY <1>9, <1>11
<1>13. \A k \in Tiers : e[k - 1] <= e[k]
  BY <1>9, <1>11 DEF Tiers
<1>14. \A k \in 0 .. 3 : e[k] \in Nat /\ e[k] <= w
  BY <1>9, <1>10
<1>15. \A k \in Tiers : e[k - 1] = w => e[k] = w
  BY <1>9, <1>11 DEF Tiers
<1>16. Consecutive(e, w)
  BY <1>12, <1>13, <1>14, <1>15 DEF Consecutive
<1>. QED BY <1>16 DEF e

\* The ranks that the tiers pay, when any are paid: each tier pays the ranks after the
\* one before, and together they pay the ranks up to the last end.
LEMMA TiersPaid ==
  ASSUME NEW c \in Configs, NEW n \in Nat, ~RolledOver(c, n)
  PROVE  LET w == TotalWinners(c, n)
             e == [k \in 0 .. 3 |-> EndRank(c, n, w, k)]
         IN /\ w \in Nat /\ w <= n /\ Consecutive(e, w)
            /\ \A k \in Tiers : RanksOf(c, n, k) = e[k - 1] + 1 .. e[k]
            /\ RewardedRanks(c, n) = 1 .. e[3]
<1>. DEFINE w == TotalWinners(c, n)
            e == [k \in 0 .. 3 |-> EndRank(c, n, w, k)]
<1>1. w \in Nat /\ w > 0 /\ w <= n /\ Min({n, w}) = w
  BY WinnersThere
<1>2. Consecutive(e, w)
  <2>. HIDE DEF w
  <2>. QED BY <1>1, EndsConsecutive
<1>3. \A k \in 0 .. 3 : LastRank(c, n, k) = e[k]
  BY <1>1 DEF LastRank
<1>. HIDE DEF e
<1>4. \A k \in Tiers : RanksOf(c, n, k) = e[k - 1] + 1 .. e[k]
  <2>1. \A k \in Tiers : k \in 0 .. 3 /\ k - 1 \in 0 .. 3
    BY DEF Tiers
  <2>. QED BY <1>3, <2>1 DEF RanksOf
<1>5. RewardedRanks(c, n) = 1 .. e[3]
  <2>1. Len(c.tiers) = 3 /\ LastRank(c, n, 3) = e[3]
    BY <1>3, ConfigShape
  <2>. QED BY <2>1 DEF RewardedRanks
<1>. QED BY <1>1, <1>2, <1>4, <1>5 DEF e

\* A rank that is paid is in one tier.
LEMMA OneTier ==
  ASSUME NEW e, NEW w, Consecutive(e, w), NEW r \in 1 .. e[3]
  PROVE  /\ \E k \in Tiers : r \in e[k - 1] + 1 .. e[k]
         /\ \A k, l \in Tiers : r \in e[k - 1] + 1 .. e[k] /\ r \in e[l - 1] + 1 .. e[l] => k = l
<1>1. /\ e[0] = 0 /\ e[1] \in Nat /\ e[2] \in Nat /\ e[3] \in Nat
      /\ e[0] <= e[1] /\ e[1] <= e[2] /\ e[2] <= e[3]
  BY DEF Consecutive, Tiers
<1>2. r \in Nat /\ 1 <= r /\ r <= e[3]
  BY <1>1
<1>3. \E k \in Tiers : r \in e[k - 1] + 1 .. e[k]
  <2>1. r \in e[0] + 1 .. e[1] \/ r \in e[1] + 1 .. e[2] \/ r \in e[2] + 1 .. e[3]
    BY <1>1, <1>2
  <2>2. 1 - 1 = 0 /\ 2 - 1 = 1 /\ 3 - 1 = 2
    OBVIOUS
  <2>. QED BY <2>1, <2>2 DEF Tiers
<1>4. ASSUME NEW k \in Tiers, NEW l \in Tiers, r \in e[k - 1] + 1 .. e[k],
             r \in e[l - 1] + 1 .. e[l]
      PROVE  k = l
  <2>1. \A m \in Tiers : /\ m = 1 => e[m - 1] = 0 /\ e[m] = e[1]
                         /\ m = 2 => e[m - 1] = e[1] /\ e[m] = e[2]
                         /\ m = 3 => e[m - 1] = e[2] /\ e[m] = e[3]
    BY <1>1 DEF Tiers
  <2>2. /\ e[k - 1] < r /\ r <= e[k] /\ e[l - 1] < r /\ r <= e[l]
    <3>1. \A m \in Tiers : e[m - 1] \in Nat /\ e[m] \in Nat
      BY <1>1 DEF Tiers
    <3>2. \A m \in Tiers : r \in e[m - 1] + 1 .. e[m] => e[m - 1] < r /\ r <= e[m]
      BY <1>2, <3>1
    <3>. QED BY <1>4, <3>2
  <2>. QED BY <1>1, <1>2, <2>1, <2>2 DEF Tiers
<1>. QED BY <1>3, <1>4

\* Parts of an amount that are rounded down never add up to more than the amount.
LEMMA RoundedShares ==
  ASSUME NEW S, IsFiniteSet(S), NEW weight, \A x \in S : weight[x] \in Nat /\ weight[x] > 0,
         NEW total \in Nat
  PROVE  LET share == [x \in S |-> (total * weight[x]) \div SumOver(weight, S)]
         IN /\ \A x \in S : share[x] \in Nat
            /\ SumOver(share, S) \in Nat /\ SumOver(share, S) <= total
<1>. DEFINE w == SumOver(weight, S)
            share == [x \in S |-> (total * weight[x]) \div w]
            scaled == [x \in S |-> w * share[x]]
            bound == [x \in S |-> total * weight[x]]
<1>1. w \in Nat /\ \A x \in S : weight[x] <= w
  BY SumNat
<1>2. CASE S = {}
  BY <1>2, SumEmpty
<1>3. CASE S # {}
  <2>1. w > 0
    <3>1. PICK x \in S : TRUE
      BY <1>3
    <3>. HIDE DEF w
    <3>. QED BY <1>1, <3>1
  <2>. HIDE DEF w
  <2>2. \A x \in S : /\ share[x] \in Nat /\ scaled[x] = w * share[x] /\ scaled[x] \in Int
                     /\ bound[x] = total * weight[x] /\ bound[x] \in Int
                     /\ scaled[x] <= bound[x]
    <3>. SUFFICES ASSUME NEW x \in S
                  PROVE  /\ share[x] \in Nat /\ scaled[x] = w * share[x] /\ scaled[x] \in Int
                         /\ bound[x] = total * weight[x] /\ bound[x] \in Int
                         /\ scaled[x] <= bound[x]
      OBVIOUS
    <3>. DEFINE t == total * weight[x]
    <3>1. t \in Nat
      OBVIOUS
    <3>2. share[x] = t \div w /\ bound[x] = t /\ scaled[x] = w * share[x]
      OBVIOUS
    <3>. HIDE DEF t, share, bound, scaled
    <3>3. t \div w \in Nat /\ w * (t \div w) <= t /\ w * (t \div w) \in Int
      BY <1>1, <2>1, <3>1
    <3>. QED BY <3>1, <3>2, <3>3 DEF t
  <2>. DEFINE A == SumOver(share, S)
  <2>3. A \in Nat
    <3>1. \A x \in S : share[x] \in Nat
      BY <2>2
    <3>. HIDE DEF share
    <3>. QED BY <3>1, SumNat
  <2>4. SumOver(scaled, S) = w * A
    <3>1. w \in Int /\ \A x \in S : share[x] \in Int /\ scaled[x] = w * share[x]
      BY <1>1, <2>2
    <3>. HIDE DEF share, scaled
    <3>. QED BY <3>1, SumTimes
  <2>5. SumOver(bound, S) = total * w
    <3>1. total \in Int /\ \A x \in S : weight[x] \in Int /\ bound[x] = total * weight[x]
      BY <2>2
    <3>2. SumOver(bound, S) = total * SumOver(weight, S)
      <4>. HIDE DEF bound
      <4>. QED BY <3>1, SumTimes
    <3>. QED BY <3>2 DEF w
  <2>6. SumOver(scaled, S) <= SumOver(bound, S)
    <3>1. \A x \in S : scaled[x] \in Int /\ bound[x] \in Int /\ scaled[x] <= bound[x]
      BY <2>2
    <3>. HIDE DEF scaled, bound
    <3>. QED BY <3>1, SumMonotone
  <2>7. A <= total
    <3>. HIDE DEF A, scaled, bound
    <3>1. w * A <= total * w
      BY <2>4, <2>5, <2>6
    <3>2. SUFFICES ASSUME A > total PROVE FALSE
      BY <2>3
    <3>3. PICK d \in Nat : A = total + 1 + d
      BY <2>3, <3>2
    <3>4. w * A = w * total + w + w * d
      BY <1>1, <3>3
    <3>5. w * total = total * w /\ w * d \in Nat /\ w * total \in Nat
      BY <1>1
    <3>. QED BY <1>1, <2>1, <3>1, <3>4, <3>5
  <2>8. \A x \in S : share[x] \in Nat
    BY <2>2
  <2>9. A \in Nat /\ A <= total /\ \A x \in S : share[x] \in Nat
    BY <2>3, <2>7, <2>8
  <2>. QED BY <2>9 DEF w
<1>. QED BY <1>2, <1>3

\* Every rank of a tier has a weight.
LEMMA WeightPositive ==
  ASSUME NEW kind \in {"exponential", "linear", "equal"}, NEW last \in Nat, NEW r \in 1 .. last
  PROVE  Weight(kind, last, r) \in Nat /\ Weight(kind, last, r) > 0
<1>1. last - r + 1 \in Nat /\ last - r + 1 > 0
  OBVIOUS
<1>2. \A x \in Nat : x > 0 => x * x \in Nat /\ x * x > 0
  OBVIOUS
<1>. QED BY <1>1, <1>2 DEF Weight

\* The part of the pool that a tier has.
TierPool(c, amount, k) == (amount * c.tiers[k].share) \div 10000

\* A tier hands out no more.
LEMMA TierFits ==
  ASSUME NEW c \in Configs, NEW n \in Nat, NEW amount \in Nat, NEW k \in Tiers,
         NEW a \in Nat, LastRank(c, n, k) \in Nat, RanksOf(c, n, k) = a + 1 .. LastRank(c, n, k)
  PROVE  LET share == [r \in RanksOf(c, n, k) |-> TierReward(c, n, amount, k, r)]
         IN /\ \A r \in RanksOf(c, n, k) : share[r] \in Nat
            /\ SumOver(share, RanksOf(c, n, k)) \in Nat
            /\ SumOver(share, RanksOf(c, n, k)) <= TierPool(c, amount, k)
<1>. DEFINE S == RanksOf(c, n, k)
            last == LastRank(c, n, k)
            weight == [q \in S |-> Weight(c.tiers[k].kind, last, q)]
            total == TierPool(c, amount, k)
            share == [r \in S |-> TierReward(c, n, amount, k, r)]
            part == [r \in S |-> (total * weight[r]) \div SumOver(weight, S)]
<1>1. last \in Nat /\ IsFiniteSet(S) /\ S \subseteq 1 .. last
  <2>1. IsFiniteSet(a + 1 .. last)
    <3>1. a + 1 \in Int
      OBVIOUS
    <3>. QED BY <3>1, FS_Interval
  <2>2. a + 1 .. last \subseteq 1 .. last
    OBVIOUS
  <2>. QED BY <2>1, <2>2
<1>2. total \in Nat
  <2>1. amount * c.tiers[k].share \in Nat
    BY ConfigShape
  <2>. QED BY <2>1 DEF TierPool
<1>3. \A q \in S : weight[q] \in Nat /\ weight[q] > 0
  <2>. HIDE DEF last
  <2>1. \A q \in S : Weight(c.tiers[k].kind, last, q) \in Nat /\ Weight(c.tiers[k].kind, last, q) > 0
    <3>1. c.tiers[k].kind \in {"exponential", "linear", "equal"}
      BY ConfigShape
    <3>2. \A q \in S : q \in 1 .. last
      BY <1>1
    <3>. HIDE DEF S
    <3>. QED BY <1>1, <3>1, <3>2, WeightPositive
  <2>. QED BY <2>1
<1>4. share = part
  <2>1. \A r \in S : share[r] = part[r]
    BY DEF TierReward, TierPool
  <2>. QED BY <2>1
<1>5. \A r \in S : part[r] \in Nat
  <2>. HIDE DEF S, weight, total
  <2>. QED BY <1>1, <1>2, <1>3, RoundedShares
<1>6. SumOver(part, S) \in Nat /\ SumOver(part, S) <= total
  <2>. HIDE DEF S, weight, total
  <2>. QED BY <1>1, <1>2, <1>3, RoundedShares
<1>. QED BY <1>4, <1>5, <1>6

\* The parts of the tiers are no more than the pool.
LEMMA PoolsFit ==
  ASSUME NEW c \in Configs, NEW amount \in Nat
  PROVE  /\ \A k \in Tiers : TierPool(c, amount, k) \in Nat
         /\ TierPool(c, amount, 1) + TierPool(c, amount, 2) + TierPool(c, amount, 3) <= amount
<1>. DEFINE s(k) == c.tiers[k].share
            t(k) == amount * s(k)
<1>1. s(1) \in Nat /\ s(2) \in Nat /\ s(3) \in Nat /\ s(1) + s(2) + s(3) = 10000
  BY ConfigShape DEF Tiers
<1>2. \A k \in Tiers : TierPool(c, amount, k) = t(k) \div 10000
  BY DEF TierPool
<1>. HIDE DEF s
<1>3. t(1) \in Nat /\ t(2) \in Nat /\ t(3) \in Nat
  BY <1>1
<1>4. t(1) + t(2) + t(3) = amount * 10000
  <2>1. t(1) + t(2) + t(3) = amount * (s(1) + s(2) + s(3))
    BY <1>1
  <2>. QED BY <1>1, <2>1
<1>. HIDE DEF t
<1>5. ASSUME NEW x \in Nat
      PROVE  x \div 10000 \in Nat /\ 10000 * (x \div 10000) <= x
  OBVIOUS
<1>6. TierPool(c, amount, 1) + TierPool(c, amount, 2) + TierPool(c, amount, 3) <= amount
  <2>1. /\ TierPool(c, amount, 1) = t(1) \div 10000 /\ TierPool(c, amount, 2) = t(2) \div 10000
        /\ TierPool(c, amount, 3) = t(3) \div 10000
    BY <1>2 DEF Tiers
  <2>2. t(1) \div 10000 + t(2) \div 10000 + t(3) \div 10000 <= amount
    BY <1>3, <1>4, <1>5
  <2>. QED BY <2>1, <2>2
<1>7. \A k \in Tiers : TierPool(c, amount, k) \in Nat
  <2>1. \A k \in Tiers : t(k) \in Nat
    BY <1>3 DEF Tiers
  <2>. QED BY <1>2, <1>5, <2>1
<1>. QED BY <1>6, <1>7

\* Three summands.
LEMMA SumOfTiers ==
  ASSUME NEW h, \A k \in Tiers : h[k] \in Int
  PROVE  SumOver(h, Tiers) = h[1] + h[2] + h[3]
<1>1. Tiers = 1 .. 3 /\ 1 .. 3 - 1 = 1 .. 2 /\ 1 .. 2 - 1 = 1 .. 1 /\ 1 .. 1 - 1 = {}
  BY DEF Tiers
<1>2. ASSUME NEW n \in Tiers
      PROVE  SumOver(h, 1 .. n) = h[n] + SumOver(h, 1 .. n - 1)
  <2>1. n \in Nat /\ n > 0 /\ \A j \in 1 .. n : h[j] \in Int
    BY DEF Tiers
  <2>. QED BY <2>1, SumLast
<1>3. SumOver(h, 1 .. 3) = h[3] + SumOver(h, 1 .. 2)
  <2>1. 3 \in Tiers
    BY DEF Tiers
  <2>2. SumOver(h, 1 .. 3) = h[3] + SumOver(h, 1 .. 3 - 1)
    BY <1>2, <2>1
  <2>. QED BY <1>1, <2>2, Zenon
<1>4. SumOver(h, 1 .. 2) = h[2] + SumOver(h, 1 .. 1)
  <2>1. 2 \in Tiers
    BY DEF Tiers
  <2>2. SumOver(h, 1 .. 2) = h[2] + SumOver(h, 1 .. 2 - 1)
    BY <1>2, <2>1
  <2>. QED BY <1>1, <2>2, Zenon
<1>5. SumOver(h, 1 .. 1) = h[1] + SumOver(h, {})
  <2>1. 1 \in Tiers
    BY DEF Tiers
  <2>2. SumOver(h, 1 .. 1) = h[1] + SumOver(h, 1 .. 1 - 1)
    BY <1>2, <2>1
  <2>. QED BY <1>1, <2>2, Zenon
<1>6. SumOver(h, {}) = 0 /\ h[1] \in Int /\ h[2] \in Int /\ h[3] \in Int
  BY SumEmpty DEF Tiers
<1>7. SumOver(h, Tiers) = SumOver(h, 1 .. 3)
  BY <1>1
<1>. QED BY <1>3, <1>4, <1>5, <1>6, <1>7

\* The tiers divide the ranks that are paid.
LEMMA TierDivision ==
  ASSUME NEW c \in Configs, NEW n \in Nat, ~RolledOver(c, n)
  PROVE  /\ IsFiniteSet(RewardedRanks(c, n))
         /\ \A r \in RewardedRanks(c, n) :
              TierOf(c, n, r) \in Tiers /\ r \in RanksOf(c, n, TierOf(c, n, r))
         /\ \A k \in Tiers :
              /\ RanksOf(c, n, k) \subseteq RewardedRanks(c, n) /\ IsFiniteSet(RanksOf(c, n, k))
              /\ \A r \in RanksOf(c, n, k) : TierOf(c, n, r) = k
<1>. DEFINE w == TotalWinners(c, n)
            e == [k \in 0 .. 3 |-> EndRank(c, n, w, k)]
            paid == RewardedRanks(c, n)
<1>1. /\ Consecutive(e, w) /\ paid = 1 .. e[3]
      /\ \A k \in Tiers : RanksOf(c, n, k) = e[k - 1] + 1 .. e[k]
  BY TiersPaid
<1>2. DOMAIN c.tiers = Tiers
  BY ConfigShape
<1>. HIDE DEF e, w
<1>3. /\ e[3] \in Nat /\ \A k \in Tiers : e[k - 1] \in Nat /\ e[k] \in Nat /\ e[k] <= e[3]
  BY <1>1 DEF Consecutive, Tiers
<1>4. IsFiniteSet(paid)
  BY <1>1, <1>3, FS_Interval
<1>5. ASSUME NEW r \in paid
      PROVE  TierOf(c, n, r) \in Tiers /\ r \in RanksOf(c, n, TierOf(c, n, r))
  <2>1. \E k \in Tiers : r \in e[k - 1] + 1 .. e[k]
    BY <1>1, OneTier
  <2>2. \E k \in DOMAIN c.tiers : r \in RanksOf(c, n, k)
    BY <1>1, <1>2, <2>1
  <2>3. TierOf(c, n, r) \in DOMAIN c.tiers /\ r \in RanksOf(c, n, TierOf(c, n, r))
    BY <2>2 DEF TierOf
  <2>. QED BY <1>2, <2>3
<1>6. ASSUME NEW k \in Tiers
      PROVE  /\ RanksOf(c, n, k) \subseteq paid /\ IsFiniteSet(RanksOf(c, n, k))
             /\ \A r \in RanksOf(c, n, k) : TierOf(c, n, r) = k
  <2>1. RanksOf(c, n, k) = e[k - 1] + 1 .. e[k]
    BY <1>1
  <2>2. e[k - 1] \in Nat /\ e[k] \in Nat /\ e[k] <= e[3]
    BY <1>3
  <2>3. RanksOf(c, n, k) \subseteq paid
    <3>. DEFINE x == e[k - 1]
                y == e[k]
                z == e[3]
    <3>1. x \in Nat /\ y \in Nat /\ z \in Nat /\ y <= z
      BY <1>3
    <3>. HIDE DEF x, y, z
    <3>2. x + 1 .. y \subseteq 1 .. z
      BY <3>1
    <3>. QED BY <1>1, <2>1, <3>2 DEF x, y, z
  <2>4. ASSUME NEW r \in RanksOf(c, n, k)
        PROVE  TierOf(c, n, r) = k
    <3>1. r \in paid
      BY <2>3
    <3>. DEFINE l == TierOf(c, n, r)
    <3>2. l \in Tiers /\ r \in RanksOf(c, n, l)
      BY <1>5, <3>1
    <3>. HIDE DEF l
    <3>3. r \in e[k - 1] + 1 .. e[k] /\ r \in e[l - 1] + 1 .. e[l] /\ r \in 1 .. e[3]
      BY <1>1, <3>1, <3>2
    <3>4. l = k
      BY <1>1, <3>2, <3>3, OneTier
    <3>. QED BY <3>4 DEF l
  <2>5. IsFiniteSet(RanksOf(c, n, k))
    BY <1>4, <2>3, FS_Subset
  <2>. QED BY <2>3, <2>4, <2>5
<1>. QED BY <1>4, <1>5, <1>6

\* The rounded rewards are amounts and no more than the pool.
LEMMA BaseFits ==
  ASSUME NEW c \in Configs, NEW n \in Nat, ~RolledOver(c, n), NEW amount \in Nat
  PROVE  LET paid == RewardedRanks(c, n)
             base == [r \in paid |-> TierReward(c, n, amount, TierOf(c, n, r), r)]
         IN /\ \A r \in paid : base[r] \in Nat
            /\ SumOver(base, paid) \in Nat /\ SumOver(base, paid) <= amount
<1>. DEFINE paid == RewardedRanks(c, n)
            tier == [r \in paid |-> TierOf(c, n, r)]
            base == [r \in paid |-> TierReward(c, n, amount, TierOf(c, n, r), r)]
            share(k) == [r \in RanksOf(c, n, k) |-> TierReward(c, n, amount, k, r)]
            h == [k \in Tiers |-> SumOver(base, Group(tier, paid, k))]
<1>1. /\ IsFiniteSet(paid)
      /\ \A r \in paid : TierOf(c, n, r) \in Tiers /\ r \in RanksOf(c, n, TierOf(c, n, r))
      /\ \A k \in Tiers : /\ RanksOf(c, n, k) \subseteq paid /\ IsFiniteSet(RanksOf(c, n, k))
                          /\ \A r \in RanksOf(c, n, k) : TierOf(c, n, r) = k
  BY TierDivision
<1>2. ASSUME NEW k \in Tiers
      PROVE  /\ \A r \in RanksOf(c, n, k) : share(k)[r] \in Nat
             /\ SumOver(share(k), RanksOf(c, n, k)) \in Nat
             /\ SumOver(share(k), RanksOf(c, n, k)) <= TierPool(c, amount, k)
  <2>. DEFINE w == TotalWinners(c, n)
              e == [j \in 0 .. 3 |-> EndRank(c, n, w, j)]
  <2>1. Consecutive(e, w) /\ RanksOf(c, n, k) = e[k - 1] + 1 .. e[k] /\ Min({n, w}) = w
    BY TiersPaid, WinnersThere
  <2>2. k \in 0 .. 3 /\ k - 1 \in 0 .. 3
    BY DEF Tiers
  <2>3. LastRank(c, n, k) = e[k]
    BY <2>1, <2>2 DEF LastRank
  <2>. HIDE DEF e, w
  <2>4. e[k - 1] \in Nat /\ e[k] \in Nat
    BY <2>1, <2>2 DEF Consecutive
  <2>5. LastRank(c, n, k) \in Nat /\ RanksOf(c, n, k) = e[k - 1] + 1 .. LastRank(c, n, k)
    BY <2>1, <2>3, <2>4
  <2>. QED BY <2>4, <2>5, TierFits
<1>3. \A r \in paid : base[r] \in Nat
  <2>. SUFFICES ASSUME NEW r \in paid PROVE base[r] \in Nat
    OBVIOUS
  <2>. DEFINE k == TierOf(c, n, r)
  <2>1. k \in Tiers /\ r \in RanksOf(c, n, k)
    BY <1>1
  <2>2. base[r] = TierReward(c, n, amount, k, r)
    OBVIOUS
  <2>. HIDE DEF k
  <2>3. share(k)[r] \in Nat /\ share(k)[r] = TierReward(c, n, amount, k, r)
    BY <1>2, <2>1
  <2>. QED BY <2>2, <2>3
<1>4. \A k \in Tiers : Group(tier, paid, k) = RanksOf(c, n, k)
  BY <1>1 DEF Group
<1>5. \A k \in Tiers : h[k] = SumOver(share(k), RanksOf(c, n, k))
  <2>. SUFFICES ASSUME NEW k \in Tiers PROVE h[k] = SumOver(share(k), RanksOf(c, n, k))
    OBVIOUS
  <2>1. h[k] = SumOver(base, RanksOf(c, n, k))
    BY <1>4
  <2>2. \A r \in RanksOf(c, n, k) : share(k)[r] \in Int /\ base[r] = share(k)[r]
    <3>1. \A r \in RanksOf(c, n, k) : r \in paid /\ TierOf(c, n, r) = k
      BY <1>1
    <3>2. \A r \in RanksOf(c, n, k) : base[r] = TierReward(c, n, amount, k, r)
      BY <3>1
    <3>3. \A r \in RanksOf(c, n, k) : share(k)[r] = TierReward(c, n, amount, k, r)
      OBVIOUS
    <3>4. \A r \in RanksOf(c, n, k) : share(k)[r] \in Int
      <4>. HIDE DEF share
      <4>. QED BY <1>2
    <3>. QED BY <3>2, <3>3, <3>4
  <2>. HIDE DEF share, base, h
  <2>3. SumOver(base, RanksOf(c, n, k)) = SumOver(share(k), RanksOf(c, n, k))
    BY <1>1, <2>2, SumSame
  <2>. QED BY <2>1, <2>3
<1>6. SumOver(h, Tiers) = SumOver(base, paid)
  <2>1. IsFiniteSet(Tiers)
    <3>1. Tiers = 1 .. 3 /\ 1 \in Int /\ 3 \in Int
      BY DEF Tiers
    <3>2. IsFiniteSet(1 .. 3)
      BY <3>1, FS_Interval
    <3>. QED BY <3>1, <3>2
  <2>2. \A r \in paid : base[r] \in Int /\ tier[r] \in Tiers
    BY <1>1, <1>3
  <2>3. \A k \in Tiers : h[k] = SumOver(base, Group(tier, paid, k))
    OBVIOUS
  <2>. HIDE DEF h, base, tier, paid
  <2>. QED BY <1>1, <2>1, <2>2, <2>3, SumGroups
<1>7. \A k \in Tiers : h[k] \in Nat /\ h[k] <= TierPool(c, amount, k)
  <2>. HIDE DEF h, share
  <2>. QED BY <1>2, <1>5
<1>8. SumOver(base, paid) = h[1] + h[2] + h[3]
  <2>. HIDE DEF h, base, paid
  <2>. QED BY <1>6, <1>7, SumOfTiers
<1>9. SumOver(base, paid) \in Nat /\ SumOver(base, paid) <= amount
  <2>. DEFINE total == SumOver(base, paid)
              p(k) == TierPool(c, amount, k)
  <2>1. total = h[1] + h[2] + h[3]
    BY <1>8
  <2>2. /\ h[1] \in Nat /\ h[2] \in Nat /\ h[3] \in Nat
        /\ h[1] <= p(1) /\ h[2] <= p(2) /\ h[3] <= p(3)
    <3>. HIDE DEF h
    <3>. QED BY <1>7 DEF Tiers
  <2>3. p(1) \in Nat /\ p(2) \in Nat /\ p(3) \in Nat /\ p(1) + p(2) + p(3) <= amount
    BY PoolsFit DEF Tiers
  <2>. HIDE DEF h, total, p
  <2>4. total \in Nat /\ total <= amount
    BY <2>1, <2>2, <2>3
  <2>. QED BY <2>4 DEF total
<1>. QED BY <1>3, <1>9

\* The engine hands out the pool, when anybody is paid.
LEMMA PoolExhausted ==
  ASSUME NEW c \in Configs, NEW n \in Nat, NEW amount \in Nat, RewardedRanks(c, n) # {}
  PROVE  LET paid == RewardedRanks(c, n)
             reward == Rewards(c, n, amount)
         IN /\ \A r \in paid : reward[r] >= 0
            /\ SumOver(reward, paid) = amount
<1>. DEFINE paid == RewardedRanks(c, n)
            base == [r \in paid |-> TierReward(c, n, amount, TierOf(c, n, r), r)]
            total == SumOver(base, paid)
            rest == Max({0, amount - total})
            reward == Rewards(c, n, amount)
<1>1. ~RolledOver(c, n)
  BY DEF RewardedRanks
<1>2. (\A r \in paid : base[r] \in Nat) /\ total \in Nat /\ total <= amount
  BY <1>1, BaseFits
<1>3. IsFiniteSet(paid) /\ 1 \in paid
  <2>. DEFINE w == TotalWinners(c, n)
              e == [k \in 0 .. 3 |-> EndRank(c, n, w, k)]
  <2>1. paid = 1 .. e[3] /\ Consecutive(e, w)
    BY <1>1, TiersPaid
  <2>2. 1 \in 1 .. e[3]
    <3>. HIDE DEF e, w
    <3>1. e[1] \in Nat /\ e[2] \in Nat /\ e[3] \in Nat /\ e[1] > 0 /\ e[1] <= e[2] /\ e[2] <= e[3]
      BY <2>1 DEF Consecutive, Tiers
    <3>. QED BY <3>1
  <2>3. IsFiniteSet(paid)
    BY <1>1, TierDivision
  <2>. QED BY <2>1, <2>2, <2>3
<1>4. rest = amount - total /\ rest \in Nat
  <2>. DEFINE left == amount - total
  <2>1. left \in Nat
    <3>. HIDE DEF total
    <3>. QED BY <1>2
  <2>2. rest = Max({0, left})
    OBVIOUS
  <2>. HIDE DEF left, rest
  <2>3. (Max({0, left}) = 0 /\ left <= 0) \/ (Max({0, left}) = left /\ 0 <= left)
    BY <2>1, MaxOfTwo
  <2>4. rest = left /\ rest \in Nat
    BY <2>1, <2>2, <2>3
  <2>. QED BY <2>4 DEF left
<1>5. reward = [base EXCEPT ![1] = @ + rest]
  BY DEF Rewards
<1>6. /\ \A r \in paid : base[r] \in Int /\ reward[r] \in Nat
      /\ reward[1] = base[1] + rest /\ \A r \in paid \ {1} : reward[r] = base[r]
  <2>1. base = [r \in paid |-> base[r]]
    OBVIOUS
  <2>2. reward[1] = base[1] + rest /\ \A r \in paid \ {1} : reward[r] = base[r]
    <3>. HIDE DEF base, rest, reward, paid
    <3>. QED BY <1>3, <1>5, <2>1
  <2>3. base[1] \in Nat /\ rest \in Nat
    BY <1>2, <1>3, <1>4
  <2>4. reward[1] \in Nat
    <3>. HIDE DEF base, rest, reward, paid
    <3>. QED BY <2>2, <2>3
  <2>5. \A r \in paid : reward[r] \in Nat
    <3>. HIDE DEF base, rest, reward, paid
    <3>. QED BY <1>2, <2>2, <2>4
  <2>. QED BY <1>2, <2>2, <2>5
<1>7. SumOver(reward, paid) = total - base[1] + reward[1]
  <2>1. \A r \in paid : reward[r] \in Int
    BY <1>6
  <2>. HIDE DEF base, rest, reward, paid
  <2>. QED BY <1>3, <1>6, <2>1, SumUpdate DEF total
<1>8. base[1] \in Int
  BY <1>3, <1>6
<1>9. SumOver(reward, paid) = amount
  <2>. DEFINE sum == SumOver(reward, paid)
              b == base[1]
              a == reward[1]
  <2>1. sum = total - b + a /\ a = b + rest /\ rest = amount - total /\ b \in Int
    BY <1>4, <1>6, <1>7, <1>8
  <2>. HIDE DEF sum, b, a, rest, total
  <2>2. total \in Nat
    BY <1>2
  <2>3. sum = amount
    BY <2>1, <2>2
  <2>. QED BY <2>3 DEF sum
<1>10. \A r \in paid : reward[r] >= 0
  <2>1. \A x \in Nat : x >= 0
    OBVIOUS
  <2>. HIDE DEF reward, paid
  <2>. QED BY <1>6, <2>1
<1>. QED BY <1>9, <1>10

\* What is shown is what is paid: a player's tier, and the boundaries of the tiers.
LEMMA ViewsAgree ==
  ASSUME NEW c \in Configs, NEW n \in Nat
  PROVE  LET paid == RewardedRanks(c, n)
             rows == TierBoundaries(c, n)
             ranks == [k \in DOMAIN c.tiers |-> RanksOf(c, n, k) \cap paid]
         IN /\ \A r \in 1 .. n :
                 PlayerTier(c, n, r) = {k \in DOMAIN ranks : r \in ranks[k]}
            /\ \A row \in rows : row.startRank .. row.endRank = ranks[row.tier]
            /\ paid = UNION {row.startRank .. row.endRank : row \in rows}
<1>. DEFINE paid == RewardedRanks(c, n)
            rows == TierBoundaries(c, n)
            ranks == [k \in DOMAIN c.tiers |-> RanksOf(c, n, k) \cap paid]
<1>1. DOMAIN c.tiers = Tiers /\ DOMAIN ranks = Tiers
  BY ConfigShape
<1>2. CASE RolledOver(c, n)
  <2>1. paid = {} /\ rows = {} /\ \A r \in 1 .. n : PlayerTier(c, n, r) = {}
    BY <1>2 DEF RewardedRanks, TierBoundaries, PlayerTier
  <2>2. \A k \in Tiers : ranks[k] = {}
    BY <1>1, <2>1
  <2>. HIDE DEF ranks, rows, paid
  <2>. QED BY <1>1, <2>1, <2>2 DEF ranks, rows, paid
<1>3. CASE ~RolledOver(c, n)
  <2>. DEFINE w == TotalWinners(c, n)
              end(k) == EndRank(c, n, w, k)
              e == [k \in 0 .. 3 |-> EndRank(c, n, w, k)]
              row(k) == [tier |-> k, startRank |-> end(k - 1) + 1, endRank |-> end(k)]
  <2>1. /\ w \in Nat /\ w <= n /\ Consecutive(e, w)
        /\ \A k \in Tiers : RanksOf(c, n, k) = e[k - 1] + 1 .. e[k]
        /\ paid = 1 .. e[3]
    BY <1>3, TiersPaid
  <2>2. \A k \in Tiers : end(k) = e[k] /\ end(k - 1) = e[k - 1]
    <3>1. \A k \in Tiers : k \in 0 .. 3 /\ k - 1 \in 0 .. 3
      BY DEF Tiers
    <3>. QED BY <3>1
  <2>3. \A k \in Tiers : RanksOf(c, n, k) \subseteq paid
    BY <1>3, TierDivision
  <2>4. \A k \in Tiers : ranks[k] = e[k - 1] + 1 .. e[k]
    <3>1. \A k \in Tiers : ranks[k] = RanksOf(c, n, k) \cap paid
      BY <1>1
    <3>. HIDE DEF ranks, paid, e
    <3>. QED BY <2>1, <2>3, <3>1
  <2>5. rows = {row(k) : k \in {j \in Tiers : end(j - 1) < w}}
    BY <1>1, <1>3 DEF TierBoundaries
  <2>6. /\ \A k \in Tiers : e[k - 1] \in Nat /\ e[k] \in Nat /\ e[k - 1] <= e[k]
                            /\ e[k - 1] <= w /\ e[k] <= w
        /\ e[3] \in Nat /\ e[3] <= w
        /\ \A k \in Tiers : e[k - 1] = w => e[k] = w
    <3>. HIDE DEF e, w
    <3>1. \A k \in Tiers : k \in 0 .. 3 /\ k - 1 \in 0 .. 3
      BY DEF Tiers
    <3>. QED BY <2>1, <3>1 DEF Consecutive
  <2>7. ASSUME NEW r \in 1 .. n
        PROVE  PlayerTier(c, n, r) = {k \in DOMAIN ranks : r \in ranks[k]}
    <3>1. r \in Nat /\ 1 <= r
      OBVIOUS
    <3>2. CASE r > w
      <4>1. PlayerTier(c, n, r) = {}
        BY <3>2 DEF PlayerTier
      <4>2. \A k \in Tiers : r \notin ranks[k]
        <5>. HIDE DEF ranks, e, w
        <5>. QED BY <2>1, <2>4, <2>6, <3>1, <3>2
      <4>. HIDE DEF ranks
      <4>. QED BY <1>1, <4>1, <4>2
    <3>3. CASE ~(r > w)
      <4>1. PlayerTier(c, n, r) = {k \in Tiers : end(k - 1) < r /\ r <= end(k)}
        BY <1>1, <1>3, <3>3 DEF PlayerTier
      <4>2. \A k \in Tiers : (end(k - 1) < r /\ r <= end(k)) <=> r \in ranks[k]
        <5>. HIDE DEF ranks, end, e, w
        <5>. QED BY <2>2, <2>4, <2>6, <3>1
      <4>. HIDE DEF ranks, end
      <4>. QED BY <1>1, <4>1, <4>2
    <3>. QED BY <3>2, <3>3
  <2>8. ASSUME NEW x \in rows
        PROVE  x.startRank .. x.endRank = ranks[x.tier]
    <3>1. PICK k \in Tiers : x = row(k)
      BY <2>5
    <3>2. x.startRank = end(k - 1) + 1 /\ x.endRank = end(k) /\ x.tier = k
      BY <3>1
    <3>. HIDE DEF ranks, end, e
    <3>. QED BY <2>2, <2>4, <3>2
  <2>9. paid = UNION {x.startRank .. x.endRank : x \in rows}
    <3>1. ASSUME NEW r \in paid
          PROVE  \E x \in rows : r \in x.startRank .. x.endRank
      <4>1. PICK k \in Tiers : r \in e[k - 1] + 1 .. e[k]
        <5>1. r \in 1 .. e[3]
          BY <2>1
        <5>. HIDE DEF e, w
        <5>. QED BY <2>1, <5>1, OneTier
      <4>2. end(k - 1) < w
        <5>. HIDE DEF e, w, end
        <5>1. end(k - 1) = e[k - 1] /\ e[k - 1] \in Nat /\ e[k] \in Nat /\ e[k] <= w
          BY <2>2, <2>6
        <5>2. r \in Int /\ e[k - 1] + 1 <= r /\ r <= e[k]
          BY <4>1, <5>1
        <5>. QED BY <2>1, <5>1, <5>2
      <4>3. row(k) \in rows
        BY <2>5, <4>2
      <4>4. row(k).startRank = e[k - 1] + 1 /\ row(k).endRank = e[k]
        <5>1. row(k).startRank = end(k - 1) + 1 /\ row(k).endRank = end(k)
          OBVIOUS
        <5>. HIDE DEF e, end, row
        <5>. QED BY <2>2, <5>1
      <4>. HIDE DEF row, rows, e
      <4>. QED BY <4>1, <4>3, <4>4
    <3>2. ASSUME NEW x \in rows
          PROVE  x.startRank .. x.endRank \subseteq paid
      <4>1. x.startRank .. x.endRank = ranks[x.tier] /\ x.tier \in Tiers
        <5>1. x.tier \in Tiers
          BY <2>5
        <5>. QED BY <2>8, <5>1
      <4>2. ranks[x.tier] \subseteq paid
        BY <1>1, <4>1
      <4>. HIDE DEF ranks, rows, paid
      <4>. QED BY <4>1, <4>2
    <3>. HIDE DEF rows, paid
    <3>. QED BY <3>1, <3>2
  <2>. HIDE DEF rows, ranks
  <2>. QED BY <2>7, <2>8, <2>9 DEF rows, ranks
<1>. QED BY <1>2, <1>3

-----------------------------------------------------------------------------
\* A leaderboard has a configuration in use, and its figures are amounts.
LeaderboardTyped == config \in Configs /\ participants \in Nat /\ pool \in Nat

\* Then the two tables agree.
LEMMA TypedAgrees ==
  ASSUME LeaderboardTyped
  PROVE  RewardsAgree
<1>1. config \in Configs /\ participants \in Nat /\ pool \in Nat
  BY DEF LeaderboardTyped
<1>2. RewardsExhaustPool
  BY <1>1, PoolExhausted DEF RewardsExhaustPool, Paid
<1>3. TierViewsAgree
  BY <1>1, ViewsAgree DEF TierViewsAgree, Paid
<1>. QED BY <1>2, <1>3 DEF RewardsAgree

\* What a player is shown is what is paid, and it is the whole pool, to the token,
\* whatever the pool and however many take part (calculateRewardDistribution,
\* getPlayerTier, getTierBoundaries with the configurations in use).
THEOREM RewardsAlwaysAgree == ResultsSpec => []RewardsAgree
<1>1. ResultsInit => LeaderboardTyped
  <2>1. LeaderboardInit => LeaderboardTyped
    BY PoolAssumption DEF LeaderboardInit, LeaderboardTyped, Configs
  <2>2. NoLeaderboard => LeaderboardTyped
    BY DEF NoLeaderboard, LeaderboardTyped, Configs
  <2>. QED BY <2>1, <2>2 DEF ResultsInit
<1>2. LeaderboardTyped /\ [ResultsNext]_resultsVars => LeaderboardTyped'
  <2>. SUFFICES ASSUME LeaderboardTyped, [ResultsNext]_resultsVars
                PROVE  LeaderboardTyped'
    OBVIOUS
  <2>1. CASE Join
    BY <2>1 DEF Join, LeaderboardTyped
  <2>2. CASE UNCHANGED leaderboardVars
    BY <2>2 DEF leaderboardVars, LeaderboardTyped
  <2>3. Play \/ Rename \/ UNCHANGED resultsVars => UNCHANGED leaderboardVars
    BY DEF Play, Rename, resultsVars
  <2>. QED BY <2>1, <2>2, <2>3 DEF ResultsNext
<1>3. LeaderboardTyped => RewardsAgree
  BY TypedAgrees
<1>. QED BY <1>1, <1>2, <1>3, PTL DEF ResultsSpec

-----------------------------------------------------------------------------
(***************************************************************************)
(* 2048.  A tile is worth what its merges have scored.  A line keeps its   *)
(* worth but for what it scores, whatever its length, and so does a board, *)
(* whose cells each direction divides into lines.                          *)
(***************************************************************************)
\* What is empty, or a tile.
Tile2048 == {v \in Nat : v >= 2}
Content == Tile2048 \cup {0}

\* The worth of the numbers up to n, as a function.
WorthUpTo(n, g) ==
  /\ g \in [0 .. n -> Nat]
  /\ \A t \in 0 .. n : g[t] = IF t <= 2 THEN 0 ELSE t + 2 * g[t \div 2]

\* Half of a number is smaller.
LEMMA Half ==
  ASSUME NEW t \in Nat, t > 2
  PROVE  t \div 2 \in Nat /\ t \div 2 < t
OBVIOUS

\* Two such functions agree where both are defined,
LEMMA WorthUnique ==
  ASSUME NEW m \in Nat, NEW n \in Nat, m <= n, NEW g, NEW h, WorthUpTo(m, g), WorthUpTo(n, h)
  PROVE  \A t \in 0 .. m : g[t] = h[t]
<1>. DEFINE bad == {t \in 0 .. m : g[t] # h[t]}
<1>1. SUFFICES ASSUME bad # {} PROVE FALSE
  OBVIOUS
<1>2. PICK t \in bad : \A s \in bad : t <= s
  <2>1. bad \subseteq Nat
    OBVIOUS
  <2>. QED BY <1>1, <2>1, LeastNat
<1>3. t \in Nat /\ t \in 0 .. m /\ t \in 0 .. n /\ g[t] # h[t]
  BY <1>2
<1>4. /\ g[t] = IF t <= 2 THEN 0 ELSE t + 2 * g[t \div 2]
      /\ h[t] = IF t <= 2 THEN 0 ELSE t + 2 * h[t \div 2]
  BY <1>3 DEF WorthUpTo
<1>5. t > 2
  BY <1>3, <1>4
<1>6. t \div 2 \in Nat /\ t \div 2 < t
  BY <1>3, <1>5, Half
<1>7. t \div 2 \in 0 .. m /\ t \div 2 \notin bad
  BY <1>2, <1>3, <1>6
<1>8. g[t \div 2] = h[t \div 2]
  BY <1>7
<1>. QED BY <1>3, <1>4, <1>8

\* and there is one up to every number.
LEMMA WorthExists ==
  ASSUME NEW n \in Nat
  PROVE  \E g : WorthUpTo(n, g)
<1>. DEFINE bad == {k \in Nat : ~ \E g : WorthUpTo(k, g)}
<1>1. SUFFICES ASSUME bad # {} PROVE FALSE
  OBVIOUS
<1>2. PICK k \in bad : \A j \in bad : k <= j
  <2>1. bad \subseteq Nat
    OBVIOUS
  <2>. QED BY <1>1, <2>1, LeastNat
<1>3. k \in Nat /\ ~ \E g : WorthUpTo(k, g)
  BY <1>2
<1>4. CASE k = 0
  <2>. DEFINE g == [t \in 0 .. 0 |-> 0]
  <2>1. WorthUpTo(0, g)
    BY DEF WorthUpTo
  <2>. QED BY <1>3, <1>4, <2>1
<1>5. CASE k > 0
  <2>1. k - 1 \in Nat /\ k - 1 \notin bad
    BY <1>2, <1>3, <1>5
  <2>2. PICK h : WorthUpTo(k - 1, h)
    BY <2>1
  <2>. DEFINE new == IF k <= 2 THEN 0 ELSE k + 2 * h[k \div 2]
              g == [t \in 0 .. k |-> IF t = k THEN new ELSE h[t]]
  <2>3. h \in [0 .. k - 1 -> Nat]
        /\ \A t \in 0 .. k - 1 : h[t] = IF t <= 2 THEN 0 ELSE t + 2 * h[t \div 2]
    BY <2>2 DEF WorthUpTo
  <2>4. \A t \in 0 .. k : t > 2 => t \div 2 \in 0 .. k - 1
    <3>. SUFFICES ASSUME NEW t \in 0 .. k, t > 2 PROVE t \div 2 \in 0 .. k - 1
      OBVIOUS
    <3>1. t \div 2 \in Nat /\ t \div 2 < t
      BY Half
    <3>. QED BY <1>3, <3>1
  <2>5. new \in Nat
    <3>1. CASE k <= 2
      BY <3>1
    <3>2. CASE k > 2
      <4>1. h[k \div 2] \in Nat
        BY <1>3, <2>3, <2>4, <3>2
      <4>. DEFINE x == h[k \div 2]
      <4>2. new = k + 2 * x
        BY <1>3, <3>2
      <4>. HIDE DEF x, new
      <4>. QED BY <1>3, <4>1, <4>2 DEF x
    <3>. QED BY <1>3, <3>1, <3>2
  <2>6. \A t \in 0 .. k - 1 : g[t] = h[t]
    BY <1>3
  <2>7. g[k] = new
    BY <1>3
  <2>8. g \in [0 .. k -> Nat]
    <3>. HIDE DEF new
    <3>. QED BY <1>3, <2>3, <2>5
  <2>9. ASSUME NEW t \in 0 .. k
        PROVE  g[t] = IF t <= 2 THEN 0 ELSE t + 2 * g[t \div 2]
    <3>0. t > 2 => g[t \div 2] = h[t \div 2]
      <4>. HIDE DEF g
      <4>. QED BY <2>4, <2>6
    <3>1. CASE t = k
      <4>. HIDE DEF g
      <4>. QED BY <1>3, <2>7, <3>0, <3>1
    <3>2. CASE t # k
      <4>1. t \in 0 .. k - 1
        BY <1>3, <3>2
      <4>. HIDE DEF g, new
      <4>. QED BY <2>3, <2>6, <3>0, <4>1
    <3>. QED BY <3>1, <3>2
  <2>10. WorthUpTo(k, g)
    <3>. HIDE DEF g
    <3>. QED BY <2>8, <2>9 DEF WorthUpTo
  <2>. QED BY <1>3, <2>10
<1>. QED BY <1>3, <1>4, <1>5

\* The worth of a number is well defined.
LEMMA WorthValue ==
  \A t \in Nat : /\ Worth[t] \in Nat
                 /\ Worth[t] = IF t <= 2 THEN 0 ELSE t + 2 * Worth[t \div 2]
<1>. DEFINE A(n) == CHOOSE g : WorthUpTo(n, g)
            F == [t \in Nat |-> A(t)[t]]
            WorthBody(g) == [t \in Nat |-> IF t <= 2 THEN 0 ELSE t + 2 * g[t \div 2]]
<1>1. \A n \in Nat : WorthUpTo(n, A(n))
  BY WorthExists
<1>. HIDE DEF A
<1>2. ASSUME NEW t \in Nat
      PROVE  F[t] = IF t <= 2 THEN 0 ELSE t + 2 * F[t \div 2]
  <2>1. A(t)[t] = IF t <= 2 THEN 0 ELSE t + 2 * A(t)[t \div 2]
    <3>1. t \in 0 .. t
      OBVIOUS
    <3>. QED BY <1>1, <3>1 DEF WorthUpTo
  <2>2. t > 2 => A(t)[t \div 2] = F[t \div 2]
    <3>. SUFFICES ASSUME t > 2 PROVE A(t)[t \div 2] = F[t \div 2]
      OBVIOUS
    <3>. DEFINE s == t \div 2
    <3>1. s \in Nat /\ s < t
      BY Half
    <3>. HIDE DEF s
    <3>2. WorthUpTo(s, A(s)) /\ WorthUpTo(t, A(t))
      BY <1>1, <3>1
    <3>3. \A u \in 0 .. s : A(s)[u] = A(t)[u]
      BY <3>1, <3>2, WorthUnique
    <3>4. F[s] = A(s)[s] /\ s \in 0 .. s
      BY <3>1
    <3>5. A(t)[s] = F[s]
      BY <3>3, <3>4
    <3>. QED BY <3>5 DEF s
  <2>3. F[t] = A(t)[t]
    OBVIOUS
  <2>. HIDE DEF F
  <2>. QED BY <2>1, <2>2, <2>3
<1>3. F = WorthBody(F)
  <2>1. F = [t \in Nat |-> F[t]]
    OBVIOUS
  <2>. HIDE DEF F
  <2>2. [t \in Nat |-> F[t]] = WorthBody(F)
    BY <1>2
  <2>. QED BY <2>1, <2>2
<1>4. Worth = CHOOSE g : g = WorthBody(g)
  BY DEF Worth
<1>5. Worth = WorthBody(Worth)
  <2>. HIDE DEF F, WorthBody
  <2>. QED BY <1>3, <1>4
<1>6. \A t \in Nat : Worth[t] = IF t <= 2 THEN 0 ELSE t + 2 * Worth[t \div 2]
  BY <1>5
<1>. DEFINE bad == {t \in Nat : Worth[t] \notin Nat}
<1>7. bad = {}
  <2>1. SUFFICES ASSUME bad # {} PROVE FALSE
    OBVIOUS
  <2>2. PICK t \in bad : \A s \in bad : t <= s
    <3>1. bad \subseteq Nat
      OBVIOUS
    <3>. QED BY <2>1, <3>1, LeastNat
  <2>3. t \in Nat /\ Worth[t] \notin Nat
    BY <2>2
  <2>4. CASE t <= 2
    BY <1>6, <2>3, <2>4
  <2>5. CASE t > 2
    <3>. DEFINE s == t \div 2
    <3>1. s \in Nat /\ s < t
      BY <2>3, <2>5, Half
    <3>2. Worth[t] = t + 2 * Worth[s]
      BY <1>6, <2>3, <2>5
    <3>. HIDE DEF s
    <3>3. Worth[s] \in Nat
      BY <2>2, <2>3, <3>1
    <3>. QED BY <2>3, <3>2, <3>3
  <2>. QED BY <2>3, <2>4, <2>5
<1>. QED BY <1>6, <1>7

\* An empty cell and a two are worth nothing, a four was spawned or scored four, and a
\* merge scores what it adds to the worth of its tiles.
LEMMA WorthFacts ==
  /\ Worth[0] = 0 /\ Worth[2] = 0 /\ Worth[4] = 4
  /\ \A v \in Content : v \in Nat /\ Worth[v] \in Nat
  /\ \A v \in Tile2048 : 2 * v \in Tile2048 /\ Worth[2 * v] = 2 * v + 2 * Worth[v]
<1>1. Worth[0] = 0 /\ Worth[2] = 0
  BY WorthValue
<1>2. ASSUME NEW v \in Tile2048
      PROVE  2 * v \in Tile2048 /\ Worth[2 * v] = 2 * v + 2 * Worth[v]
  <2>1. v \in Nat /\ v >= 2
    BY DEF Tile2048
  <2>2. 2 * v \in Nat /\ 2 * v > 2 /\ (2 * v) \div 2 = v
    BY <2>1
  <2>3. Worth[2 * v] = 2 * v + 2 * Worth[(2 * v) \div 2]
    <3>. DEFINE t == 2 * v
    <3>1. t \in Nat /\ t > 2
      BY <2>2
    <3>. HIDE DEF t
    <3>2. Worth[t] = t + 2 * Worth[t \div 2]
      BY <3>1, WorthValue
    <3>. QED BY <3>2 DEF t
  <2>. QED BY <2>2, <2>3 DEF Tile2048
<1>3. Worth[4] = 4
  <2>1. 2 \in Tile2048 /\ 2 * 2 = 4
    BY DEF Tile2048
  <2>2. Worth[2 * 2] = 2 * 2 + 2 * Worth[2]
    BY <1>2, <2>1
  <2>. QED BY <1>1, <2>1, <2>2
<1>4. \A v \in Content : v \in Nat /\ Worth[v] \in Nat
  BY WorthValue DEF Content, Tile2048
<1>. QED BY <1>1, <1>2, <1>3, <1>4

-----------------------------------------------------------------------------
(***************************************************************************)
(* A line.  The tiles in front are the tiles seen so far, merged; none was *)
(* merged or passed over if and only if the line cannot be compressed.     *)
(***************************************************************************)
Front == [line : Seq(Tile2048), scoreDelta : Nat, open : BOOLEAN]
Start == [line |-> <<>>, scoreDelta |-> 0, open |-> FALSE]

\* What the first n cells of a line are worth.
LineWorth(f, n) == SumOver([i \in 1 .. n |-> Worth[f[i]]], 1 .. n)

\* A further cell adds its worth.
LEMMA LineWorthStep ==
  ASSUME NEW n \in Nat, n > 0, NEW f, \A i \in 1 .. n : f[i] \in Content
  PROVE  /\ LineWorth(f, n - 1) \in Nat /\ LineWorth(f, n) \in Nat
         /\ LineWorth(f, n) = LineWorth(f, n - 1) + Worth[f[n]]
<1>. DEFINE F(m) == [i \in 1 .. m |-> Worth[f[i]]]
<1>1. \A i \in 1 .. n : F(n)[i] \in Nat /\ F(n)[i] = Worth[f[i]]
  BY WorthFacts
<1>2. \A i \in 1 .. n - 1 : i \in 1 .. n /\ F(n - 1)[i] = F(n)[i]
  OBVIOUS
<1>3. IsFiniteSet(1 .. n - 1) /\ IsFiniteSet(1 .. n)
  <2>1. 1 \in Int /\ n \in Int /\ n - 1 \in Int
    OBVIOUS
  <2>. QED BY <2>1, FS_Interval
<1>. HIDE DEF F
<1>4. SumOver(F(n - 1), 1 .. n - 1) = SumOver(F(n), 1 .. n - 1)
  <2>1. \A i \in 1 .. n - 1 : F(n)[i] \in Int /\ F(n - 1)[i] = F(n)[i]
    BY <1>1, <1>2
  <2>. QED BY <1>3, <2>1, SumSame
<1>5. SumOver(F(n), 1 .. n) = F(n)[n] + SumOver(F(n), 1 .. n - 1)
  <2>1. \A i \in 1 .. n : F(n)[i] \in Int
    BY <1>1
  <2>. QED BY <2>1, SumLast
<1>6. SumOver(F(n), 1 .. n - 1) \in Nat
  <2>1. \A i \in 1 .. n - 1 : F(n)[i] \in Nat
    BY <1>1, <1>2
  <2>. QED BY <1>3, <2>1, SumNat
<1>7. F(n)[n] \in Nat /\ F(n)[n] = Worth[f[n]]
  BY <1>1
<1>8. LineWorth(f, n) = SumOver(F(n), 1 .. n) /\ LineWorth(f, n - 1) = SumOver(F(n - 1), 1 .. n - 1)
  BY DEF LineWorth, F
<1>. QED BY <1>4, <1>5, <1>6, <1>7, <1>8

\* The worth is that of the cells.
LEMMA LineWorthSame ==
  ASSUME NEW n \in Nat, NEW f, NEW g, \A i \in 1 .. n : f[i] \in Content /\ g[i] = f[i]
  PROVE  LineWorth(g, n) = LineWorth(f, n)
<1>1. [i \in 1 .. n |-> Worth[g[i]]] = [i \in 1 .. n |-> Worth[f[i]]]
  OBVIOUS
<1>. QED BY <1>1 DEF LineWorth

\* A line without cells is worth nothing.
LEMMA LineWorthZero ==
  ASSUME NEW f
  PROVE  LineWorth(f, 0) = 0
<1>1. 1 .. 0 = {}
  OBVIOUS
<1>. QED BY <1>1, SumEmpty DEF LineWorth

\* What a line is worth is an amount.
LEMMA LineWorthNat ==
  ASSUME NEW n \in Nat, NEW f, \A i \in 1 .. n : f[i] \in Content
  PROVE  LineWorth(f, n) \in Nat
<1>1. CASE n = 0
  BY <1>1, LineWorthZero
<1>2. CASE n # 0
  BY <1>2, LineWorthStep
<1>. QED BY <1>1, <1>2

\* The first n cells are full and no two neighbours are equal.
Stuck(values, n) ==
  /\ \A i \in 1 .. n : values[i] # 0
  /\ \A i \in 1 .. n - 1 : values[i] # values[i + 1]

\* The front that the first n cells make.
FrontOf(values, n, front) ==
  /\ front \in Front
  /\ Len(front.line) <= n
  /\ front.open => Len(front.line) > 0
  /\ LineWorth(front.line, Len(front.line)) = LineWorth(values, n) + front.scoreDelta
  /\ Len(front.line) = n => /\ Stuck(values, n)
                            /\ \A i \in 1 .. n : front.line[i] = values[i]
                            /\ n > 0 => front.open
  /\ Stuck(values, n) => Len(front.line) = n

\* One cell more.  An empty cell is passed over,
LEMMA SlideEmpty ==
  ASSUME NEW n \in Nat, n > 0, NEW values, \A i \in 1 .. n : values[i] \in Content,
         NEW front, FrontOf(values, n - 1, front), values[n] = 0
  PROVE  FrontOf(values, n, front)
<1>. DEFINE L == Len(front.line)
            V == LineWorth(front.line, L)
<1>1. front \in Front /\ front.line \in Seq(Tile2048) /\ L \in Nat /\ L <= n - 1
  BY DEF FrontOf, Front
<1>2. V = LineWorth(values, n - 1) + front.scoreDelta /\ (front.open => L > 0)
  BY DEF FrontOf
<1>3. LineWorth(values, n) = LineWorth(values, n - 1) + Worth[0] /\ LineWorth(values, n - 1) \in Nat
  BY LineWorthStep
<1>4. Worth[0] = 0
  BY WorthFacts
<1>5. ~ Stuck(values, n) /\ L # n /\ L <= n
  <2>1. n \in 1 .. n
    OBVIOUS
  <2>. HIDE DEF L
  <2>. QED BY <1>1, <2>1 DEF Stuck
<1>6. V = LineWorth(values, n) + front.scoreDelta
  <2>. HIDE DEF V
  <2>. QED BY <1>2, <1>3, <1>4
<1>. QED BY <1>1, <1>2, <1>5, <1>6 DEF FrontOf

\* a tile goes into the last one when that is equal and open,
LEMMA SlideMerged ==
  ASSUME NEW n \in Nat, n > 0, NEW values, \A i \in 1 .. n : values[i] \in Content,
         NEW front, FrontOf(values, n - 1, front), values[n] # 0,
         front.open, front.line[Len(front.line)] = values[n]
  PROVE  FrontOf(values, n, Slide(front, values[n]))
<1>. DEFINE L == Len(front.line)
            v == values[n]
            line == [front.line EXCEPT ![L] = 2 * v]
            after == Slide(front, v)
<1>1. /\ front \in Front /\ front.line \in Seq(Tile2048) /\ L \in Nat /\ L <= n - 1
      /\ front.scoreDelta \in Nat
  BY DEF FrontOf, Front
<1>2. L > 0 /\ LineWorth(front.line, L) = LineWorth(values, n - 1) + front.scoreDelta
  BY DEF FrontOf
<1>3. v \in Tile2048 /\ v \in Nat
  BY DEF Content, Tile2048
<1>4. 2 * v \in Tile2048 /\ Worth[2 * v] = 2 * v + 2 * Worth[v] /\ Worth[v] \in Nat
  BY <1>3, WorthFacts DEF Content
<1>5. after = [line |-> line, scoreDelta |-> front.scoreDelta + 2 * v, open |-> FALSE]
  BY DEF Slide
<1>. HIDE DEF v
<1>6. /\ line \in Seq(Tile2048) /\ Len(line) = L /\ line[L] = 2 * v
      /\ \A i \in 1 .. L - 1 : line[i] = front.line[i] /\ front.line[i] \in Tile2048
      /\ front.line[L] = v
  <2>1. L \in 1 .. L
    BY <1>1, <1>2
  <2>2. /\ line \in Seq(Tile2048) /\ Len(line) = Len(front.line)
        /\ \A i \in 1 .. Len(front.line) : line[i] = IF i = L THEN 2 * v ELSE front.line[i]
    <3>. DEFINE x == 2 * v
                s == front.line
    <3>1. x \in Tile2048 /\ s \in Seq(Tile2048) /\ L \in 1 .. Len(s)
      BY <1>1, <1>4, <2>1
    <3>. HIDE DEF x, s, L
    <3>2. /\ [s EXCEPT ![L] = x] \in Seq(Tile2048) /\ Len([s EXCEPT ![L] = x]) = Len(s)
          /\ \A i \in 1 .. Len(s) : [s EXCEPT ![L] = x][i] = IF i = L THEN x ELSE s[i]
      BY <3>1, ExceptSeq
    <3>. QED BY <3>2 DEF x, s
  <2>3. \A i \in 1 .. L - 1 : i \in 1 .. L /\ i # L
    BY <1>1
  <2>4. \A i \in 1 .. L : front.line[i] \in Tile2048
    BY <1>1
  <2>5. front.line[L] = v
    BY DEF v
  <2>. HIDE DEF line
  <2>. QED BY <2>1, <2>2, <2>3, <2>4, <2>5
<1>7. LineWorth(line, L) = LineWorth(front.line, L) + Worth[v] + 2 * v
  <2>1. (\A i \in 1 .. L : line[i] \in Content) /\ (\A i \in 1 .. L : front.line[i] \in Content)
    <3>1. \A i \in 1 .. L : line[i] \in Tile2048 /\ front.line[i] \in Tile2048
      <4>. HIDE DEF line
      <4>. QED BY <1>1, <1>6
    <3>. QED BY <3>1 DEF Content
  <2>2. LineWorth(line, L) = LineWorth(line, L - 1) + Worth[line[L]]
    <3>. HIDE DEF line, L
    <3>. QED BY <1>1, <1>2, <2>1, LineWorthStep
  <2>3. /\ LineWorth(front.line, L) = LineWorth(front.line, L - 1) + Worth[front.line[L]]
        /\ LineWorth(front.line, L - 1) \in Nat
    <3>. HIDE DEF L
    <3>. QED BY <1>1, <1>2, <2>1, LineWorthStep
  <2>4. LineWorth(line, L - 1) = LineWorth(front.line, L - 1)
    <3>1. L - 1 \in Nat /\ \A i \in 1 .. L - 1 : front.line[i] \in Content /\ line[i] = front.line[i]
      BY <1>1, <1>2, <1>6 DEF Content
    <3>. HIDE DEF line, L
    <3>. QED BY <3>1, LineWorthSame
  <2>5. Worth[line[L]] = 2 * v + 2 * Worth[v] /\ Worth[front.line[L]] = Worth[v]
    <3>. HIDE DEF line
    <3>. QED BY <1>4, <1>6
  <2>. DEFINE a == LineWorth(line, L)
              b == LineWorth(front.line, L)
              d == LineWorth(front.line, L - 1)
              x == Worth[v]
  <2>6. a = d + (2 * v + 2 * x) /\ b = d + x /\ d \in Nat /\ x \in Nat
    BY <1>4, <2>2, <2>3, <2>4, <2>5
  <2>. HIDE DEF a, b, d, x
  <2>7. a = b + x + 2 * v
    BY <1>3, <2>6
  <2>. QED BY <2>7 DEF a, b, x
<1>8. LineWorth(values, n) = LineWorth(values, n - 1) + Worth[v] /\ LineWorth(values, n - 1) \in Nat
  BY LineWorthStep DEF v
<1>9. ~ Stuck(values, n)
  <2>1. SUFFICES ASSUME Stuck(values, n) PROVE FALSE
    OBVIOUS
  <2>2. Stuck(values, n - 1)
    <3>1. /\ \A i \in 1 .. n - 1 : i \in 1 .. n
          /\ \A i \in 1 .. n - 1 - 1 : i \in 1 .. n - 1
      OBVIOUS
    <3>. QED BY <2>1, <3>1 DEF Stuck
  <2>3. L = n - 1 /\ \A i \in 1 .. n - 1 : front.line[i] = values[i]
    BY <2>2 DEF FrontOf
  <2>4. n - 1 \in 1 .. n - 1 /\ n - 1 + 1 = n
    BY <1>1, <1>2, <2>3
  <2>5. values[n - 1] = v /\ values[n] = v
    BY <1>6, <2>3, <2>4 DEF v
  <2>6. values[n - 1] # values[n - 1 + 1]
    BY <2>1, <2>4 DEF Stuck
  <2>. QED BY <2>4, <2>5, <2>6
<1>10. after \in Front
  <2>1. front.scoreDelta + 2 * v \in Nat
    BY <1>1, <1>3
  <2>. HIDE DEF line, after
  <2>. QED BY <1>5, <1>6, <2>1 DEF Front
<1>11. after.line = line /\ after.scoreDelta = front.scoreDelta + 2 * v /\ after.open = FALSE
  <2>. HIDE DEF after, line
  <2>. QED BY <1>5
<1>12. LineWorth(line, L) = LineWorth(values, n) + (front.scoreDelta + 2 * v)
  <2>. DEFINE a == LineWorth(line, L)
              b == LineWorth(front.line, L)
              d == LineWorth(values, n - 1)
              s == LineWorth(values, n)
              x == Worth[v]
  <2>1. a = b + x + 2 * v /\ b = d + front.scoreDelta /\ s = d + x /\ d \in Nat /\ x \in Nat
    BY <1>2, <1>4, <1>7, <1>8
  <2>. HIDE DEF a, b, d, s, x
  <2>2. a = s + (front.scoreDelta + 2 * v)
    BY <1>1, <1>3, <2>1
  <2>. QED BY <2>2 DEF a, s
<1>13. Len(after.line) = L /\ L # n /\ L <= n
  <2>. HIDE DEF after, line
  <2>1. Len(after.line) = L
    BY <1>6, <1>11
  <2>. HIDE DEF L
  <2>. QED BY <1>1, <2>1
<1>14. FrontOf(values, n, after)
  <2>. HIDE DEF after, line, L
  <2>. QED BY <1>9, <1>10, <1>11, <1>12, <1>13 DEF FrontOf
<1>. QED BY <1>14 DEF v

\* and comes behind it otherwise.
LEMMA SlideAppended ==
  ASSUME NEW n \in Nat, n > 0, NEW values, \A i \in 1 .. n : values[i] \in Content,
         NEW front, FrontOf(values, n - 1, front), values[n] # 0,
         ~ (front.open /\ front.line[Len(front.line)] = values[n])
  PROVE  FrontOf(values, n, Slide(front, values[n]))
<1>. DEFINE L == Len(front.line)
            v == values[n]
            line == Append(front.line, v)
            after == Slide(front, v)
<1>1. /\ front \in Front /\ front.line \in Seq(Tile2048) /\ L \in Nat /\ L <= n - 1
      /\ front.scoreDelta \in Nat
  BY DEF FrontOf, Front
<1>2. LineWorth(front.line, L) = LineWorth(values, n - 1) + front.scoreDelta
  BY DEF FrontOf
<1>3. v \in Tile2048 /\ v \in Content /\ v \in Nat
  BY DEF Content, Tile2048
<1>4. after = [line |-> line, scoreDelta |-> front.scoreDelta, open |-> TRUE]
  BY DEF Slide
<1>. HIDE DEF v
<1>5. /\ line \in Seq(Tile2048) /\ Len(line) = L + 1 /\ line[L + 1] = v
      /\ \A i \in 1 .. L : line[i] = front.line[i] /\ front.line[i] \in Tile2048
  BY <1>1, <1>3
<1>. HIDE DEF line
<1>6. LineWorth(line, L + 1) = LineWorth(front.line, L) + Worth[v]
  <2>1. \A i \in 1 .. L + 1 : line[i] \in Content
    <3>1. \A i \in 1 .. L + 1 : i \in 1 .. L \/ i = L + 1
      BY <1>1
    <3>. HIDE DEF L
    <3>. QED BY <1>3, <1>5, <3>1 DEF Content
  <2>2. LineWorth(line, L + 1) = LineWorth(line, L) + Worth[line[L + 1]]
    <3>. DEFINE m == L + 1
    <3>1. m \in Nat /\ m > 0 /\ m - 1 = L
      BY <1>1
    <3>. HIDE DEF m, L
    <3>2. \A i \in 1 .. m : line[i] \in Content
      BY <2>1 DEF m
    <3>3. LineWorth(line, m) = LineWorth(line, m - 1) + Worth[line[m]]
      BY <3>1, <3>2, LineWorthStep
    <3>. QED BY <3>1, <3>3 DEF m
  <2>3. LineWorth(line, L) = LineWorth(front.line, L)
    <3>1. \A i \in 1 .. L : front.line[i] \in Content /\ line[i] = front.line[i]
      BY <1>5 DEF Content
    <3>. HIDE DEF L
    <3>. QED BY <1>1, <3>1, LineWorthSame
  <2>. QED BY <1>5, <2>2, <2>3
<1>7. LineWorth(values, n) = LineWorth(values, n - 1) + Worth[v] /\ LineWorth(values, n - 1) \in Nat
  BY LineWorthStep DEF v
<1>8. Worth[v] \in Nat
  BY <1>3, WorthFacts
<1>9. after.line = line /\ after.scoreDelta = front.scoreDelta /\ after.open = TRUE /\ after \in Front
  <2>. HIDE DEF after
  <2>. QED BY <1>1, <1>4, <1>5 DEF Front
<1>10. LineWorth(line, L + 1) = LineWorth(values, n) + front.scoreDelta
  <2>. DEFINE a == LineWorth(line, L + 1)
              b == LineWorth(front.line, L)
              d == LineWorth(values, n - 1)
              s == LineWorth(values, n)
              x == Worth[v]
  <2>1. a = b + x /\ b = d + front.scoreDelta /\ s = d + x /\ d \in Nat /\ x \in Nat
    BY <1>2, <1>6, <1>7, <1>8
  <2>. HIDE DEF a, b, d, s, x
  <2>2. a = s + front.scoreDelta
    BY <1>1, <2>1
  <2>. QED BY <2>2 DEF a, s
<1>11. L + 1 = n => /\ Stuck(values, n)
                    /\ \A i \in 1 .. n : line[i] = values[i]
  <2>. SUFFICES ASSUME L + 1 = n
                PROVE  Stuck(values, n) /\ \A i \in 1 .. n : line[i] = values[i]
    OBVIOUS
  <2>1. L = n - 1
    BY <1>1
  <2>2. /\ Stuck(values, n - 1) /\ \A i \in 1 .. n - 1 : front.line[i] = values[i]
        /\ n - 1 > 0 => front.open
    BY <2>1 DEF FrontOf
  <2>3. \A i \in 1 .. n : i \in 1 .. n - 1 \/ i = n
    OBVIOUS
  <2>4. \A i \in 1 .. n : line[i] = values[i]
    <3>1. \A i \in 1 .. n - 1 : line[i] = values[i]
      BY <1>5, <2>1, <2>2
    <3>2. line[n] = values[n]
      BY <1>5 DEF v
    <3>. QED BY <2>3, <3>1, <3>2
  <2>5. \A i \in 1 .. n : values[i] # 0
    BY <2>2, <2>3 DEF Stuck
  <2>6. ASSUME NEW i \in 1 .. n - 1
        PROVE  values[i] # values[i + 1]
    <3>1. CASE i = n - 1
      <4>1. front.open /\ n - 1 \in 1 .. n - 1 /\ i + 1 = n
        BY <2>2, <3>1
      <4>2. front.line[n - 1] = values[n - 1]
        BY <2>2, <4>1
      <4>3. front.line[Len(front.line)] # values[n]
        BY <4>1
      <4>. QED BY <2>1, <3>1, <4>1, <4>2, <4>3
    <3>2. CASE i # n - 1
      <4>1. i \in 1 .. n - 1 - 1
        BY <3>2
      <4>. QED BY <2>2, <4>1 DEF Stuck
    <3>. QED BY <3>1, <3>2
  <2>. QED BY <2>4, <2>5, <2>6 DEF Stuck
<1>12. Stuck(values, n) => L + 1 = n
  <2>. SUFFICES ASSUME Stuck(values, n) PROVE L + 1 = n
    OBVIOUS
  <2>1. Stuck(values, n - 1)
    <3>1. /\ \A i \in 1 .. n - 1 : i \in 1 .. n
          /\ \A i \in 1 .. n - 1 - 1 : i \in 1 .. n - 1
      OBVIOUS
    <3>. QED BY <3>1 DEF Stuck
  <2>2. L = n - 1
    BY <2>1 DEF FrontOf
  <2>. QED BY <2>2
<1>13. Len(after.line) = L + 1 /\ L + 1 <= n /\ L + 1 > 0
  <2>. HIDE DEF after
  <2>1. Len(after.line) = L + 1
    BY <1>5, <1>9
  <2>. HIDE DEF L
  <2>. QED BY <1>1, <2>1
<1>14. FrontOf(values, n, after)
  <2>. HIDE DEF after, L
  <2>. QED BY <1>9, <1>10, <1>11, <1>12, <1>13 DEF FrontOf
<1>. QED BY <1>14 DEF v

-----------------------------------------------------------------------------
\* The fronts that the cells make, one after the other.
SlideBody(values, m, g) ==
  [n \in 0 .. m |-> IF n = 0 THEN Start ELSE Slide(g[n - 1], values[n])]

Fronts(values) == CHOOSE g : g = SlideBody(values, Len(values), g)

\* They are well defined.
LEMMA FrontsExist ==
  ASSUME NEW values, NEW m \in Nat
  PROVE  \E g : g = SlideBody(values, m, g)
<1>. DEFINE G == {k \in 0 .. m : \E g : g = SlideBody(values, k, g)}
<1>1. 0 \in G
  <2>. DEFINE g == [n \in 0 .. 0 |-> Start]
  <2>1. g = SlideBody(values, 0, g)
    BY DEF SlideBody
  <2>. QED BY <2>1
<1>2. ASSUME NEW k \in 1 .. m, k - 1 \in G
      PROVE  k \in G
  <2>1. PICK h : h = SlideBody(values, k - 1, h)
    BY <1>2
  <2>. DEFINE g == [n \in 0 .. k |-> IF n = k THEN Slide(h[k - 1], values[k]) ELSE h[n]]
  <2>2. \A n \in 0 .. k - 1 :
          /\ g[n] = h[n]
          /\ h[n] = IF n = 0 THEN Start ELSE Slide(h[n - 1], values[n])
    BY <2>1 DEF SlideBody
  <2>3. ASSUME NEW n \in 0 .. k
        PROVE  g[n] = IF n = 0 THEN Start ELSE Slide(g[n - 1], values[n])
    <3>1. CASE n = k
      <4>1. g[k] = Slide(h[k - 1], values[k]) /\ g[k - 1] = h[k - 1]
        BY <2>2
      <4>. QED BY <3>1, <4>1
    <3>2. CASE n # k
      <4>1. n \in 0 .. k - 1 /\ (n # 0 => n - 1 \in 0 .. k - 1)
        BY <3>2
      <4>2. g[n] = h[n] /\ (n # 0 => g[n - 1] = h[n - 1])
        BY <2>2, <4>1
      <4>. HIDE DEF g
      <4>. QED BY <2>2, <4>1, <4>2
    <3>. QED BY <3>1, <3>2
  <2>4. g = SlideBody(values, k, g)
    <3>1. g = [n \in 0 .. k |-> g[n]]
      OBVIOUS
    <3>. HIDE DEF g
    <3>2. [n \in 0 .. k |-> g[n]] = SlideBody(values, k, g)
      BY <2>3 DEF SlideBody
    <3>. QED BY <3>1, <3>2
  <2>5. \E f : f = SlideBody(values, k, f)
    <3>. HIDE DEF g
    <3>. QED BY <2>4
  <2>. QED BY <2>5
<1>3. m \in 0 .. m
  OBVIOUS
<1>. HIDE DEF G
<1>4. m \in G
  BY <1>1, <1>2, <1>3, UpTo
<1>. QED BY <1>4 DEF G

\* Each is the one before after a slide.
LEMMA FrontsStep ==
  ASSUME NEW values, Len(values) \in Nat
  PROVE  /\ Fronts(values)[0] = Start
         /\ \A n \in 1 .. Len(values) :
              Fronts(values)[n] = Slide(Fronts(values)[n - 1], values[n])
<1>. DEFINE m == Len(values)
            F == Fronts(values)
<1>1. F = SlideBody(values, m, F)
  <2>1. \E g : g = SlideBody(values, m, g)
    BY FrontsExist
  <2>. QED BY <2>1 DEF Fronts
<1>2. m \in Nat
  OBVIOUS
<1>. HIDE DEF F, m
<1>3. /\ F[0] = Start
      /\ \A n \in 1 .. m : F[n] = Slide(F[n - 1], values[n])
  BY <1>1, <1>2 DEF SlideBody
<1>. QED BY <1>3 DEF F, m

\* The last of them is what compressLine fills up.
LEMMA CompressedFront ==
  ASSUME NEW values
  PROVE  LET front == Fronts(values)[Len(values)] IN
         compressLine(values) =
           [line |-> [i \in 1 .. Len(values) |->
                        IF i <= Len(front.line) THEN front.line[i] ELSE 0],
            scoreDelta |-> front.scoreDelta]
BY DEF compressLine, Fronts, SlideBody, Start

\* A line of n cells.
IsLine(values, n) == n \in Nat /\ values \in [1 .. n -> Content]

\* Such a line is a sequence.
LEMMA LineLength ==
  ASSUME NEW n, NEW values, IsLine(values, n)
  PROVE  n \in Nat /\ Len(values) = n /\ \A i \in 1 .. n : values[i] \in Content
<1>1. n \in Nat /\ values \in [1 .. n -> Content]
  BY DEF IsLine
<1>2. values \in Seq(Content) /\ Len(values) = n
  BY <1>1
<1>. QED BY <1>1, <1>2

\* Each cell is passed over, merged or kept.
LEMMA FrontIsOf ==
  ASSUME NEW n, NEW values, IsLine(values, n)
  PROVE  FrontOf(values, n, Fronts(values)[n])
<1>. DEFINE F == Fronts(values)
            G == {k \in 0 .. n : FrontOf(values, k, F[k])}
<1>1. n \in Nat /\ Len(values) = n /\ \A i \in 1 .. n : values[i] \in Content
  BY LineLength
<1>2. F[0] = Start /\ \A k \in 1 .. n : F[k] = Slide(F[k - 1], values[k])
  BY <1>1, FrontsStep
<1>. HIDE DEF F
<1>3. FrontOf(values, 0, Start)
  <2>1. Start \in Front /\ Len(Start.line) = 0 /\ ~ Start.open /\ Start.scoreDelta = 0
    BY DEF Start, Front
  <2>2. LineWorth(Start.line, 0) = 0 /\ LineWorth(values, 0) = 0
    BY LineWorthZero
  <2>. QED BY <2>1, <2>2 DEF FrontOf, Stuck
<1>4. ASSUME NEW k \in 1 .. n, k - 1 \in G
      PROVE  k \in G
  <2>1. k \in Nat /\ k > 0 /\ \A i \in 1 .. k : values[i] \in Content
    BY <1>1
  <2>2. FrontOf(values, k - 1, F[k - 1])
    BY <1>4
  <2>3. F[k] = Slide(F[k - 1], values[k])
    BY <1>2
  <2>4. CASE values[k] = 0
    <3>1. F[k] = F[k - 1]
      BY <2>3, <2>4 DEF Slide
    <3>2. FrontOf(values, k, F[k - 1])
      BY <2>1, <2>2, <2>4, SlideEmpty
    <3>. QED BY <3>1, <3>2
  <2>5. CASE values[k] # 0 /\ F[k - 1].open /\ F[k - 1].line[Len(F[k - 1].line)] = values[k]
    <3>1. FrontOf(values, k, Slide(F[k - 1], values[k]))
      BY <2>1, <2>2, <2>5, SlideMerged
    <3>. QED BY <2>3, <3>1
  <2>6. CASE values[k] # 0 /\ ~ (F[k - 1].open /\ F[k - 1].line[Len(F[k - 1].line)] = values[k])
    <3>1. FrontOf(values, k, Slide(F[k - 1], values[k]))
      BY <2>1, <2>2, <2>6, SlideAppended
    <3>. QED BY <2>3, <3>1
  <2>. QED BY <2>4, <2>5, <2>6
<1>5. 0 \in G
  BY <1>1, <1>2, <1>3
<1>6. n \in 0 .. n
  BY <1>1
<1>. HIDE DEF G
<1>7. n \in G
  BY <1>1, <1>4, <1>5, <1>6, UpTo
<1>. QED BY <1>7 DEF G, F

\* What is not filled is worth nothing.
LEMMA WorthOfFilled ==
  ASSUME NEW n \in Nat, NEW m \in 0 .. n, NEW f, \A i \in 1 .. n : f[i] \in Content,
         \A i \in m + 1 .. n : f[i] = 0
  PROVE  LineWorth(f, n) = LineWorth(f, m)
<1>. DEFINE G == {k \in Nat : k >= m /\ k <= n => LineWorth(f, k) = LineWorth(f, m)}
<1>1. 0 \in G
  OBVIOUS
<1>2. ASSUME NEW k \in 1 .. n, k - 1 \in G
      PROVE  k \in G
  <2>. SUFFICES ASSUME k >= m, k # m PROVE LineWorth(f, k) = LineWorth(f, m)
    OBVIOUS
  <2>1. LineWorth(f, k - 1) = LineWorth(f, m)
    BY <1>2
  <2>2. k \in Nat /\ k > 0 /\ k \in m + 1 .. n /\ \A i \in 1 .. k : f[i] \in Content
    OBVIOUS
  <2>3. /\ LineWorth(f, k) = LineWorth(f, k - 1) + Worth[f[k]]
        /\ LineWorth(f, k - 1) \in Nat
    BY <2>2, LineWorthStep
  <2>4. Worth[f[k]] = 0
    BY <2>2, WorthFacts
  <2>. QED BY <2>1, <2>3, <2>4
<1>3. n \in 0 .. n
  OBVIOUS
<1>4. n \in G
  <2>. HIDE DEF G
  <2>. QED BY <1>1, <1>2, <1>3, UpTo
<1>. QED BY <1>4

\* Where the tiles of a line end.
FilledTo(f, m, n) == \A i \in 1 .. n : f[i] # 0 <=> i <= m

\* A line that is compressed has its tiles in front; what it scores is what it is worth
\* more than before; and it is full only if it was stuck, and then it is as before.
LEMMA CompressedLine ==
  ASSUME NEW n, NEW values, IsLine(values, n)
  PROVE  LET r == compressLine(values) IN
         /\ r.line \in [1 .. n -> Content]
         /\ r.scoreDelta \in Nat
         /\ LineWorth(r.line, n) = LineWorth(values, n) + r.scoreDelta
         /\ \E m \in 0 .. n : /\ FilledTo(r.line, m, n)
                              /\ m = n <=> Stuck(values, n)
                              /\ m = n => r.line = values
<1>. DEFINE front == Fronts(values)[n]
            L == Len(front.line)
            r == compressLine(values)
            line == [i \in 1 .. n |-> IF i <= L THEN front.line[i] ELSE 0]
<1>1. n \in Nat /\ Len(values) = n /\ \A i \in 1 .. n : values[i] \in Content
  BY LineLength
<1>2. r.line = line /\ r.scoreDelta = front.scoreDelta
  BY <1>1, CompressedFront
<1>3. FrontOf(values, n, front)
  BY FrontIsOf
<1>. HIDE DEF front, r
<1>4. /\ front.line \in Seq(Tile2048) /\ L \in Nat /\ L <= n /\ L \in 0 .. n
      /\ front.scoreDelta \in Nat
  BY <1>1, <1>3 DEF FrontOf, Front
<1>5. \A i \in 1 .. L : front.line[i] \in Tile2048
  BY <1>4
<1>6. /\ \A i \in 1 .. L : i \in 1 .. n /\ line[i] = front.line[i]
      /\ \A i \in L + 1 .. n : i \in 1 .. n /\ line[i] = 0
  <2>. HIDE DEF L
  <2>. QED BY <1>1, <1>4
<1>7. 0 \notin Tile2048 /\ Tile2048 \subseteq Content /\ 0 \in Content
  BY DEF Tile2048, Content
<1>8. \A i \in 1 .. n : i \in 1 .. L \/ i \in L + 1 .. n
  <2>. HIDE DEF L
  <2>. QED BY <1>1, <1>4
<1>9. line \in [1 .. n -> Content]
  <2>1. \A i \in 1 .. n : line[i] \in Content
    <3>. HIDE DEF line, L
    <3>. QED BY <1>5, <1>6, <1>7, <1>8
  <2>. QED BY <2>1
<1>10. FilledTo(line, L, n)
  <2>1. \A i \in 1 .. L : i <= L
    OBVIOUS
  <2>2. \A i \in L + 1 .. n : ~ (i <= L)
    <3>. HIDE DEF L
    <3>. QED BY <1>1, <1>4
  <2>. HIDE DEF line, L
  <2>. QED BY <1>5, <1>6, <1>7, <1>8, <2>1, <2>2 DEF FilledTo
<1>. HIDE DEF line
<1>11. LineWorth(line, n) = LineWorth(values, n) + front.scoreDelta
  <2>1. LineWorth(line, n) = LineWorth(line, L)
    <3>1. (\A i \in 1 .. n : line[i] \in Content) /\ (\A i \in L + 1 .. n : line[i] = 0)
      BY <1>6, <1>9
    <3>. HIDE DEF L
    <3>. QED BY <1>1, <1>4, <3>1, WorthOfFilled
  <2>2. LineWorth(line, L) = LineWorth(front.line, L)
    <3>1. \A i \in 1 .. L : front.line[i] \in Content /\ line[i] = front.line[i]
      BY <1>5, <1>6, <1>7
    <3>. HIDE DEF L
    <3>. QED BY <1>4, <3>1, LineWorthSame
  <2>3. LineWorth(front.line, L) = LineWorth(values, n) + front.scoreDelta
    BY <1>3 DEF FrontOf
  <2>. QED BY <2>1, <2>2, <2>3
<1>12. L = n <=> Stuck(values, n)
  BY <1>3 DEF FrontOf
<1>13. L = n => line = values
  <2>. SUFFICES ASSUME L = n PROVE line = values
    OBVIOUS
  <2>1. \A i \in 1 .. n : front.line[i] = values[i]
    BY <1>3 DEF FrontOf
  <2>2. \A i \in 1 .. n : line[i] = values[i]
    BY <1>6, <2>1
  <2>3. values \in [1 .. n -> Content]
    BY DEF IsLine
  <2>. QED BY <1>9, <2>2, <2>3
<1>14. \E m \in 0 .. n : /\ FilledTo(line, m, n)
                         /\ m = n <=> Stuck(values, n)
                         /\ m = n => line = values
  <2>. HIDE DEF L
  <2>. QED BY <1>4, <1>10, <1>12, <1>13
<1>. QED BY <1>2, <1>4, <1>9, <1>11, <1>14 DEF r

-----------------------------------------------------------------------------
(***************************************************************************)
(* The lines of a direction: each cell is on one of them, once.            *)
(***************************************************************************)
Partition(P, n) ==
  /\ n \in Nat /\ IsFiniteSet(P)
  /\ P \subseteq [1 .. n -> Cells]
  /\ \A l \in P : \A i, j \in 1 .. n : l[i] = l[j] => i = j
  /\ \A c \in Cells : \E l \in P : \E i \in 1 .. n : l[i] = c
  /\ \A l, k \in P : \A i, j \in 1 .. n : l[i] = k[j] => l = k

\* The lines of a direction are of one length.
LengthOf(direction) == IF direction \in {"up", "down"} THEN Rows ELSE Columns

\* What each direction's lines are.
LEMMA LinesAre ==
  /\ Lines("up")    = {[i \in 1 .. Rows |-> <<i, c>>] : c \in 1 .. Columns}
  /\ Lines("down")  = {[i \in 1 .. Rows |-> <<Rows + 1 - i, c>>] : c \in 1 .. Columns}
  /\ Lines("left")  = {[i \in 1 .. Columns |-> <<r, i>>] : r \in 1 .. Rows}
  /\ Lines("right") = {[i \in 1 .. Columns |-> <<r, Columns + 1 - i>>] : r \in 1 .. Rows}
  /\ LengthOf("up") = Rows /\ LengthOf("down") = Rows
  /\ LengthOf("left") = Columns /\ LengthOf("right") = Columns
BY DEF Lines, LengthOf

\* Lines that are numbered, and whose cells are told apart.
Numbering(L, m, n) ==
  /\ m \in Nat /\ n \in Nat
  /\ L \in [1 .. m -> [1 .. n -> Cells]]
  /\ \A k, q \in 1 .. m : \A i, j \in 1 .. n : L[k][i] = L[q][j] => k = q /\ i = j
  /\ \A c \in Cells : \E k \in 1 .. m : \E i \in 1 .. n : L[k][i] = c

\* Numbered lines are a partition of the cells.
LEMMA NumberedPartition ==
  ASSUME NEW L, NEW m, NEW n, Numbering(L, m, n),
         NEW P, P = {L[k] : k \in 1 .. m}
  PROVE  Partition(P, n)
<1>1. /\ m \in Nat /\ n \in Nat
      /\ L \in [1 .. m -> [1 .. n -> Cells]]
      /\ \A k, q \in 1 .. m : \A i, j \in 1 .. n : L[k][i] = L[q][j] => k = q /\ i = j
      /\ \A c \in Cells : \E k \in 1 .. m : \E i \in 1 .. n : L[k][i] = c
  BY DEF Numbering
<1>2. IsFiniteSet(P)
  <2>1. 1 \in Int /\ m \in Int
    BY <1>1
  <2>2. IsFiniteSet(1 .. m)
    BY <2>1, FS_Interval
  <2>. QED BY <2>2, ValuesFinite
<1>3. \A l \in P : \E k \in 1 .. m : l = L[k]
  OBVIOUS
<1>4. P \subseteq [1 .. n -> Cells]
  BY <1>1, <1>3
<1>5. ASSUME NEW l \in P, NEW i \in 1 .. n, NEW j \in 1 .. n, l[i] = l[j]
      PROVE  i = j
  <2>1. PICK k \in 1 .. m : l = L[k]
    BY <1>3
  <2>2. L[k][i] = L[k][j]
    BY <1>5, <2>1
  <2>3. \A q \in 1 .. m : L[k][i] = L[q][j] => i = j
    BY <1>1
  <2>. QED BY <2>2, <2>3
<1>6. \A c \in Cells : \E l \in P : \E i \in 1 .. n : l[i] = c
  <2>. SUFFICES ASSUME NEW c \in Cells PROVE \E l \in P : \E i \in 1 .. n : l[i] = c
    OBVIOUS
  <2>1. PICK k \in 1 .. m : \E i \in 1 .. n : L[k][i] = c
    BY <1>1
  <2>2. L[k] \in P
    OBVIOUS
  <2>. QED BY <2>1, <2>2
<1>7. ASSUME NEW l \in P, NEW k \in P, NEW i \in 1 .. n, NEW j \in 1 .. n, l[i] = k[j]
      PROVE  l = k
  <2>1. PICK a \in 1 .. m : l = L[a]
    BY <1>3
  <2>2. PICK b \in 1 .. m : k = L[b]
    BY <1>3
  <2>3. L[a][i] = L[b][j]
    BY <1>7, <2>1, <2>2
  <2>4. a = b
    BY <1>1, <2>3
  <2>. QED BY <2>1, <2>2, <2>4
<1>. QED BY <1>1, <1>2, <1>4, <1>5, <1>6, <1>7 DEF Partition

\* A cell is a row and a column.
LEMMA CellIs ==
  /\ \A c \in Cells : c[1] \in 1 .. Rows /\ c[2] \in 1 .. Columns /\ c = <<c[1], c[2]>>
  /\ \A r \in 1 .. Rows, k \in 1 .. Columns : <<r, k>> \in Cells
  /\ \A r, k, s, q : <<r, k>> = <<s, q>> => r = s /\ k = q
  /\ \A r, k : <<r, k>>[1] = r /\ <<r, k>>[2] = k
<1>1. \A S, T : \A c \in S \X T : c[1] \in S /\ c[2] \in T /\ c = <<c[1], c[2]>>
  OBVIOUS
<1>2. \A c \in Cells : c[1] \in 1 .. Rows /\ c[2] \in 1 .. Columns /\ c = <<c[1], c[2]>>
  BY <1>1 DEF Cells
<1>3. \A r \in 1 .. Rows, k \in 1 .. Columns : <<r, k>> \in Cells
  BY DEF Cells
<1>4. \A r, k, s, q : <<r, k>> = <<s, q>> => r = s /\ k = q
  OBVIOUS
<1>5. \A r, k : <<r, k>>[1] = r /\ <<r, k>>[2] = k
  OBVIOUS
<1>. QED BY <1>2, <1>3, <1>4, <1>5

\* The lines of each direction are one: the columns from their top,
LEMMA UpPartition == Partition(Lines("up"), Rows)
<1>. DEFINE L == [c \in 1 .. Columns |-> [i \in 1 .. Rows |-> <<i, c>>]]
<1>1. Rows \in Nat /\ Columns \in Nat
  BY BoardAssumption
<1>2. \A c \in 1 .. Columns : \A i \in 1 .. Rows : <<i, c>> \in Cells
  <2>1. \A i \in 1 .. Rows : i \in 1 .. Rows
    BY <1>1
  <2>. QED BY <2>1, CellIs
<1>3. L \in [1 .. Columns -> [1 .. Rows -> Cells]]
  BY <1>2
<1>4. \A c \in 1 .. Columns : \A i \in 1 .. Rows : L[c][i] = <<i, c>>
  OBVIOUS
<1>5. Lines("up") = {L[c] : c \in 1 .. Columns}
  <2>. DEFINE K(c) == [i \in 1 .. Rows |-> <<i, c>>]
  <2>1. \A c \in 1 .. Columns : L[c] = K(c)
    OBVIOUS
  <2>2. Lines("up") = {K(c) : c \in 1 .. Columns}
    BY LinesAre
  <2>. HIDE DEF L, K
  <2>. QED BY <2>1, <2>2
<1>. HIDE DEF L
<1>6. ASSUME NEW k \in 1 .. Columns, NEW q \in 1 .. Columns, NEW i \in 1 .. Rows, NEW j \in 1 .. Rows,
             L[k][i] = L[q][j]
      PROVE  k = q /\ i = j
  <2>1. <<i, k>> = <<j, q>>
    BY <1>4, <1>6
  <2>2. k = q /\ i = j
    BY <2>1, CellIs
  <2>3. i \in Int /\ j \in Int
    OBVIOUS
  <2>. QED BY <1>1, <2>2, <2>3
<1>7. ASSUME NEW c \in Cells
      PROVE  \E k \in 1 .. Columns : \E i \in 1 .. Rows : L[k][i] = c
  <2>1. c[1] \in 1 .. Rows /\ c[2] \in 1 .. Columns /\ c = <<c[1], c[2]>>
    BY CellIs
  <2>. DEFINE i == c[1]
  <2>2. i \in 1 .. Rows /\ i = c[1]
    BY <1>1, <2>1
  <2>. HIDE DEF i
  <2>3. L[c[2]][i] = <<i, c[2]>>
    BY <1>4, <2>1, <2>2
  <2>4. L[c[2]][i] = c
    BY <2>1, <2>2, <2>3
  <2>. QED BY <2>1, <2>2, <2>4
<1>8. Numbering(L, Columns, Rows)
  BY <1>1, <1>3, <1>6, <1>7 DEF Numbering
<1>. QED BY <1>5, <1>8, NumberedPartition

\* and from their bottom,
LEMMA DownPartition == Partition(Lines("down"), Rows)
<1>. DEFINE L == [c \in 1 .. Columns |-> [i \in 1 .. Rows |-> <<Rows + 1 - i, c>>]]
<1>1. Rows \in Nat /\ Columns \in Nat
  BY BoardAssumption
<1>2. \A c \in 1 .. Columns : \A i \in 1 .. Rows : <<Rows + 1 - i, c>> \in Cells
  <2>1. \A i \in 1 .. Rows : Rows + 1 - i \in 1 .. Rows
    BY <1>1
  <2>. QED BY <2>1, CellIs
<1>3. L \in [1 .. Columns -> [1 .. Rows -> Cells]]
  BY <1>2
<1>4. \A c \in 1 .. Columns : \A i \in 1 .. Rows : L[c][i] = <<Rows + 1 - i, c>>
  OBVIOUS
<1>5. Lines("down") = {L[c] : c \in 1 .. Columns}
  <2>. DEFINE K(c) == [i \in 1 .. Rows |-> <<Rows + 1 - i, c>>]
  <2>1. \A c \in 1 .. Columns : L[c] = K(c)
    OBVIOUS
  <2>2. Lines("down") = {K(c) : c \in 1 .. Columns}
    BY LinesAre
  <2>. HIDE DEF L, K
  <2>. QED BY <2>1, <2>2
<1>. HIDE DEF L
<1>6. ASSUME NEW k \in 1 .. Columns, NEW q \in 1 .. Columns, NEW i \in 1 .. Rows, NEW j \in 1 .. Rows,
             L[k][i] = L[q][j]
      PROVE  k = q /\ i = j
  <2>1. <<Rows + 1 - i, k>> = <<Rows + 1 - j, q>>
    BY <1>4, <1>6
  <2>2. k = q /\ Rows + 1 - i = Rows + 1 - j
    BY <2>1, CellIs
  <2>3. i \in Int /\ j \in Int
    OBVIOUS
  <2>. QED BY <1>1, <2>2, <2>3
<1>7. ASSUME NEW c \in Cells
      PROVE  \E k \in 1 .. Columns : \E i \in 1 .. Rows : L[k][i] = c
  <2>1. c[1] \in 1 .. Rows /\ c[2] \in 1 .. Columns /\ c = <<c[1], c[2]>>
    BY CellIs
  <2>. DEFINE i == Rows + 1 - c[1]
  <2>2. i \in 1 .. Rows /\ Rows + 1 - i = c[1]
    BY <1>1, <2>1
  <2>. HIDE DEF i
  <2>3. L[c[2]][i] = <<Rows + 1 - i, c[2]>>
    BY <1>4, <2>1, <2>2
  <2>4. L[c[2]][i] = c
    BY <2>1, <2>2, <2>3
  <2>. QED BY <2>1, <2>2, <2>4
<1>8. Numbering(L, Columns, Rows)
  BY <1>1, <1>3, <1>6, <1>7 DEF Numbering
<1>. QED BY <1>5, <1>8, NumberedPartition

\* the rows from their left,
LEMMA LeftPartition == Partition(Lines("left"), Columns)
<1>. DEFINE L == [r \in 1 .. Rows |-> [i \in 1 .. Columns |-> <<r, i>>]]
<1>1. Rows \in Nat /\ Columns \in Nat
  BY BoardAssumption
<1>2. \A r \in 1 .. Rows : \A i \in 1 .. Columns : <<r, i>> \in Cells
  <2>1. \A i \in 1 .. Columns : i \in 1 .. Columns
    BY <1>1
  <2>. QED BY <2>1, CellIs
<1>3. L \in [1 .. Rows -> [1 .. Columns -> Cells]]
  BY <1>2
<1>4. \A r \in 1 .. Rows : \A i \in 1 .. Columns : L[r][i] = <<r, i>>
  OBVIOUS
<1>5. Lines("left") = {L[r] : r \in 1 .. Rows}
  <2>. DEFINE K(r) == [i \in 1 .. Columns |-> <<r, i>>]
  <2>1. \A r \in 1 .. Rows : L[r] = K(r)
    OBVIOUS
  <2>2. Lines("left") = {K(r) : r \in 1 .. Rows}
    BY LinesAre
  <2>. HIDE DEF L, K
  <2>. QED BY <2>1, <2>2
<1>. HIDE DEF L
<1>6. ASSUME NEW k \in 1 .. Rows, NEW q \in 1 .. Rows, NEW i \in 1 .. Columns, NEW j \in 1 .. Columns,
             L[k][i] = L[q][j]
      PROVE  k = q /\ i = j
  <2>1. <<k, i>> = <<q, j>>
    BY <1>4, <1>6
  <2>2. k = q /\ i = j
    BY <2>1, CellIs
  <2>3. i \in Int /\ j \in Int
    OBVIOUS
  <2>. QED BY <1>1, <2>2, <2>3
<1>7. ASSUME NEW c \in Cells
      PROVE  \E k \in 1 .. Rows : \E i \in 1 .. Columns : L[k][i] = c
  <2>1. c[1] \in 1 .. Rows /\ c[2] \in 1 .. Columns /\ c = <<c[1], c[2]>>
    BY CellIs
  <2>. DEFINE i == c[2]
  <2>2. i \in 1 .. Columns /\ i = c[2]
    BY <1>1, <2>1
  <2>. HIDE DEF i
  <2>3. L[c[1]][i] = <<c[1], i>>
    BY <1>4, <2>1, <2>2
  <2>4. L[c[1]][i] = c
    BY <2>1, <2>2, <2>3
  <2>. QED BY <2>1, <2>2, <2>4
<1>8. Numbering(L, Rows, Columns)
  BY <1>1, <1>3, <1>6, <1>7 DEF Numbering
<1>. QED BY <1>5, <1>8, NumberedPartition

\* and from their right.
LEMMA RightPartition == Partition(Lines("right"), Columns)
<1>. DEFINE L == [r \in 1 .. Rows |-> [i \in 1 .. Columns |-> <<r, Columns + 1 - i>>]]
<1>1. Rows \in Nat /\ Columns \in Nat
  BY BoardAssumption
<1>2. \A r \in 1 .. Rows : \A i \in 1 .. Columns : <<r, Columns + 1 - i>> \in Cells
  <2>1. \A i \in 1 .. Columns : Columns + 1 - i \in 1 .. Columns
    BY <1>1
  <2>. QED BY <2>1, CellIs
<1>3. L \in [1 .. Rows -> [1 .. Columns -> Cells]]
  BY <1>2
<1>4. \A r \in 1 .. Rows : \A i \in 1 .. Columns : L[r][i] = <<r, Columns + 1 - i>>
  OBVIOUS
<1>5. Lines("right") = {L[r] : r \in 1 .. Rows}
  <2>. DEFINE K(r) == [i \in 1 .. Columns |-> <<r, Columns + 1 - i>>]
  <2>1. \A r \in 1 .. Rows : L[r] = K(r)
    OBVIOUS
  <2>2. Lines("right") = {K(r) : r \in 1 .. Rows}
    BY LinesAre
  <2>. HIDE DEF L, K
  <2>. QED BY <2>1, <2>2
<1>. HIDE DEF L
<1>6. ASSUME NEW k \in 1 .. Rows, NEW q \in 1 .. Rows, NEW i \in 1 .. Columns, NEW j \in 1 .. Columns,
             L[k][i] = L[q][j]
      PROVE  k = q /\ i = j
  <2>1. <<k, Columns + 1 - i>> = <<q, Columns + 1 - j>>
    BY <1>4, <1>6
  <2>2. k = q /\ Columns + 1 - i = Columns + 1 - j
    BY <2>1, CellIs
  <2>3. i \in Int /\ j \in Int
    OBVIOUS
  <2>. QED BY <1>1, <2>2, <2>3
<1>7. ASSUME NEW c \in Cells
      PROVE  \E k \in 1 .. Rows : \E i \in 1 .. Columns : L[k][i] = c
  <2>1. c[1] \in 1 .. Rows /\ c[2] \in 1 .. Columns /\ c = <<c[1], c[2]>>
    BY CellIs
  <2>. DEFINE i == Columns + 1 - c[2]
  <2>2. i \in 1 .. Columns /\ Columns + 1 - i = c[2]
    BY <1>1, <2>1
  <2>. HIDE DEF i
  <2>3. L[c[1]][i] = <<c[1], Columns + 1 - i>>
    BY <1>4, <2>1, <2>2
  <2>4. L[c[1]][i] = c
    BY <2>1, <2>2, <2>3
  <2>. QED BY <2>1, <2>2, <2>4
<1>8. Numbering(L, Rows, Columns)
  BY <1>1, <1>3, <1>6, <1>7 DEF Numbering
<1>. QED BY <1>5, <1>8, NumberedPartition

\* So is each of the four.
LEMMA LinesPartition ==
  \A direction \in Directions : Partition(Lines(direction), LengthOf(direction))
BY UpPartition, DownPartition, LeftPartition, RightPartition, LinesAre DEF Directions

-----------------------------------------------------------------------------
(***************************************************************************)
(* A board is worth what its lines are worth.                              *)
(***************************************************************************)
Boards == [Cells -> Content]
BoardWorth(b) == SumOver([c \in Cells |-> Worth[b[c]]], Cells)

LineOf(P, c) == CHOOSE l \in P : c \in Range(l)
IndexOf(l, c) == CHOOSE i \in DOMAIN l : l[i] = c
ValuesOf(b, l) == [i \in DOMAIN l |-> b[l[i]]]

\* There are finitely many cells.
LEMMA CellsFinite == IsFiniteSet(Cells)
<1>1. 1 \in Int /\ Rows \in Int /\ Columns \in Int
  BY BoardAssumption
<1>2. IsFiniteSet(1 .. Rows) /\ IsFiniteSet(1 .. Columns)
  BY <1>1, FS_Interval
<1>. QED BY <1>2, FS_Product DEF Cells

\* The sum over a single element.
LEMMA SumOne ==
  ASSUME NEW f, NEW x, f[x] \in Int
  PROVE  SumOver(f, {x}) = f[x]
<1>1. {} \cup {x} = {x} /\ IsFiniteSet({}) /\ x \notin {}
  BY FS_EmptySet
<1>2. \A y \in {} \cup {x} : f[y] \in Int
  OBVIOUS
<1>3. SumOver(f, {} \cup {x}) = f[x] + SumOver(f, {})
  BY <1>1, <1>2, SumAdd
<1>. QED BY <1>1, <1>3, SumEmpty

\* The line and the place of a cell,
LEMMA OnLine ==
  ASSUME NEW P, NEW n, Partition(P, n), NEW l \in P
  PROVE  /\ n \in Nat /\ l \in [1 .. n -> Cells] /\ DOMAIN l = 1 .. n
         /\ \A i \in 1 .. n : l[i] \in Cells /\ LineOf(P, l[i]) = l /\ IndexOf(l, l[i]) = i
<1>1. /\ n \in Nat /\ l \in [1 .. n -> Cells] /\ P \subseteq [1 .. n -> Cells]
      /\ \A i, j \in 1 .. n : l[i] = l[j] => i = j
      /\ \A k \in P : \A i, j \in 1 .. n : l[i] = k[j] => l = k
  BY DEF Partition
<1>2. DOMAIN l = 1 .. n
  BY <1>1
<1>3. ASSUME NEW i \in 1 .. n
      PROVE  l[i] \in Cells /\ LineOf(P, l[i]) = l /\ IndexOf(l, l[i]) = i
  <2>1. l[i] \in Cells
    BY <1>1
  <2>2. IndexOf(l, l[i]) = i
    <3>1. IndexOf(l, l[i]) \in 1 .. n /\ l[IndexOf(l, l[i])] = l[i]
      BY <1>2 DEF IndexOf
    <3>. QED BY <1>1, <3>1
  <2>3. LineOf(P, l[i]) = l
    <3>1. l[i] \in Range(l)
      BY <1>2 DEF Range
    <3>2. LineOf(P, l[i]) \in P /\ l[i] \in Range(LineOf(P, l[i]))
      BY <3>1 DEF LineOf
    <3>. DEFINE k == LineOf(P, l[i])
    <3>3. k \in [1 .. n -> Cells]
      BY <1>1, <3>2
    <3>4. DOMAIN k = 1 .. n
      BY <3>3
    <3>5. PICK j \in 1 .. n : k[j] = l[i]
      BY <3>2, <3>4 DEF Range
    <3>6. k \in P
      BY <3>2
    <3>. HIDE DEF k
    <3>7. l = k
      BY <1>1, <3>5, <3>6
    <3>. QED BY <3>7 DEF k
  <2>. QED BY <2>1, <2>2, <2>3
<1>. QED BY <1>1, <1>2, <1>3

\* which every cell has.
LEMMA HasLine ==
  ASSUME NEW P, NEW n, Partition(P, n), NEW c \in Cells
  PROVE  /\ LineOf(P, c) \in P
         /\ IndexOf(LineOf(P, c), c) \in 1 .. n
         /\ LineOf(P, c)[IndexOf(LineOf(P, c), c)] = c
<1>1. PICK l \in P : \E i \in 1 .. n : l[i] = c
  BY DEF Partition
<1>2. PICK i \in 1 .. n : l[i] = c
  BY <1>1
<1>3. LineOf(P, c) = l /\ IndexOf(l, c) = i
  BY <1>2, OnLine
<1>. QED BY <1>2, <1>3

\* The sum over the cells of a line is that over their places.
LEMMA SumOfLine ==
  ASSUME NEW P, NEW n, Partition(P, n), NEW l \in P, NEW f, \A c \in Cells : f[c] \in Int
  PROVE  SumOver(f, Group([c \in Cells |-> LineOf(P, c)], Cells, l))
           = SumOver([i \in 1 .. n |-> f[l[i]]], 1 .. n)
<1>. DEFINE of == [c \in Cells |-> LineOf(P, c)]
            U == Group(of, Cells, l)
            g == [i \in 1 .. n |-> f[l[i]]]
<1>1. /\ n \in Nat
      /\ \A i \in 1 .. n : l[i] \in Cells /\ LineOf(P, l[i]) = l /\ IndexOf(l, l[i]) = i
  BY OnLine
<1>2. \A c \in U : c \in Cells /\ LineOf(P, c) = l
  BY DEF Group
<1>3. \A i \in 1 .. n : l[i] \in U
  BY <1>1 DEF Group
<1>4. \A i \in 1 .. n : g[i] = f[l[i]] /\ g[i] \in Int
  BY <1>1
<1>. HIDE DEF U, g
<1>5. IsFiniteSet(U)
  <2>1. U \subseteq Cells
    BY <1>2
  <2>. QED BY <2>1, CellsFinite, FS_Subset
<1>6. IsFiniteSet(1 .. n)
  <2>1. 1 \in Int /\ n \in Int
    BY <1>1
  <2>. QED BY <2>1, FS_Interval
<1>7. ASSUME NEW c \in U
      PROVE  f[c] = SumOver(g, Group(l, 1 .. n, c))
  <2>. DEFINE i == IndexOf(l, c)
  <2>1. i \in 1 .. n /\ l[i] = c
    BY <1>2, HasLine
  <2>. HIDE DEF i
  <2>2. Group(l, 1 .. n, c) = {i}
    <3>1. \A j \in 1 .. n : l[j] = c => j = i
      BY <1>1, <2>1
    <3>. QED BY <2>1, <3>1 DEF Group
  <2>3. SumOver(g, {i}) = g[i]
    BY <1>4, <2>1, SumOne
  <2>. QED BY <1>4, <2>1, <2>2, <2>3
<1>8. SumOver(f, U) = SumOver(g, 1 .. n)
  <2>1. \A i \in 1 .. n : g[i] \in Int
    BY <1>4
  <2>. DEFINE S == 1 .. n
  <2>2. \A i \in S : l[i] \in U
    BY <1>3
  <2>3. \A c \in U : f[c] = SumOver(g, Group(l, S, c))
    BY <1>7
  <2>. HIDE DEF S
  <2>4. IsFiniteSet(S) /\ \A i \in S : g[i] \in Int
    BY <1>6, <2>1 DEF S
  <2>5. SumOver(f, U) = SumOver(g, S)
    BY <1>5, <2>2, <2>3, <2>4, SumGroups
  <2>. QED BY <2>5 DEF S
<1>. QED BY <1>8 DEF U, g

\* What the lines are worth is what the board is.
LEMMA WorthByLines ==
  ASSUME NEW P, NEW n, Partition(P, n), NEW b \in Boards,
         NEW h, \A l \in P : h[l] = LineWorth(ValuesOf(b, l), n)
  PROVE  SumOver(h, P) = BoardWorth(b)
<1>. DEFINE of == [c \in Cells |-> LineOf(P, c)]
            f == [c \in Cells |-> Worth[b[c]]]
<1>1. \A c \in Cells : b[c] \in Content /\ f[c] = Worth[b[c]]
  BY DEF Boards
<1>2. \A c \in Cells : f[c] \in Int
  BY <1>1, WorthFacts
<1>3. \A c \in Cells : of[c] \in P
  BY HasLine
<1>4. IsFiniteSet(P)
  BY DEF Partition
<1>. HIDE DEF f
<1>5. ASSUME NEW l \in P
      PROVE  h[l] = SumOver(f, Group(of, Cells, l))
  <2>1. SumOver(f, Group(of, Cells, l)) = SumOver([i \in 1 .. n |-> f[l[i]]], 1 .. n)
    BY <1>2, SumOfLine
  <2>2. DOMAIN l = 1 .. n /\ \A i \in 1 .. n : l[i] \in Cells
    BY OnLine
  <2>. DEFINE w == ValuesOf(b, l)
  <2>3. \A i \in 1 .. n : w[i] = b[l[i]]
    BY <2>2 DEF ValuesOf
  <2>. HIDE DEF w
  <2>4. \A i \in 1 .. n : f[l[i]] = Worth[w[i]]
    BY <1>1, <2>2, <2>3
  <2>5. [i \in 1 .. n |-> f[l[i]]] = [i \in 1 .. n |-> Worth[w[i]]]
    BY <2>4
  <2>6. h[l] = LineWorth(w, n)
    BY DEF w
  <2>. QED BY <2>1, <2>5, <2>6 DEF LineWorth
<1>6. SumOver(h, P) = SumOver(f, Cells)
  <2>. HIDE DEF of
  <2>. QED BY <1>2, <1>3, <1>4, <1>5, CellsFinite, SumGroups
<1>. QED BY <1>6 DEF BoardWorth, f

-----------------------------------------------------------------------------
(***************************************************************************)
(* A move compresses each line of its direction.                           *)
(***************************************************************************)
Moved(b, direction) == applyMove(b, direction).board
Compressed(b, l) == compressLine(ValuesOf(b, l))

\* The values along a line of a direction are a line.
LEMMA ValuesAreLine ==
  ASSUME NEW P, NEW n, Partition(P, n), NEW b \in Boards, NEW l \in P
  PROVE  /\ IsLine(ValuesOf(b, l), n) /\ ValuesOf(b, l) \in [1 .. n -> Content]
         /\ \A i \in 1 .. n : ValuesOf(b, l)[i] = b[l[i]]
<1>1. n \in Nat /\ DOMAIN l = 1 .. n /\ \A i \in 1 .. n : l[i] \in Cells
  BY OnLine
<1>2. \A i \in 1 .. n : b[l[i]] \in Content
  BY <1>1 DEF Boards
<1>. QED BY <1>1, <1>2 DEF ValuesOf, IsLine

\* Lines with the same values are the same.
LEMMA SameLine ==
  ASSUME NEW S, NEW T, NEW v \in [S -> T], NEW w \in [S -> T], \A i \in S : v[i] = w[i]
  PROVE  v = w
OBVIOUS

\* The lines after a move are those before, compressed.
LEMMA MoveIs ==
  ASSUME NEW b \in Boards, NEW direction \in Directions, NEW P, P = Lines(direction)
  PROVE  /\ Moved(b, direction) \in Boards
         /\ \A l \in P : ValuesOf(Moved(b, direction), l) = Compressed(b, l).line
         /\ applyMove(b, direction).changed <=> Moved(b, direction) # b
         /\ applyMove(b, direction).scoreDelta
              = SumOver([l \in P |-> Compressed(b, l).scoreDelta], P)
<1>. DEFINE n == LengthOf(direction)
            compressed == [l \in P |-> Compressed(b, l)]
            next == [c \in Cells |->
                       compressed[LineOf(P, c)].line[IndexOf(LineOf(P, c), c)]]
            total == SumOver([l \in P |-> compressed[l].scoreDelta], P)
<1>1. applyMove(b, direction) = [board |-> next, changed |-> next # b, scoreDelta |-> total]
  BY DEF applyMove, Compressed, ValuesOf, LineOf, IndexOf
<1>2. Partition(P, n)
  BY LinesPartition
<1>3. \A l \in P : compressed[l] = Compressed(b, l)
  OBVIOUS
<1>4. [l \in P |-> compressed[l].scoreDelta] = [l \in P |-> Compressed(b, l).scoreDelta]
  BY <1>3
<1>5. \A c \in Cells : next[c] = compressed[LineOf(P, c)].line[IndexOf(LineOf(P, c), c)]
  OBVIOUS
<1>6. next = [c \in Cells |-> next[c]]
  OBVIOUS
<1>7. /\ applyMove(b, direction).board = next
      /\ applyMove(b, direction).scoreDelta = total
  <2>. HIDE DEF next, total
  <2>. QED BY <1>1
<1>8. applyMove(b, direction).changed <=> next # b
  <2>. DEFINE ch == next # b
  <2>. HIDE DEF next, total, ch
  <2>1. applyMove(b, direction).changed = ch
    BY <1>1 DEF ch
  <2>. QED BY <2>1 DEF ch
<1>. HIDE DEF next, compressed, n
<1>9. \A l \in P : compressed[l].line \in [1 .. n -> Content]
  BY <1>2, <1>3, ValuesAreLine, CompressedLine DEF Compressed
<1>10. \A c \in Cells : next[c] \in Content
  <2>. SUFFICES ASSUME NEW c \in Cells PROVE next[c] \in Content
    OBVIOUS
  <2>1. LineOf(P, c) \in P /\ IndexOf(LineOf(P, c), c) \in 1 .. n
    BY <1>2, HasLine
  <2>. QED BY <1>5, <1>9, <2>1
<1>11. next \in Boards
  BY <1>6, <1>10 DEF Boards
<1>12. ASSUME NEW l \in P
       PROVE  ValuesOf(next, l) = Compressed(b, l).line
  <2>1. /\ DOMAIN l = 1 .. n
        /\ \A i \in 1 .. n : l[i] \in Cells /\ LineOf(P, l[i]) = l /\ IndexOf(l, l[i]) = i
    BY <1>2, OnLine
  <2>2. \A i \in 1 .. n : next[l[i]] = Compressed(b, l).line[i]
    BY <1>3, <1>5, <2>1
  <2>3. ValuesOf(next, l) \in [1 .. n -> Content] /\ \A i \in 1 .. n : ValuesOf(next, l)[i] = next[l[i]]
    BY <1>2, <1>11, ValuesAreLine
  <2>4. Compressed(b, l).line \in [1 .. n -> Content]
    BY <1>3, <1>9
  <2>. DEFINE v == ValuesOf(next, l)
              w == Compressed(b, l).line
              D == 1 .. n
  <2>5. \A i \in D : v[i] = w[i]
    BY <2>2, <2>3
  <2>6. v \in [D -> Content] /\ w \in [D -> Content]
    BY <2>3, <2>4
  <2>. HIDE DEF v, w, D
  <2>7. v = w
    BY <2>5, <2>6, SameLine
  <2>. QED BY <2>7 DEF v, w
<1>13. applyMove(b, direction).scoreDelta = SumOver([l \in P |-> Compressed(b, l).scoreDelta], P)
  BY <1>4, <1>7
<1>14. Moved(b, direction) = next
  BY <1>7 DEF Moved
<1>15. \A l \in P : ValuesOf(Moved(b, direction), l) = Compressed(b, l).line
  BY <1>12, <1>14
<1>16. Moved(b, direction) \in Boards /\ (applyMove(b, direction).changed <=> Moved(b, direction) # b)
  BY <1>8, <1>11, <1>14
<1>. QED BY <1>13, <1>15, <1>16

\* The board is worth what the move scored more,
LEMMA MoveScores ==
  ASSUME NEW b \in Boards, NEW direction \in Directions
  PROVE  /\ applyMove(b, direction).scoreDelta \in Nat
         /\ BoardWorth(Moved(b, direction)) = BoardWorth(b) + applyMove(b, direction).scoreDelta
<1>. DEFINE P == Lines(direction)
            n == LengthOf(direction)
            next == Moved(b, direction)
            before == [l \in P |-> LineWorth(ValuesOf(b, l), n)]
            gained == [l \in P |-> Compressed(b, l).scoreDelta]
            after == [l \in P |-> LineWorth(ValuesOf(next, l), n)]
<1>1. Partition(P, n) /\ IsFiniteSet(P)
  BY LinesPartition DEF Partition
<1>2. /\ next \in Boards
      /\ \A l \in P : ValuesOf(next, l) = Compressed(b, l).line
      /\ applyMove(b, direction).scoreDelta = SumOver(gained, P)
  <2>1. P = Lines(direction)
    OBVIOUS
  <2>. HIDE DEF P
  <2>. QED BY <2>1, MoveIs
<1>. HIDE DEF P, n, next
<1>3. ASSUME NEW l \in P
      PROVE  /\ before[l] \in Int /\ gained[l] \in Nat
             /\ after[l] = before[l] + gained[l]
  <2>1. /\ IsLine(ValuesOf(b, l), n) /\ n \in Nat
        /\ \A i \in 1 .. n : ValuesOf(b, l)[i] \in Content
    BY <1>1, ValuesAreLine DEF IsLine
  <2>2. /\ Compressed(b, l).scoreDelta \in Nat
        /\ LineWorth(Compressed(b, l).line, n)
             = LineWorth(ValuesOf(b, l), n) + Compressed(b, l).scoreDelta
    BY <2>1, CompressedLine DEF Compressed
  <2>3. LineWorth(ValuesOf(b, l), n) \in Nat
    BY <2>1, LineWorthNat
  <2>4. /\ before[l] = LineWorth(ValuesOf(b, l), n)
        /\ gained[l] = Compressed(b, l).scoreDelta
        /\ after[l] = LineWorth(ValuesOf(next, l), n)
    OBVIOUS
  <2>. HIDE DEF before, gained, after
  <2>. QED BY <1>2, <2>2, <2>3, <2>4
<1>4. SumOver(before, P) = BoardWorth(b)
  BY <1>1, WorthByLines
<1>5. SumOver(after, P) = BoardWorth(next)
  BY <1>1, <1>2, WorthByLines
<1>. HIDE DEF before, gained, after
<1>6. SumOver(after, P) = SumOver(before, P) + SumOver(gained, P)
  <2>1. (\A l \in P : before[l] \in Int) /\ (\A l \in P : gained[l] \in Int)
        /\ (\A l \in P : after[l] = before[l] + gained[l])
    BY <1>3
  <2>. QED BY <1>1, <2>1, SumPlus
<1>7. SumOver(gained, P) \in Nat
  BY <1>1, <1>3, SumNat
<1>. QED BY <1>2, <1>4, <1>5, <1>6, <1>7 DEF next

\* and another one exactly when a line of the direction is another one.
LEMMA MoveChanges ==
  ASSUME NEW b \in Boards, NEW direction \in Directions
  PROVE  applyMove(b, direction).changed
           <=> \E l \in Lines(direction) : Compressed(b, l).line # ValuesOf(b, l)
<1>. DEFINE P == Lines(direction)
            n == LengthOf(direction)
            next == Moved(b, direction)
<1>1. Partition(P, n)
  BY LinesPartition
<1>2. /\ next \in Boards
      /\ \A l \in P : ValuesOf(next, l) = Compressed(b, l).line
      /\ applyMove(b, direction).changed <=> next # b
  <2>1. P = Lines(direction)
    OBVIOUS
  <2>. HIDE DEF P
  <2>. QED BY <2>1, MoveIs
<1>. HIDE DEF P, n, next
<1>3. ASSUME \A l \in P : ValuesOf(next, l) = ValuesOf(b, l)
      PROVE  next = b
  <2>1. ASSUME NEW c \in Cells
        PROVE  next[c] = b[c]
    <3>1. PICK l \in P : \E i \in 1 .. n : l[i] = c
      BY <1>1 DEF Partition
    <3>2. PICK i \in 1 .. n : l[i] = c
      BY <3>1
    <3>3. ValuesOf(b, l)[i] = b[l[i]] /\ ValuesOf(next, l)[i] = next[l[i]]
      BY <1>1, <1>2, ValuesAreLine
    <3>. QED BY <1>3, <3>2, <3>3
  <2>. QED BY <1>2, <2>1 DEF Boards
<1>4. next = b <=> \A l \in P : Compressed(b, l).line = ValuesOf(b, l)
  BY <1>2, <1>3
<1>. QED BY <1>2, <1>4 DEF P

-----------------------------------------------------------------------------
(***************************************************************************)
(* canMove.  Two cells of a row or of a column are on a line, in either    *)
(* order; two cells that follow each other on a line are neighbours.       *)
(***************************************************************************)
InOrder(c, d, direction, l, i, j) ==
  /\ l \in Lines(direction)
  /\ i \in 1 .. LengthOf(direction) /\ j \in 1 .. LengthOf(direction) /\ i < j
  /\ l[i] = c /\ l[j] = d

\* Two cells of a row are on a line in the order one wants,
LEMMA TwoInRow ==
  ASSUME NEW r \in 1 .. Rows, NEW p \in 1 .. Columns, NEW q \in 1 .. Columns, p # q
  PROVE  \E direction \in Directions : \E l, i, j : InOrder(<<r, p>>, <<r, q>>, direction, l, i, j)
<1>1. Columns \in Nat
  BY BoardAssumption
<1>2. CASE p < q
  <2>. DEFINE l == [i \in 1 .. Columns |-> <<r, i>>]
  <2>1. l \in Lines("left") /\ LengthOf("left") = Columns
    BY LinesAre
  <2>2. l[p] = <<r, p>> /\ l[q] = <<r, q>>
    OBVIOUS
  <2>. HIDE DEF l
  <2>3. InOrder(<<r, p>>, <<r, q>>, "left", l, p, q)
    BY <1>2, <2>1, <2>2 DEF InOrder
  <2>. QED BY <2>3 DEF Directions
<1>3. CASE q < p
  <2>. DEFINE l == [i \in 1 .. Columns |-> <<r, Columns + 1 - i>>]
              i == Columns + 1 - p
              j == Columns + 1 - q
  <2>1. l \in Lines("right") /\ LengthOf("right") = Columns
    BY LinesAre
  <2>2. i \in 1 .. Columns /\ j \in 1 .. Columns /\ i < j
        /\ Columns + 1 - i = p /\ Columns + 1 - j = q
    BY <1>1, <1>3
  <2>3. l[i] = <<r, p>> /\ l[j] = <<r, q>>
    <3>. HIDE DEF i, j
    <3>. QED BY <2>2
  <2>. HIDE DEF l, i, j
  <2>4. InOrder(<<r, p>>, <<r, q>>, "right", l, i, j)
    BY <2>1, <2>2, <2>3 DEF InOrder
  <2>. QED BY <2>4 DEF Directions
<1>. QED BY <1>1, <1>2, <1>3

\* and so are two cells of a column.
LEMMA TwoInColumn ==
  ASSUME NEW k \in 1 .. Columns, NEW p \in 1 .. Rows, NEW q \in 1 .. Rows, p # q
  PROVE  \E direction \in Directions : \E l, i, j : InOrder(<<p, k>>, <<q, k>>, direction, l, i, j)
<1>1. Rows \in Nat
  BY BoardAssumption
<1>2. CASE p < q
  <2>. DEFINE l == [i \in 1 .. Rows |-> <<i, k>>]
  <2>1. l \in Lines("up") /\ LengthOf("up") = Rows
    BY LinesAre
  <2>2. l[p] = <<p, k>> /\ l[q] = <<q, k>>
    OBVIOUS
  <2>. HIDE DEF l
  <2>3. InOrder(<<p, k>>, <<q, k>>, "up", l, p, q)
    BY <1>2, <2>1, <2>2 DEF InOrder
  <2>. QED BY <2>3 DEF Directions
<1>3. CASE q < p
  <2>. DEFINE l == [i \in 1 .. Rows |-> <<Rows + 1 - i, k>>]
              i == Rows + 1 - p
              j == Rows + 1 - q
  <2>1. l \in Lines("down") /\ LengthOf("down") = Rows
    BY LinesAre
  <2>2. i \in 1 .. Rows /\ j \in 1 .. Rows /\ i < j
        /\ Rows + 1 - i = p /\ Rows + 1 - j = q
    BY <1>1, <1>3
  <2>3. l[i] = <<p, k>> /\ l[j] = <<q, k>>
    <3>. HIDE DEF i, j
    <3>. QED BY <2>2
  <2>. HIDE DEF l, i, j
  <2>4. InOrder(<<p, k>>, <<q, k>>, "down", l, i, j)
    BY <2>1, <2>2, <2>3 DEF InOrder
  <2>. QED BY <2>4 DEF Directions
<1>. QED BY <1>1, <1>2, <1>3

\* A neighbour follows a cell on a line,
LEMMA NeighbourFollows ==
  ASSUME NEW c \in Cells, NEW d \in Neighbours(c)
  PROVE  \E direction \in Directions : \E l, i : InOrder(c, d, direction, l, i, i + 1)
<1>1. c[1] \in 1 .. Rows /\ c[2] \in 1 .. Columns /\ c = <<c[1], c[2]>>
  BY CellIs
<1>2. d \in Cells /\ (d = <<c[1], c[2] + 1>> \/ d = <<c[1] + 1, c[2]>>)
  BY DEF Neighbours
<1>3. CASE d = <<c[1], c[2] + 1>>
  <2>. DEFINE p == c[2]
              l == [i \in 1 .. Columns |-> <<c[1], i>>]
  <2>1. p \in 1 .. Columns /\ p + 1 \in 1 .. Columns /\ p < p + 1
    <3>1. d[2] \in 1 .. Columns /\ d[2] = c[2] + 1
      BY <1>2, <1>3, CellIs
    <3>. QED BY <1>1, <3>1
  <2>2. l \in Lines("left") /\ LengthOf("left") = Columns
    BY <1>1, LinesAre
  <2>3. l[p] = <<c[1], p>> /\ l[p + 1] = <<c[1], p + 1>>
    BY <2>1
  <2>4. l[p] = c /\ l[p + 1] = d
    BY <1>1, <1>3, <2>3
  <2>. HIDE DEF l, p
  <2>5. InOrder(c, d, "left", l, p, p + 1)
    BY <2>1, <2>2, <2>4 DEF InOrder
  <2>. QED BY <2>5 DEF Directions
<1>4. CASE d = <<c[1] + 1, c[2]>>
  <2>. DEFINE p == c[1]
              l == [i \in 1 .. Rows |-> <<i, c[2]>>]
  <2>1. p \in 1 .. Rows /\ p + 1 \in 1 .. Rows /\ p < p + 1
    <3>1. d[1] \in 1 .. Rows /\ d[1] = c[1] + 1
      BY <1>2, <1>4, CellIs
    <3>. QED BY <1>1, <3>1
  <2>2. l \in Lines("up") /\ LengthOf("up") = Rows
    BY <1>1, LinesAre
  <2>3. l[p] = <<p, c[2]>> /\ l[p + 1] = <<p + 1, c[2]>>
    BY <2>1
  <2>4. l[p] = c /\ l[p + 1] = d
    BY <1>1, <1>4, <2>3
  <2>. HIDE DEF l, p
  <2>5. InOrder(c, d, "up", l, p, p + 1)
    BY <2>1, <2>2, <2>4 DEF InOrder
  <2>. QED BY <2>5 DEF Directions
<1>. QED BY <1>2, <1>3, <1>4

\* and what follows a cell on a line is a neighbour, or the cell is one of it.
LEMMA FollowsIsNeighbour ==
  ASSUME NEW direction \in Directions, NEW l \in Lines(direction),
         NEW i \in 1 .. LengthOf(direction) - 1
  PROVE  /\ l[i] \in Cells /\ l[i + 1] \in Cells
         /\ l[i + 1] \in Neighbours(l[i]) \/ l[i] \in Neighbours(l[i + 1])
<1>. DEFINE n == LengthOf(direction)
<1>1. Rows \in Nat /\ Columns \in Nat /\ (n = Rows \/ n = Columns)
  BY BoardAssumption DEF LengthOf
<1>2. i \in 1 .. n /\ i + 1 \in 1 .. n /\ i \in Nat
  <2>1. n \in Nat
    BY <1>1
  <2>. HIDE DEF n
  <2>2. i \in 1 .. n - 1
    BY DEF n
  <2>. QED BY <2>1, <2>2
<1>3. l[i] \in Cells /\ l[i + 1] \in Cells
  <2>1. Partition(Lines(direction), n)
    BY LinesPartition
  <2>. HIDE DEF n
  <2>. QED BY <1>2, <2>1, OnLine
<1>4. CASE direction = "up"
  <2>1. n = Rows
    BY <1>4, LinesAre
  <2>2. PICK c \in 1 .. Columns : l = [k \in 1 .. Rows |-> <<k, c>>]
    BY <1>4, LinesAre
  <2>3. l[i] = <<i, c>> /\ l[i + 1] = <<i + 1, c>>
    BY <1>2, <2>1, <2>2
  <2>4. l[i + 1] = <<l[i][1] + 1, l[i][2]>>
    BY <2>3
  <2>. QED BY <1>3, <2>4 DEF Neighbours
<1>5. CASE direction = "down"
  <2>1. n = Rows
    BY <1>5, LinesAre
  <2>2. PICK c \in 1 .. Columns : l = [k \in 1 .. Rows |-> <<Rows + 1 - k, c>>]
    BY <1>5, LinesAre
  <2>3. l[i] = <<Rows + 1 - i, c>> /\ l[i + 1] = <<Rows + 1 - (i + 1), c>>
    BY <1>2, <2>1, <2>2
  <2>4. l[i] = <<l[i + 1][1] + 1, l[i + 1][2]>>
    <3>1. Rows + 1 - (i + 1) + 1 = Rows + 1 - i
      BY <1>1, <1>2
    <3>. QED BY <2>3, <3>1
  <2>. QED BY <1>3, <2>4 DEF Neighbours
<1>6. CASE direction = "left"
  <2>1. n = Columns
    BY <1>6, LinesAre
  <2>2. PICK r \in 1 .. Rows : l = [k \in 1 .. Columns |-> <<r, k>>]
    BY <1>6, LinesAre
  <2>3. l[i] = <<r, i>> /\ l[i + 1] = <<r, i + 1>>
    BY <1>2, <2>1, <2>2
  <2>4. l[i + 1] = <<l[i][1], l[i][2] + 1>>
    BY <2>3
  <2>. QED BY <1>3, <2>4 DEF Neighbours
<1>7. CASE direction = "right"
  <2>1. n = Columns
    BY <1>7, LinesAre
  <2>2. PICK r \in 1 .. Rows : l = [k \in 1 .. Columns |-> <<r, Columns + 1 - k>>]
    BY <1>7, LinesAre
  <2>3. l[i] = <<r, Columns + 1 - i>> /\ l[i + 1] = <<r, Columns + 1 - (i + 1)>>
    BY <1>2, <2>1, <2>2
  <2>4. l[i] = <<l[i + 1][1], l[i + 1][2] + 1>>
    <3>1. Columns + 1 - (i + 1) + 1 = Columns + 1 - i
      BY <1>1, <1>2
    <3>. QED BY <2>3, <3>1
  <2>. QED BY <1>3, <2>4 DEF Neighbours
<1>. QED BY <1>4, <1>5, <1>6, <1>7 DEF Directions

\* A line with an empty cell before a tile is another one when it is compressed,
LEMMA GapMoves ==
  ASSUME NEW b \in Boards, NEW direction \in Directions, NEW c, NEW d, NEW l, NEW i, NEW j,
         InOrder(c, d, direction, l, i, j), b[c] = 0, b[d] # 0
  PROVE  applyMove(b, direction).changed
<1>. DEFINE n == LengthOf(direction)
            v == ValuesOf(b, l)
            w == Compressed(b, l).line
<1>1. l \in Lines(direction) /\ i \in 1 .. n /\ j \in 1 .. n /\ i < j /\ l[i] = c /\ l[j] = d
  BY DEF InOrder
<1>2. Partition(Lines(direction), n)
  BY LinesPartition
<1>. HIDE DEF n
<1>3. IsLine(v, n) /\ v[i] = 0 /\ v[j] # 0
  BY <1>1, <1>2, ValuesAreLine
<1>4. \E m \in 0 .. n : FilledTo(w, m, n)
  BY <1>3, CompressedLine DEF Compressed
<1>5. PICK m \in 0 .. n : FilledTo(w, m, n)
  BY <1>4
<1>6. (w[i] # 0 <=> i <= m) /\ (w[j] # 0 <=> j <= m)
  BY <1>1, <1>5 DEF FilledTo
<1>. HIDE DEF v, w
<1>7. w # v
  BY <1>1, <1>3, <1>5, <1>6
<1>. QED BY <1>1, <1>7, MoveChanges DEF v, w

\* and so is a full one with two equal cells that follow each other.
LEMMA EqualMoves ==
  ASSUME NEW b \in Boards, NEW direction \in Directions, NEW c, NEW d, NEW l, NEW i,
         InOrder(c, d, direction, l, i, i + 1), b[c] = b[d], \A e \in Cells : b[e] # 0
  PROVE  applyMove(b, direction).changed
<1>. DEFINE n == LengthOf(direction)
            v == ValuesOf(b, l)
            w == Compressed(b, l).line
<1>1. /\ l \in Lines(direction) /\ i \in 1 .. n /\ i + 1 \in 1 .. n
      /\ l[i] = c /\ l[i + 1] = d
  BY DEF InOrder
<1>2. Partition(Lines(direction), n)
  BY LinesPartition
<1>. HIDE DEF n
<1>3. n \in Nat /\ \A k \in 1 .. n : l[k] \in Cells
  BY <1>1, <1>2, OnLine
<1>4. IsLine(v, n) /\ \A k \in 1 .. n : v[k] = b[l[k]]
  BY <1>1, <1>2, ValuesAreLine
<1>5. ~ Stuck(v, n)
  <2>1. i \in 1 .. n - 1 /\ v[i] = v[i + 1]
    BY <1>1, <1>3, <1>4
  <2>. QED BY <2>1 DEF Stuck
<1>6. \E m \in 0 .. n : FilledTo(w, m, n) /\ (m = n <=> Stuck(v, n))
  BY <1>4, CompressedLine DEF Compressed
<1>7. PICK m \in 0 .. n : FilledTo(w, m, n) /\ m # n
  BY <1>5, <1>6
<1>8. n \in 1 .. n /\ ~ (n <= m)
  BY <1>1, <1>3, <1>7
<1>9. w[n] = 0 /\ v[n] # 0
  BY <1>3, <1>4, <1>7, <1>8 DEF FilledTo
<1>. HIDE DEF v, w
<1>10. w # v
  BY <1>9
<1>. QED BY <1>1, <1>10, MoveChanges DEF v, w

\* canMove, which tries no move, says whether one of the four would change the board.
LEMMA CanMoveIs ==
  ASSUME NEW b \in Boards, NEW t \in Cells, b[t] # 0
  PROVE  canMove(b) <=> MovesLeft(b) # {}
<1>1. ASSUME NEW e \in Cells, b[e] = 0
      PROVE  MovesLeft(b) # {}
  <2>. DEFINE x == <<t[1], e[2]>>
  <2>1. /\ t[1] \in 1 .. Rows /\ t[2] \in 1 .. Columns /\ t = <<t[1], t[2]>>
        /\ e[1] \in 1 .. Rows /\ e[2] \in 1 .. Columns /\ e = <<e[1], e[2]>>
    BY CellIs
  <2>2. CASE b[x] = 0
    <3>1. e[2] # t[2]
      BY <2>1, <2>2
    <3>2. \E direction \in Directions : \E l, i, j : InOrder(x, t, direction, l, i, j)
      BY <2>1, <3>1, TwoInRow
    <3>. HIDE DEF x
    <3>3. PICK direction \in Directions : \E l, i, j : InOrder(x, t, direction, l, i, j)
      BY <3>2
    <3>4. applyMove(b, direction).changed
      BY <2>2, <3>3, GapMoves
    <3>. QED BY <3>4 DEF MovesLeft
  <2>3. CASE b[x] # 0
    <3>1. e[1] # t[1]
      BY <1>1, <2>1, <2>3
    <3>2. \E direction \in Directions : \E l, i, j : InOrder(e, x, direction, l, i, j)
      BY <2>1, <3>1, TwoInColumn
    <3>. HIDE DEF x
    <3>3. PICK direction \in Directions : \E l, i, j : InOrder(e, x, direction, l, i, j)
      BY <3>2
    <3>4. applyMove(b, direction).changed
      BY <1>1, <2>3, <3>3, GapMoves
    <3>. QED BY <3>4 DEF MovesLeft
  <2>. QED BY <2>2, <2>3
<1>2. ASSUME \A e \in Cells : b[e] # 0, NEW c \in Cells, NEW d \in Neighbours(c), b[c] = b[d]
      PROVE  MovesLeft(b) # {}
  <2>1. PICK direction \in Directions : \E l, i : InOrder(c, d, direction, l, i, i + 1)
    BY NeighbourFollows
  <2>2. applyMove(b, direction).changed
    BY <1>2, <2>1, EqualMoves
  <2>. QED BY <2>2 DEF MovesLeft
<1>3. ASSUME ~ canMove(b), NEW direction \in Directions
      PROVE  ~ applyMove(b, direction).changed
  <2>. DEFINE n == LengthOf(direction)
  <2>1. /\ \A e \in Cells : b[e] # 0
        /\ \A c \in Cells : \A d \in Neighbours(c) : b[c] # b[d]
    BY <1>3 DEF canMove, getEmptyIndexes
  <2>2. Partition(Lines(direction), n)
    BY LinesPartition
  <2>3. ASSUME NEW l \in Lines(direction)
        PROVE  Compressed(b, l).line = ValuesOf(b, l)
    <3>. DEFINE v == ValuesOf(b, l)
    <3>0. \A i \in 1 .. n - 1 : b[l[i]] # b[l[i + 1]]
      <4>. SUFFICES ASSUME NEW i \in 1 .. n - 1 PROVE b[l[i]] # b[l[i + 1]]
        OBVIOUS
      <4>1. /\ l[i] \in Cells /\ l[i + 1] \in Cells
            /\ l[i + 1] \in Neighbours(l[i]) \/ l[i] \in Neighbours(l[i + 1])
        BY FollowsIsNeighbour
      <4>. QED BY <2>1, <4>1
    <3>. HIDE DEF n
    <3>1. n \in Nat /\ \A i \in 1 .. n : l[i] \in Cells
      BY <2>2, OnLine
    <3>2. IsLine(v, n) /\ \A i \in 1 .. n : v[i] = b[l[i]]
      BY <2>2, ValuesAreLine
    <3>3. Stuck(v, n)
      <4>1. \A i \in 1 .. n - 1 : i \in 1 .. n /\ i + 1 \in 1 .. n
        BY <3>1
      <4>. HIDE DEF v
      <4>. QED BY <2>1, <3>0, <3>1, <3>2, <4>1 DEF Stuck
    <3>4. \E m \in 0 .. n : (m = n <=> Stuck(v, n)) /\ (m = n => Compressed(b, l).line = v)
      BY <3>2, CompressedLine DEF Compressed
    <3>. QED BY <3>3, <3>4
  <2>. QED BY <2>3, MoveChanges
<1>4. canMove(b) => MovesLeft(b) # {}
  <2>. SUFFICES ASSUME canMove(b) PROVE MovesLeft(b) # {}
    OBVIOUS
  <2>1. CASE \E e \in Cells : b[e] = 0
    BY <1>1, <2>1
  <2>2. CASE \A e \in Cells : b[e] # 0
    <3>1. PICK c \in Cells : \E d \in Neighbours(c) : b[c] = b[d]
      BY <2>2 DEF canMove, getEmptyIndexes
    <3>. QED BY <1>2, <2>2, <3>1
  <2>. QED BY <2>1, <2>2
<1>5. ~ canMove(b) => MovesLeft(b) = {}
  BY <1>3 DEF MovesLeft
<1>. QED BY <1>4, <1>5

-----------------------------------------------------------------------------
(***************************************************************************)
(* The replay.  Its invariant holds of a board with a tile, a score, a     *)
(* number of fours and a reason to end.                                    *)
(***************************************************************************)
GameOf(b, total, count, reason) ==
  /\ b \in Boards
  /\ \E c \in Cells : b[c] # 0
  /\ total \in Int /\ count \in Nat
  /\ total = BoardWorth(b) - 4 * count
  /\ MovesLeft(b) = {} => reason \in {STOP_REASON_NO_MOVES, STOP_REASON_MAX_MOVES}

GameInv == GameOf(board, score, fours, endedReason)

\* What a board is worth is an amount.
LEMMA BoardWorthNat ==
  ASSUME NEW b \in Boards
  PROVE  BoardWorth(b) \in Nat
<1>. DEFINE f == [c \in Cells |-> Worth[b[c]]]
<1>1. \A c \in Cells : f[c] \in Nat
  BY WorthFacts DEF Boards
<1>. HIDE DEF f
<1>2. SumOver(f, Cells) \in Nat
  BY <1>1, CellsFinite, SumNat
<1>. QED BY <1>2 DEF BoardWorth, f

\* The empty board is worth nothing.
LEMMA EmptyBoard ==
  /\ createEmptyBoard \in Boards /\ BoardWorth(createEmptyBoard) = 0
  /\ \A c \in Cells : createEmptyBoard[c] = 0
<1>. DEFINE b == createEmptyBoard
            f == [c \in Cells |-> Worth[b[c]]]
<1>1. b \in Boards /\ \A c \in Cells : b[c] = 0
  BY DEF createEmptyBoard, Boards, Content
<1>2. \A c \in Cells : f[c] = 0
  BY <1>1, WorthFacts
<1>. HIDE DEF f
<1>3. SumOver(f, Cells) = 0
  BY <1>2, CellsFinite, SumZero
<1>. QED BY <1>1, <1>3 DEF BoardWorth, f

\* A tile that is spawned is worth 4 if it is a four, and nothing else changes.
LEMMA SpawnedTile ==
  ASSUME NEW b \in Boards, NEW spawn \in spawnTile(b)
  PROVE  \E c \in Cells :
           /\ spawn.board \in Boards /\ spawn.board[c] # 0
           /\ \A d \in Cells : d # c => spawn.board[d] = b[d]
           /\ spawn.tile \in {2, 4} /\ FourOf(spawn.tile) \in Nat
           /\ BoardWorth(spawn.board) = BoardWorth(b) + 4 * FourOf(spawn.tile)
<1>1. PICK c \in Cells, v \in {2, 4} :
        b[c] = 0 /\ spawn = [board |-> [b EXCEPT ![c] = v], tile |-> v]
  BY DEF spawnTile, getEmptyIndexes
<1>. DEFINE next == [b EXCEPT ![c] = v]
            f == [d \in Cells |-> Worth[b[d]]]
            g == [d \in Cells |-> Worth[next[d]]]
<1>2. spawn.board = next /\ spawn.tile = v
  <2>1. spawn = [board |-> next, tile |-> v]
    BY <1>1
  <2>. HIDE DEF next
  <2>. QED BY <2>1
<1>3. \A d \in Cells : next[d] = IF d = c THEN v ELSE b[d]
  BY DEF Boards
<1>4. v \in Content /\ v # 0 /\ 0 \in Content
  BY DEF Content, Tile2048
<1>5. next \in Boards
  BY <1>4 DEF Boards
<1>6. \A d \in Cells : b[d] \in Content /\ next[d] \in Content
  BY <1>5 DEF Boards
<1>. HIDE DEF next
<1>7. /\ \A d \in Cells : f[d] = Worth[b[d]] /\ f[d] \in Int
      /\ \A d \in Cells : g[d] = Worth[next[d]] /\ g[d] \in Int
  BY <1>6, WorthFacts
<1>8. \A d \in Cells \ {c} : g[d] = f[d]
  BY <1>3, <1>7
<1>9. f[c] = 0 /\ g[c] = Worth[v]
  BY <1>1, <1>3, <1>7, WorthFacts
<1>10. Worth[v] = 4 * FourOf(v) /\ FourOf(v) \in Nat
  BY WorthFacts DEF FourOf
<1>. HIDE DEF f, g
<1>11. SumOver(g, Cells) = SumOver(f, Cells) - f[c] + g[c]
  <2>1. (\A d \in Cells : f[d] \in Int) /\ (\A d \in Cells : g[d] \in Int)
    BY <1>7
  <2>. QED BY <1>8, <2>1, CellsFinite, SumUpdate
<1>12. BoardWorth(next) = SumOver(g, Cells) /\ BoardWorth(b) = SumOver(f, Cells)
  BY DEF BoardWorth, f, g
<1>13. BoardWorth(b) \in Nat
  BY BoardWorthNat
<1>14. BoardWorth(next) = BoardWorth(b) + 4 * FourOf(v)
  BY <1>9, <1>10, <1>11, <1>12, <1>13
<1>. QED BY <1>1, <1>2, <1>3, <1>4, <1>5, <1>10, <1>14

\* A board has more than two cells, so that a game begins with room for a tile.
LEMMA ThirdCell ==
  ASSUME NEW c, NEW d
  PROVE  \E e \in Cells : e # c /\ e # d
<1>1. Rows \in Nat /\ Columns \in Nat /\ Rows * Columns > 2
  BY BoardAssumption
<1>2. SUFFICES ASSUME \A e \in Cells : e = c \/ e = d PROVE FALSE
  OBVIOUS
<1>3. Cardinality(Cells) = Rows * Columns
  <2>1. /\ 1 \in Int /\ Rows \in Int /\ Columns \in Int
    BY <1>1
  <2>2. /\ IsFiniteSet(1 .. Rows) /\ Cardinality(1 .. Rows) = Rows
        /\ IsFiniteSet(1 .. Columns) /\ Cardinality(1 .. Columns) = Columns
    BY <1>1, <2>1, FS_Interval
  <2>. DEFINE R == 1 .. Rows
              C == 1 .. Columns
  <2>3. Cells = R \X C
    BY DEF Cells
  <2>. HIDE DEF R, C
  <2>4. /\ IsFiniteSet(R) /\ Cardinality(R) = Rows
        /\ IsFiniteSet(C) /\ Cardinality(C) = Columns
    BY <2>2 DEF R, C
  <2>5. Cardinality(R \X C) = Cardinality(R) * Cardinality(C)
    BY <2>4, FS_Product
  <2>. QED BY <2>3, <2>4, <2>5
<1>4. /\ IsFiniteSet({c}) /\ Cardinality({c}) = 1
  BY FS_Singleton
<1>5. /\ IsFiniteSet({c} \cup {d}) /\ Cardinality({c} \cup {d}) <= 2
  <2>1. /\ IsFiniteSet({c} \cup {d})
        /\ Cardinality({c} \cup {d}) = IF d \in {c} THEN Cardinality({c}) ELSE Cardinality({c}) + 1
    BY <1>4, FS_AddElement
  <2>. QED BY <1>4, <2>1
<1>6. Cells \subseteq {c} \cup {d}
  BY <1>2
<1>7. Cardinality(Cells) <= Cardinality({c} \cup {d})
  BY <1>5, <1>6, FS_Subset
<1>8. Cardinality({c} \cup {d}) \in Nat
  BY <1>5, FS_CardinalityType
<1>. DEFINE room == Rows * Columns
<1>9. room > 2 /\ Cardinality(Cells) = room /\ room \in Nat
  BY <1>1, <1>3
<1>. HIDE DEF room
<1>. QED BY <1>5, <1>7, <1>8, <1>9

\* A board with a tile, and none on a third cell, has a move left.
LEMMA RoomLeft ==
  ASSUME NEW b \in Boards, NEW c, NEW d, NEW t \in Cells, b[t] # 0,
         \A e \in Cells : e # c /\ e # d => b[e] = 0
  PROVE  MovesLeft(b) # {}
<1>1. PICK e \in Cells : e # c /\ e # d
  BY ThirdCell
<1>2. canMove(b)
  BY <1>1 DEF canMove, getEmptyIndexes
<1>. QED BY <1>2, CanMoveIs

\* A game that is not played is one of a single two,
LEMMA NoGameInv ==
  ASSUME NoGame
  PROVE  GameInv
<1>. DEFINE empty == createEmptyBoard
            spawn == CHOOSE s \in spawnTile(empty) : s.tile = 2
<1>1. empty \in Boards /\ BoardWorth(empty) = 0 /\ \A c \in Cells : empty[c] = 0
  BY EmptyBoard
<1>2. PICK e \in Cells : TRUE
  BY ThirdCell
<1>. HIDE DEF empty
<1>3. \E s \in spawnTile(empty) : s.tile = 2
  <2>. DEFINE s == [board |-> [empty EXCEPT ![e] = 2], tile |-> 2]
  <2>1. s \in spawnTile(empty)
    <3>. DEFINE Made(c, v) == [board |-> [empty EXCEPT ![c] = v], tile |-> v]
    <3>1. e \in getEmptyIndexes(empty) /\ 2 \in {2, 4}
      BY <1>1 DEF getEmptyIndexes
    <3>2. spawnTile(empty) = {Made(c, v) : c \in getEmptyIndexes(empty), v \in {2, 4}}
      BY DEF spawnTile
    <3>3. s = Made(e, 2)
      OBVIOUS
    <3>. HIDE DEF s, Made
    <3>. QED BY <3>1, <3>2, <3>3
  <2>2. s.tile = 2
    OBVIOUS
  <2>. HIDE DEF s
  <2>. QED BY <2>1, <2>2
<1>4. spawn \in spawnTile(empty) /\ spawn.tile = 2
  BY <1>3
<1>. HIDE DEF spawn
<1>5. PICK c \in Cells :
        /\ spawn.board \in Boards /\ spawn.board[c] # 0
        /\ \A d \in Cells : d # c => spawn.board[d] = empty[d]
        /\ BoardWorth(spawn.board) = BoardWorth(empty) + 4 * FourOf(spawn.tile)
  BY <1>1, <1>4, SpawnedTile
<1>6. FourOf(spawn.tile) = 0
  BY <1>4 DEF FourOf
<1>7. board = spawn.board /\ score = 0 /\ fours = 0
  BY DEF NoGame, spawn, empty
<1>8. MovesLeft(spawn.board) # {}
  <2>1. \A d \in Cells : d # c /\ d # c => spawn.board[d] = 0
    BY <1>1, <1>5
  <2>. QED BY <1>5, <2>1, RoomLeft
<1>. QED BY <1>1, <1>5, <1>6, <1>7, <1>8 DEF GameInv, GameOf

\* a game begins with two tiles,
LEMMA GameBegins ==
  ASSUME ReplayInit
  PROVE  GameInv
<1>1. createEmptyBoard \in Boards /\ BoardWorth(createEmptyBoard) = 0
      /\ \A c \in Cells : createEmptyBoard[c] = 0
  BY EmptyBoard
<1>2. PICK first \in spawnTile(createEmptyBoard) : \E second \in spawnTile(first.board) :
        board = second.board /\ fours = FourOf(first.tile) + FourOf(second.tile)
  BY DEF ReplayInit
<1>3. PICK second \in spawnTile(first.board) :
        board = second.board /\ fours = FourOf(first.tile) + FourOf(second.tile)
  BY <1>2
<1>4. PICK c \in Cells :
        /\ first.board \in Boards /\ first.board[c] # 0
        /\ \A e \in Cells : e # c => first.board[e] = createEmptyBoard[e]
        /\ first.tile \in {2, 4} /\ FourOf(first.tile) \in Nat
        /\ BoardWorth(first.board) = BoardWorth(createEmptyBoard) + 4 * FourOf(first.tile)
  BY <1>1, SpawnedTile
<1>5. PICK d \in Cells :
        /\ second.board \in Boards /\ second.board[d] # 0
        /\ \A e \in Cells : e # d => second.board[e] = first.board[e]
        /\ second.tile \in {2, 4} /\ FourOf(second.tile) \in Nat
        /\ BoardWorth(second.board) = BoardWorth(first.board) + 4 * FourOf(second.tile)
  BY <1>3, <1>4, SpawnedTile
<1>6. score = 0
  BY DEF ReplayInit
<1>7. MovesLeft(second.board) # {}
  <2>1. \A e \in Cells : e # c /\ e # d => second.board[e] = 0
    BY <1>1, <1>4, <1>5
  <2>. QED BY <1>5, <2>1, RoomLeft
<1>8. 0 = BoardWorth(second.board) - 4 * fours /\ fours \in Nat
  BY <1>1, <1>3, <1>4, <1>5
<1>. QED BY <1>3, <1>5, <1>6, <1>7, <1>8 DEF GameInv, GameOf

\* a move scores what it adds and brings a tile if it changes the board,
LEMMA MoveKeeps ==
  ASSUME GameInv, NEW direction \in Directions, ReplayMove(direction)
  PROVE  GameInv'
<1>. DEFINE outcome == applyMove(board, direction)
            next == Moved(board, direction)
<1>1. /\ board \in Boards /\ score \in Int /\ fours \in Nat
      /\ score = BoardWorth(board) - 4 * fours
  BY DEF GameInv, GameOf
<1>2. PICK t \in Cells : board[t] # 0
  BY DEF GameInv, GameOf
<1>3. /\ next \in Boards
      /\ outcome.changed <=> next # board
  <2>1. \A P : P = Lines(direction) => next \in Boards /\ (outcome.changed <=> next # board)
    BY <1>1, MoveIs
  <2>. QED BY <2>1
<1>4. outcome.scoreDelta \in Nat /\ BoardWorth(next) = BoardWorth(board) + outcome.scoreDelta
  BY <1>1, MoveScores
<1>5. outcome.board = next
  BY DEF Moved
<1>6. /\ score' = score + outcome.scoreDelta
      /\ \/ /\ outcome.changed
            /\ \E spawn \in spawnTile(outcome.board) :
                 board' = spawn.board /\ fours' = fours + FourOf(spawn.tile)
         \/ /\ ~ outcome.changed
            /\ board' = outcome.board
            /\ fours' = fours
      /\ endedReason' = EndAfter(board', moveCount')
  BY DEF ReplayMove
<1>. HIDE DEF outcome, next
<1>7. /\ board' \in Boards
      /\ \E c \in Cells : board'[c] # 0
      /\ fours' \in Nat /\ score' \in Int
      /\ score' = BoardWorth(board') - 4 * fours'
  <2>0. BoardWorth(board) \in Nat /\ BoardWorth(next) \in Nat
    BY <1>1, <1>3, BoardWorthNat
  <2>1. CASE outcome.changed
    <3>1. PICK spawn \in spawnTile(next) :
            board' = spawn.board /\ fours' = fours + FourOf(spawn.tile)
      BY <1>5, <1>6, <2>1
    <3>2. PICK c \in Cells :
            /\ spawn.board \in Boards /\ spawn.board[c] # 0
            /\ FourOf(spawn.tile) \in Nat
            /\ BoardWorth(spawn.board) = BoardWorth(next) + 4 * FourOf(spawn.tile)
      BY <1>3, SpawnedTile
    <3>. DEFINE four == FourOf(spawn.tile)
                worth == BoardWorth(board')
    <3>3. /\ worth = BoardWorth(next) + 4 * four /\ four \in Nat
          /\ fours' = fours + four
      BY <3>1, <3>2
    <3>. HIDE DEF four, worth
    <3>4. score' = worth - 4 * fours' /\ score' \in Int /\ fours' \in Nat
      BY <1>1, <1>4, <1>6, <2>0, <3>3
    <3>. QED BY <3>1, <3>2, <3>4 DEF worth
  <2>2. CASE ~ outcome.changed
    <3>1. board' = next /\ next = board /\ fours' = fours
      BY <1>3, <1>5, <1>6, <2>2
    <3>2. score' = BoardWorth(next) - 4 * fours /\ score' \in Int
      BY <1>1, <1>4, <1>6, <2>0
    <3>. QED BY <1>1, <1>2, <3>1, <3>2
  <2>. QED BY <2>1, <2>2
<1>8. MovesLeft(board') = {} => endedReason' \in {STOP_REASON_NO_MOVES, STOP_REASON_MAX_MOVES}
  <2>. SUFFICES ASSUME MovesLeft(board') = {}
                PROVE  endedReason' \in {STOP_REASON_NO_MOVES, STOP_REASON_MAX_MOVES}
    OBVIOUS
  <2>1. ~ canMove(board')
    BY <1>7, CanMoveIs
  <2>. QED BY <1>6, <2>1 DEF EndAfter
<1>. QED BY <1>7, <1>8 DEF GameInv, GameOf

\* and a list of moves that is over leaves the board as it is.
LEMMA OverKeeps ==
  ASSUME GameInv, NEW stopReason, MovesOver(stopReason)
  PROVE  GameInv'
<1>1. MovesLeft(board) # {}
  BY DEF GameInv, GameOf, MovesOver, STOP_REASON_NO_MOVES, STOP_REASON_MAX_MOVES
<1>2. board' = board /\ score' = score /\ fours' = fours
  BY DEF MovesOver
<1>. QED BY <1>1, <1>2 DEF GameInv, GameOf

\* Every step keeps the invariant.
LEMMA GameStep == GameInv /\ [ResultsNext]_resultsVars => GameInv'
<1>. SUFFICES ASSUME GameInv, [ResultsNext]_resultsVars PROVE GameInv'
  OBVIOUS
<1>1. CASE UNCHANGED replayVars
  <2>1. board' = board /\ score' = score /\ fours' = fours /\ endedReason' = endedReason
    BY <1>1 DEF replayVars
  <2>. QED BY <2>1 DEF GameInv
<1>2. CASE ReplayNext
  BY <1>2, MoveKeeps, OverKeeps DEF ReplayNext
<1>. QED BY <1>1, <1>2 DEF ResultsNext, Join, Play, Rename, resultsVars

\* The result of a replay is that of its board, on boards of every size with room to
\* begin: the score is the worth of the tiles less the merges that the spawned fours did
\* not need, canMove says whether a move is left, and none is only when the game ended.
THEOREM ResultsAlwaysExplained == ResultsSpec => []ResultExplained
<1>1. ResultsInit => GameInv
  BY NoGameInv, GameBegins DEF ResultsInit
<1>2. GameInv => ResultExplained
  <2>. SUFFICES ASSUME GameInv PROVE ResultExplained
    OBVIOUS
  <2>1. canMove(board) <=> MovesLeft(board) # {}
    BY CanMoveIs DEF GameInv, GameOf
  <2>. QED BY <2>1 DEF GameInv, GameOf, ResultExplained, BoardWorth
<1>. QED BY <1>1, <1>2, GameStep, PTL DEF ResultsSpec
=============================================================================
