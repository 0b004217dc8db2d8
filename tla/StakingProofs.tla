---------------------------- MODULE StakingProofs ----------------------------
(***************************************************************************)
(* Proofs about the staking of validators, for any addresses, committees,  *)
(* parameters and certificates.  One inductive invariant says that the     *)
(* records of validators and the keys of heights tell the same: who        *)
(* unstakes or is paused has its key at a height that is not over, and a   *)
(* key to release somebody tells of one that unstakes at that height, but  *)
(* for addresses that a slash has removed.  The other is about money: the  *)
(* supply tracker has the figures of the records, and what it holds beside *)
(* the stakes is in accounts and pools.                                    *)
(***************************************************************************)
EXTENDS StakingProperties, SumProofs, TLAPS

Rec == Validator \cup {NULL}
Keys == Nat \X Address
Heights == Nat \ {0}

\* What of a book says when somebody is to be released.
Timers(b) ==
  [validator |-> b.validator, unstakingKeys |-> b.unstakingKeys, pausedKeys |-> b.pausedKeys]

\* Each record has its key, at h or later.
HasKeys(t, h) ==
  \A a \in Address :
    /\ IsUnstaking(t.validator[a]) =>
         /\ <<t.validator[a].unstaking, a>> \in t.unstakingKeys
         /\ t.validator[a].unstaking >= h
         /\ ~IsPaused(t.validator[a])
    /\ IsPaused(t.validator[a]) =>
         <<t.validator[a].paused, a>> \in t.pausedKeys /\ t.validator[a].paused >= h

\* Each key to release, but for addresses in S, has its record.
HasRecords(t, h, S) ==
  \A k \in t.unstakingKeys :
    \/ k[2] \in S
    \/ IsUnstaking(t.validator[k[2]]) /\ t.validator[k[2]].unstaking = k[1] /\ k[1] >= h

Tidy(h, S) ==
  {t \in [validator : [Address -> Rec], unstakingKeys : SUBSET Keys, pausedKeys : SUBSET Keys] :
     HasKeys(t, h) /\ HasRecords(t, h, S)}

\* How a handler may change a record at height h.
Allowed(v, w, h) ==
  \/ w = NULL
  \/ v = NULL /\ w.unstaking = 0 /\ w.paused = 0
  \/ v # NULL /\ w.unstaking = v.unstaking /\ w.paused = v.paused
  \/ v # NULL /\ v.unstaking = 0 /\ w.unstaking > h /\ w.paused = 0
  \/ v # NULL /\ v.unstaking = 0 /\ w.unstaking = 0 /\ (w.paused = 0 \/ w.paused > h)

\* The keys of a book follow its records.
Follows(b, d) ==
  /\ d.unstakingKeys = UnstakingKeysAfter(b.unstakingKeys, b.validator, d.validator)
  /\ d.pausedKeys = PausedKeysAfter(b.pausedKeys, b.validator, d.validator)

Inv ==
  /\ height \in Heights
  /\ Timers(Book) \in Tidy(height, orphaned)

-----------------------------------------------------------------------------
LEMMA BlocksPositive ==
  /\ Param.unstakingBlocks \in Heights /\ Param.maxPauseBlocks \in Heights
  /\ \A d : UnstakingBlocks(d) \in Heights
BY ParamAssumption DEF UnstakingBlocks, Heights

\* Allowed changes keep a book tidy, but for the keys of those it removes.
LEMMA FollowsTidy ==
  ASSUME NEW h \in Heights, NEW S, NEW T, S \subseteq T, NEW b, NEW d,
         Timers(b) \in Tidy(h, S),
         d.validator \in [Address -> Rec],
         Follows(b, d),
         \A a \in Address : Allowed(b.validator[a], d.validator[a], h),
         \A a \in Address : b.validator[a] # NULL /\ d.validator[a] = NULL => a \in T
  PROVE  Timers(d) \in Tidy(h, T)
<1> DEFINE old == b.validator
           new == d.validator
           uk == b.unstakingKeys
           pk == b.pausedKeys
           uk2 == d.unstakingKeys
           pk2 == d.pausedKeys
<1>0. h \in Nat /\ h # 0
  BY DEF Heights
<1>1. /\ old \in [Address -> Rec] /\ uk \subseteq Keys /\ pk \subseteq Keys
      /\ HasKeys(Timers(b), h) /\ HasRecords(Timers(b), h, S)
  BY DEF Tidy, Timers
<1>2. /\ \A a \in Address : IsUnstaking(old[a]) =>
            <<old[a].unstaking, a>> \in uk /\ old[a].unstaking >= h /\ ~IsPaused(old[a])
      /\ \A a \in Address : IsPaused(old[a]) => <<old[a].paused, a>> \in pk /\ old[a].paused >= h
      /\ \A k \in uk : \/ k[2] \in S
                       \/ IsUnstaking(old[k[2]]) /\ old[k[2]].unstaking = k[1] /\ k[1] >= h
  BY <1>1 DEF HasKeys, HasRecords, Timers
<1>3. /\ new \in [Address -> Rec]
      /\ uk2 = UnstakingKeysAfter(uk, old, new) /\ pk2 = PausedKeysAfter(pk, old, new)
  BY DEF Follows
<1>4. \A a \in Address : new[a] # NULL =>
         /\ new[a].unstaking \in Nat /\ new[a].paused \in Nat
         /\ <<new[a].unstaking, a>> \in Keys /\ <<new[a].paused, a>> \in Keys
  BY <1>3 DEF Rec, Validator, Keys
<1>5. \A a \in Address : old[a] # NULL => old[a].unstaking \in Nat /\ old[a].paused \in Nat
  BY <1>1 DEF Rec, Validator
<1>6. \A a \in Address : Allowed(old[a], new[a], h)
  OBVIOUS
<1> HIDE DEF old, new, uk, pk, uk2, pk2
<1>7. uk2 \subseteq Keys /\ pk2 \subseteq Keys
  BY <1>1, <1>3, <1>4 DEF UnstakingKeysAfter, PausedKeysAfter, IsUnstaking, IsPaused
<1>8. ASSUME NEW a \in Address, IsUnstaking(new[a])
      PROVE  <<new[a].unstaking, a>> \in uk2 /\ new[a].unstaking >= h /\ ~IsPaused(new[a])
  <2>1. CASE old[a] # NULL /\ old[a].unstaking = new[a].unstaking
    <3>1. IsUnstaking(old[a])
      BY <2>1, <1>8 DEF IsUnstaking
    <3>2. <<old[a].unstaking, a>> \in uk /\ old[a].unstaking >= h /\ ~IsPaused(old[a])
      BY <3>1, <1>2
    <3>3. new[a].paused = old[a].paused
      BY <3>1, <1>6, <1>8, <2>1, <1>0, <1>4 DEF Allowed, IsUnstaking
    <3> QED BY <3>2, <3>3, <2>1, <1>3 DEF UnstakingKeysAfter, IsPaused
  <2>2. CASE ~(old[a] # NULL /\ old[a].unstaking = new[a].unstaking)
    <3>1. <<new[a].unstaking, a>> \in uk2
      BY <2>2, <1>8, <1>3 DEF UnstakingKeysAfter
    <3>2. new[a].unstaking > h /\ new[a].paused = 0
      BY <2>2, <1>6, <1>8 DEF Allowed, IsUnstaking
    <3>3. new[a].unstaking \in Nat
      BY <1>4, <1>8 DEF IsUnstaking
    <3>4. new[a].unstaking >= h
      BY <3>2, <3>3, <1>0
    <3> QED BY <3>1, <3>2, <3>4 DEF IsPaused
  <2> QED BY <2>1, <2>2
<1>9. ASSUME NEW a \in Address, IsPaused(new[a])
      PROVE  <<new[a].paused, a>> \in pk2 /\ new[a].paused >= h
  <2>1. <<new[a].paused, a>> \in pk2
    BY <1>9, <1>3 DEF PausedKeysAfter
  <2>2. new[a] # NULL /\ new[a].paused # 0 /\ new[a].paused \in Nat
    BY <1>9, <1>4 DEF IsPaused
  <2>3. CASE old[a] # NULL /\ new[a].paused = old[a].paused
    BY <2>1, <2>2, <2>3, <1>2 DEF IsPaused
  <2>4. CASE ~(old[a] # NULL /\ new[a].paused = old[a].paused)
    <3>1. new[a].paused > h
      BY <2>4, <2>2, <1>6 DEF Allowed
    <3> QED BY <3>1, <2>1, <2>2, <1>0
  <2> QED BY <2>3, <2>4
<1>10. ASSUME NEW k \in uk2
       PROVE  \/ k[2] \in T
              \/ IsUnstaking(new[k[2]]) /\ new[k[2]].unstaking = k[1] /\ k[1] >= h
  <2>1. CASE \E a \in Address : k = <<new[a].unstaking, a>> /\ IsUnstaking(new[a])
    BY <2>1, <1>8
  <2>2. CASE k \in uk
    <3> DEFINE a == k[2]
    <3>1. a \in Address /\ k = <<k[1], a>>
      BY <1>1, <2>2 DEF Keys
    <3>2. CASE a \in S
      BY <3>2
    <3>3. CASE /\ IsUnstaking(old[a]) /\ old[a].unstaking = k[1] /\ k[1] >= h
      <4>1. old[a] # NULL /\ old[a].unstaking # 0
        BY <3>3 DEF IsUnstaking
      <4>2. CASE new[a] = NULL
        BY <4>1, <4>2, <3>1 DEF old, new
      <4>3. CASE new[a] # NULL
        <5>1. new[a].unstaking = old[a].unstaking
          BY <4>1, <4>3, <3>1, <1>6 DEF Allowed
        <5> QED BY <5>1, <4>1, <4>3, <3>3 DEF IsUnstaking
      <4> QED BY <4>2, <4>3
    <3> QED BY <3>2, <3>3, <2>2, <1>2
  <2>3. k \in uk \/ \E a \in Address : k = <<new[a].unstaking, a>> /\ IsUnstaking(new[a])
    BY <1>10, <1>3 DEF UnstakingKeysAfter
  <2> QED BY <2>1, <2>2, <2>3
<1> DEFINE t == Timers(d)
<1>11. /\ t.validator = new /\ t.unstakingKeys = uk2 /\ t.pausedKeys = pk2
       /\ t \in [validator : [Address -> Rec], unstakingKeys : SUBSET Keys,
                 pausedKeys : SUBSET Keys]
  BY <1>3, <1>7 DEF Timers, new, uk2, pk2
<1> HIDE DEF t
<1>12. HasKeys(t, h)
  BY <1>8, <1>9, <1>11 DEF HasKeys
<1>13. HasRecords(t, h, T)
  BY <1>10, <1>11 DEF HasRecords
<1>14. t \in Tidy(h, T)
  BY <1>11, <1>12, <1>13 DEF Tidy
<1> QED BY <1>14 DEF t

-----------------------------------------------------------------------------
\* What the operators of the book do to records and keys.
LEMMA MovedFields ==
  ASSUME NEW b, NEW new, NEW stk, NEW untracked
  PROVE  /\ Moved(b, new, stk, untracked).validator = new
         /\ Follows(b, Moved(b, new, stk, untracked))
BY DEF Moved, Follows

\* Records that change as allowed, none of them removed.
LEMMA MovedTidy ==
  ASSUME NEW h \in Heights, NEW S, NEW b, NEW new \in [Address -> Rec], NEW stk, NEW untracked,
         Timers(b) \in Tidy(h, S),
         \A a \in Address : Allowed(b.validator[a], new[a], h),
         \A a \in Address : b.validator[a] # NULL => new[a] # NULL
  PROVE  Timers(Moved(b, new, stk, untracked)) \in Tidy(h, S)
<1> DEFINE d == Moved(b, new, stk, untracked)
<1>1. d.validator = new /\ Follows(b, d)
  BY MovedFields
<1> HIDE DEF d
<1>2. Timers(d) \in Tidy(h, S)
  BY <1>1, FollowsTidy
<1> QED BY <1>2 DEF d

LEMMA TidyRecords ==
  ASSUME NEW h, NEW S, NEW b, Timers(b) \in Tidy(h, S)
  PROVE  b.validator \in [Address -> Rec]
BY DEF Timers, Tidy

LEMMA PauseAllTidy ==
  ASSUME NEW h \in Heights, NEW S, NEW b, NEW L, NEW c, NEW sc, Timers(b) \in Tidy(h, S)
  PROVE  /\ Timers(PauseAll(b, L, c, sc, h)) \in Tidy(h, S)
         /\ \A a \in Address : b.validator[a] = NULL <=> PauseAll(b, L, c, sc, h).validator[a] = NULL
<1> DEFINE val == b.validator
           p == h + Param.maxPauseBlocks
           new == [a \in Address |-> IF a \in L /\ CanPause(val[a], c, sc)
                                     THEN [val[a] EXCEPT !.paused = p] ELSE val[a]]
<1>1. p \in Nat /\ p > h
  BY BlocksPositive DEF Heights
<1> HIDE DEF p
<1>2. val \in [Address -> Rec]
  BY TidyRecords
<1>3. ASSUME NEW a \in Address
      PROVE  new[a] \in Rec /\ Allowed(val[a], new[a], h) /\ (val[a] = NULL <=> new[a] = NULL)
  <2>1. CASE a \in L /\ CanPause(val[a], c, sc)
    <3>1. val[a] \in Validator /\ val[a].unstaking = 0
      BY <2>1, <1>2 DEF CanPause, Rec
    <3>2. new[a] = [val[a] EXCEPT !.paused = p]
      BY <2>1
    <3>3. new[a] \in Validator /\ new[a].paused = p /\ new[a].unstaking = 0
      BY <3>1, <3>2, <1>1 DEF Validator
    <3> QED BY <3>1, <3>3, <1>1, NoValidatorAssumption DEF Allowed, Rec
  <2>2. CASE ~(a \in L /\ CanPause(val[a], c, sc))
    BY <2>2, <1>2 DEF Allowed, Rec
  <2> QED BY <2>1, <2>2
<1>4. new \in [Address -> Rec]
  BY <1>3
<1>5. PauseAll(b, L, c, sc, h) = Moved(b, new, b.stake, {})
  BY DEF PauseAll, p
<1> HIDE DEF new
<1> QED BY <1>3, <1>4, <1>5, MovedTidy, MovedFields

LEMMA SlashedAllowed ==
  ASSUME NEW v \in Validator, NEW amount, NEW C \in SUBSET Chain, NEW h \in Heights
  PROVE  /\ Slashed(v, amount, C, h) \in Rec
         /\ Allowed(v, Slashed(v, amount, C, h), h)
<1> DEFINE kept == [v EXCEPT !.committees = C]
           w == Slashed(v, amount, C, h)
           f == h + UnstakingBlocks(v.delegate)
<1>1. kept \in Validator /\ kept.unstaking = v.unstaking /\ kept.paused = v.paused
  BY DEF Validator
<1>2. f \in Nat /\ f > h
  BY BlocksPositive DEF Heights
<1> HIDE DEF kept, f
<1>3. Unstaked(kept, f) \in Validator /\ Unstaked(kept, f).unstaking = f
      /\ Unstaked(kept, f).paused = 0
  BY <1>1, <1>2 DEF Validator, Unstaked
<1>4. CASE w = NULL
  BY <1>4 DEF Allowed, Rec
<1>5. CASE w = Unstaked(kept, f) /\ v.unstaking = 0
  BY <1>2, <1>3, <1>5, NoValidatorAssumption DEF Allowed, Rec
<1>6. CASE w = kept
  BY <1>1, <1>6, NoValidatorAssumption DEF Allowed, Rec
<1>7. \/ w = NULL \/ (w = Unstaked(kept, f) /\ v.unstaking = 0) \/ w = kept
  BY DEF Slashed, kept, f
<1> QED BY <1>4, <1>5, <1>6, <1>7

\* A slash changes the records of whom it strikes, and keys follow.
LEMMA SlashAllRecords ==
  ASSUME NEW b, b.validator \in [Address -> Rec], NEW L, NEW c, NEW p, NEW sc, NEW h \in Heights
  PROVE  LET d == SlashAll(b, L, c, p, sc, h)
         IN /\ Follows(b, d)
            /\ d.validator \in [Address -> Rec]
            /\ \A a \in Address : Allowed(b.validator[a], d.validator[a], h)
            /\ \A a \in Address : b.validator[a] = NULL => d.validator[a] = NULL
<1> DEFINE val == b.validator
           done(a) == b.slashed[a][c]
           struck == {a \in L : val[a] # NULL /\
                        (sc => c \in val[a].committees /\ done(a) < Param.maxSlashPerCommittee)}
           ejects(a) == sc /\ done(a) + p >= Param.maxSlashPerCommittee
           cut(a) == IF ejects(a) THEN Param.maxSlashPerCommittee - done(a) ELSE p
           stk == [a \in Address |-> IF a \in struck
                                     THEN (b.stake[a] * (100 - cut(a))) \div 100
                                     ELSE b.stake[a]]
           left(a) == IF ejects(a) THEN val[a].committees \ {c} ELSE val[a].committees
           new == [a \in Address |->
                     IF a \in struck THEN Slashed(val[a], stk[a], left(a), h) ELSE val[a]]
           moved == Moved(b, new, stk, {a \in struck : new[a] # NULL})
           d == SlashAll(b, L, c, p, sc, h)
<1>1. \A a \in struck : val[a] # NULL
  OBVIOUS
<1> HIDE DEF struck, ejects, stk
<1>7. \A a \in Address : val[a] = NULL => new[a] = NULL
  BY <1>1
<1>2. ASSUME NEW a \in Address
      PROVE  new[a] \in Rec /\ Allowed(val[a], new[a], h)
  <2>1. CASE a \in struck
    <3>1. val[a] \in Validator
      BY <1>1, <2>1 DEF Rec
    <3>2. left(a) \in SUBSET Chain
      BY <3>1 DEF Validator
    <3>3. new[a] = Slashed(val[a], stk[a], left(a), h)
      BY <2>1
    <3> HIDE DEF left, new
    <3> QED BY <3>1, <3>2, <3>3, SlashedAllowed
  <2>2. CASE a \notin struck
    BY <2>2 DEF Allowed, Rec
  <2> QED BY <2>1, <2>2
<1>3. new \in [Address -> Rec]
  BY <1>2
<1>4. moved.validator = new /\ Follows(b, moved)
  <2> HIDE DEF new
  <2> QED BY MovedFields
<1>5. /\ d.validator = moved.validator
      /\ d.unstakingKeys = moved.unstakingKeys
      /\ d.pausedKeys = moved.pausedKeys
  BY DEF SlashAll, Moved, struck, ejects, stk
<1> HIDE DEF new, moved, d
<1>6. Follows(b, d)
  BY <1>4, <1>5 DEF Follows
<1> QED BY <1>2, <1>3, <1>4, <1>5, <1>6, <1>7 DEF d

LEMMA SlashAllTidy ==
  ASSUME NEW h \in Heights, NEW S, NEW T, S \subseteq T, NEW b, NEW L, NEW c, NEW p, NEW sc,
         Timers(b) \in Tidy(h, S),
         \A a \in Address : b.validator[a] # NULL /\ SlashAll(b, L, c, p, sc, h).validator[a] = NULL
                              => a \in T
  PROVE  Timers(SlashAll(b, L, c, p, sc, h)) \in Tidy(h, T)
<1> DEFINE d == SlashAll(b, L, c, p, sc, h)
<1>1. b.validator \in [Address -> Rec]
  BY TidyRecords
<1>2. /\ Follows(b, d)
      /\ d.validator \in [Address -> Rec]
      /\ \A a \in Address : Allowed(b.validator[a], d.validator[a], h)
  BY <1>1, SlashAllRecords
<1>3. \A a \in Address : b.validator[a] # NULL /\ d.validator[a] = NULL => a \in T
  OBVIOUS
<1> HIDE DEF d
<1>4. Timers(d) \in Tidy(h, T)
  BY <1>2, <1>3, FollowsTidy
<1> QED BY <1>4 DEF d

\* Who is paused until this height is forced to unstake, later than now.
LEMMA ForcedTidy ==
  ASSUME NEW h \in Heights, NEW S, NEW b, Timers(b) \in Tidy(h, S)
  PROVE  LET d == ForceUnstakeMaxPaused(b, h)
         IN /\ Timers(d) \in Tidy(h, S)
            /\ \A a \in Address : IsPaused(d.validator[a]) => d.validator[a].paused # h
            /\ \A a \in Address : b.validator[a] = NULL <=> d.validator[a] = NULL
            /\ \A a \in Address : <<h, a>> \in b.unstakingKeys <=> <<h, a>> \in d.unstakingKeys
<1> DEFINE val == b.validator
           f == h + Param.unstakingBlocks
           forced(a) == <<h, a>> \in b.pausedKeys /\ val[a] # NULL /\ val[a].unstaking = 0
           new == [a \in Address |-> IF forced(a) THEN Unstaked(val[a], f) ELSE val[a]]
           moved == Moved(b, new, b.stake, {})
           d == ForceUnstakeMaxPaused(b, h)
<1>0. f \in Nat /\ f > h /\ f # h /\ f # 0
  BY BlocksPositive DEF Heights
<1> HIDE DEF f
<1>1. val \in [Address -> Rec]
  BY TidyRecords
<1>2. ASSUME NEW a \in Address
      PROVE  /\ new[a] \in Rec /\ Allowed(val[a], new[a], h) /\ (val[a] = NULL <=> new[a] = NULL)
             /\ forced(a) => new[a].unstaking = f /\ new[a].paused = 0
  <2>1. CASE forced(a)
    <3>1. val[a] \in Validator /\ val[a].unstaking = 0
      BY <2>1, <1>1 DEF Rec
    <3>2. new[a] = Unstaked(val[a], f)
      BY <2>1
    <3>3. Unstaked(val[a], f) \in Validator /\ Unstaked(val[a], f).unstaking = f
          /\ Unstaked(val[a], f).paused = 0
      BY <3>1, <1>0 DEF Validator, Unstaked
    <3> QED BY <3>1, <3>2, <3>3, <1>0, NoValidatorAssumption DEF Allowed, Rec
  <2>2. CASE ~forced(a)
    BY <2>2, <1>1 DEF Allowed, Rec
  <2> QED BY <2>1, <2>2
<1>3. new \in [Address -> Rec]
  BY <1>2
<1>4. \A a \in Address : ~forced(a) => new[a] = val[a]
  OBVIOUS
<1>5. \A a \in Address : val[a] # NULL /\ val[a].paused # 0 /\ ~forced(a) => val[a].paused # h
  <2>1. HasKeys(Timers(b), h)
    BY DEF Tidy
  <2> QED BY <2>1 DEF HasKeys, Timers, IsPaused, IsUnstaking
<1> HIDE DEF forced, new
<1>6. moved.validator = new /\ Follows(b, moved) /\ Timers(moved) \in Tidy(h, S)
  BY <1>2, <1>3, MovedFields, MovedTidy
<1> HIDE DEF moved
<1>7. \A a \in Address : IsPaused(new[a]) => new[a].paused # h
  BY <1>2, <1>4, <1>5 DEF IsPaused
<1>8. /\ d.validator = moved.validator /\ d.unstakingKeys = moved.unstakingKeys
      /\ d.pausedKeys = {k \in moved.pausedKeys : k[1] # h}
  BY DEF ForceUnstakeMaxPaused, Moved, moved, new, forced, f
<1> HIDE DEF d
<1>9. \A a \in Address : <<h, a>> \in b.unstakingKeys <=> <<h, a>> \in moved.unstakingKeys
  <2>1. \A a \in Address : IsUnstaking(new[a]) /\ (val[a] = NULL \/ val[a].unstaking # new[a].unstaking)
                             => new[a].unstaking # h
    BY <1>0, <1>2, <1>4 DEF IsUnstaking
  <2>2. moved.unstakingKeys = UnstakingKeysAfter(b.unstakingKeys, val, new)
    BY <1>6 DEF Follows
  <2> QED BY <2>1, <2>2 DEF UnstakingKeysAfter
<1>10. Timers(d) \in Tidy(h, S)
  <2>1. HasKeys(Timers(moved), h) /\ HasRecords(Timers(moved), h, S)
        /\ moved.unstakingKeys \subseteq Keys /\ moved.pausedKeys \subseteq Keys
    BY <1>6 DEF Tidy, Timers
  <2>2. HasRecords(Timers(d), h, S)
    BY <2>1, <1>8 DEF HasRecords, Timers
  <2>3. HasKeys(Timers(d), h)
    BY <2>1, <1>6, <1>7, <1>8 DEF HasKeys, Timers
  <2> QED BY <2>1, <2>2, <2>3, <1>3, <1>6, <1>8 DEF Tidy, Timers
<1> QED BY <1>2, <1>6, <1>7, <1>8, <1>9, <1>10 DEF d

\* Whose height has come is removed with its keys, and nobody else.
LEMMA DeletedTidy ==
  ASSUME NEW h \in Heights, NEW S, NEW b, Timers(b) \in Tidy(h, S),
         \A a \in Address : IsPaused(b.validator[a]) => b.validator[a].paused # h
  PROVE  LET d == DeleteFinishedUnstaking(b, h)
         IN /\ Timers(d) \in Tidy(h + 1, S)
            /\ \A a \in Address : d.validator[a] = IF <<h, a>> \in b.unstakingKeys THEN NULL
                                                   ELSE b.validator[a]
<1> DEFINE val == b.validator
           due == Due(b, h)
           new == [a \in Address |-> IF a \in due THEN NULL ELSE val[a]]
           d == DeleteFinishedUnstaking(b, h)
<1>0. h \in Nat
  BY DEF Heights
<1>1. /\ val \in [Address -> Rec] /\ b.unstakingKeys \subseteq Keys /\ b.pausedKeys \subseteq Keys
      /\ HasKeys(Timers(b), h) /\ HasRecords(Timers(b), h, S)
  BY DEF Tidy, Timers
<1>2. \A a \in Address : a \in due <=> <<h, a>> \in b.unstakingKeys
  BY DEF Due
<1>3. d.validator = new
  BY DEF DeleteFinishedUnstaking, Moved
<1> HIDE DEF due
<1>4. d.unstakingKeys = {k \in UnstakingKeysAfter(b.unstakingKeys, val, new) : k[1] # h}
      /\ d.pausedKeys = PausedKeysAfter(b.pausedKeys, val, new)
  BY DEF DeleteFinishedUnstaking, Moved, due
<1>5. \A a \in Address : new[a] = NULL \/ new[a] = val[a]
  OBVIOUS
<1>6. new \in [Address -> Rec] /\ \A a \in Address : a \in due <=> (new[a] = NULL /\ a \in due)
  BY <1>1 DEF Rec
<1>7. UnstakingKeysAfter(b.unstakingKeys, val, new) = b.unstakingKeys
  BY <1>5 DEF UnstakingKeysAfter, IsUnstaking
<1>8. \A a \in Address : new[a] # NULL => a \notin due /\ new[a] = val[a]
  OBVIOUS
<1>9. \A a \in Address : a \notin due => new[a] = val[a]
  OBVIOUS
<1> HIDE DEF new, d
<1>10. d.pausedKeys \subseteq Keys
  <2>1. \A a \in Address : new[a] # NULL => <<new[a].paused, a>> \in Keys
    BY <1>6 DEF Rec, Validator, Keys
  <2> QED BY <2>1, <1>1, <1>4 DEF PausedKeysAfter, IsPaused
<1>11. HasKeys(Timers(d), h + 1)
  <2>1. ASSUME NEW a \in Address, IsUnstaking(new[a])
        PROVE  <<new[a].unstaking, a>> \in d.unstakingKeys /\ new[a].unstaking >= h + 1
               /\ ~IsPaused(new[a])
    <3>1. a \notin due /\ new[a] = val[a] /\ IsUnstaking(val[a])
      BY <2>1, <1>8 DEF IsUnstaking
    <3>2. /\ <<val[a].unstaking, a>> \in b.unstakingKeys /\ val[a].unstaking >= h
          /\ ~IsPaused(val[a])
      BY <3>1, <1>1 DEF HasKeys, Timers
    <3>3. val[a].unstaking # h
      BY <3>1, <3>2, <1>2
    <3>4. val[a].unstaking \in Nat
      BY <3>1, <1>1 DEF Rec, Validator, IsUnstaking
    <3>5. val[a].unstaking >= h + 1
      BY <3>2, <3>3, <3>4, <1>0
    <3>6. <<val[a].unstaking, a>> \in d.unstakingKeys
      BY <3>2, <3>3, <1>4, <1>7
    <3> QED BY <3>1, <3>2, <3>5, <3>6
  <2>2. ASSUME NEW a \in Address, IsPaused(new[a])
        PROVE  <<new[a].paused, a>> \in d.pausedKeys /\ new[a].paused >= h + 1
    <3>1. new[a] = val[a] /\ IsPaused(val[a])
      BY <2>2, <1>8 DEF IsPaused
    <3>2. val[a].paused >= h /\ val[a].paused # h
      BY <3>1, <1>1 DEF HasKeys, Timers
    <3>3. val[a].paused \in Nat
      BY <3>1, <1>1 DEF Rec, Validator, IsPaused
    <3>4. val[a].paused >= h + 1
      BY <3>2, <3>3, <1>0
    <3>5. <<new[a].paused, a>> \in d.pausedKeys
      BY <2>2, <1>4 DEF PausedKeysAfter
    <3> QED BY <3>1, <3>4, <3>5
  <2> QED BY <2>1, <2>2, <1>3 DEF HasKeys, Timers
<1>12. HasRecords(Timers(d), h + 1, S)
  <2> SUFFICES ASSUME NEW k \in d.unstakingKeys, k[2] \notin S
               PROVE  IsUnstaking(new[k[2]]) /\ new[k[2]].unstaking = k[1] /\ k[1] >= h + 1
    BY <1>3 DEF HasRecords, Timers
  <2> DEFINE a == k[2]
  <2>1. k \in b.unstakingKeys /\ k[1] # h /\ a \in Address /\ k[1] \in Nat
    BY <1>1, <1>4, <1>7 DEF Keys
  <2>2. IsUnstaking(val[a]) /\ val[a].unstaking = k[1] /\ k[1] >= h
    BY <2>1, <1>1 DEF HasRecords, Timers
  <2>3. a \notin due
    <3>1. SUFFICES ASSUME <<h, a>> \in b.unstakingKeys PROVE FALSE
      BY <1>2, <2>1
    <3>2. val[a].unstaking = h
      BY <3>1, <1>1 DEF HasRecords, Timers
    <3> QED BY <3>2, <2>1, <2>2
  <2>4. new[a] = val[a]
    BY <1>9, <2>1, <2>3
  <2>5. k[1] >= h + 1
    BY <2>1, <2>2, <1>0
  <2> QED BY <2>2, <2>4, <2>5
<1>13. Timers(d) \in Tidy(h + 1, S)
  BY <1>1, <1>3, <1>4, <1>6, <1>7, <1>10, <1>11, <1>12 DEF Tidy, Timers
<1>14. \A a \in Address : new[a] = IF <<h, a>> \in b.unstakingKeys THEN NULL ELSE val[a]
  BY <1>2 DEF new
<1> QED BY <1>3, <1>13, <1>14 DEF d

-----------------------------------------------------------------------------
\* Addresses that have no key need no excuse.
LEMMA KeylessTidy ==
  ASSUME NEW h, NEW S, NEW T, NEW t \in Tidy(h, T),
         \A k \in t.unstakingKeys : k[2] \in T => k[2] \in S
  PROVE  t \in Tidy(h, S)
BY DEF Tidy, HasRecords

\* What HandleByzantine does to a book.
LEMMA PunishedTidy ==
  ASSUME Inv, NEW STATE book, Timers(book) \in Tidy(height, orphaned),
         NEW c, NEW report
  PROVE  Timers(Punished(book, c, report)) \in
           Tidy(height, orphaned \cup {a \in Address : book.validator[a] # NULL
                                         /\ Punished(book, c, report).validator[a] = NULL})
<1> DEFINE bad == {a \in Address : Count(a, c) > Param.maxNonSign}
           b0 == PauseAll(book, bad, c, scoped, height)
           b1 == SlashAll(b0, bad, c, Param.nonSignSlash, scoped, height)
           b2 == IF AtWindowEnd THEN b1 ELSE book
           b3 == SlashAll(b2, report.double, c, Param.doubleSignSlash, scoped, height)
           T == orphaned \cup {a \in Address : book.validator[a] # NULL /\ b3.validator[a] = NULL}
<1>1. Punished(book, c, report) = b3
  BY DEF Punished, Settled
<1>2. height \in Heights
  BY DEF Inv
<1> HIDE DEF bad
<1>3. /\ Timers(b0) \in Tidy(height, orphaned)
      /\ \A a \in Address : book.validator[a] = NULL <=> b0.validator[a] = NULL
  BY <1>2, PauseAllTidy
<1> HIDE DEF b0
<1>4. \A a \in Address : b0.validator[a] = NULL => b1.validator[a] = NULL
  BY <1>2, <1>3, TidyRecords, SlashAllRecords
<1> DEFINE R == orphaned \cup {a \in Address : book.validator[a] # NULL /\ b1.validator[a] = NULL}
<1>5. Timers(b1) \in Tidy(height, R)
  <2>1. \A a \in Address : b0.validator[a] # NULL /\ b1.validator[a] = NULL => a \in R
    BY <1>3
  <2>2. orphaned \subseteq R
    OBVIOUS
  <2> HIDE DEF R
  <2> QED BY <1>2, <1>3, <2>1, <2>2, SlashAllTidy
<1> HIDE DEF b1
<1>6. /\ Timers(b2) \in Tidy(height, orphaned \cup {a \in Address : book.validator[a] # NULL
                                                     /\ b2.validator[a] = NULL})
      /\ \A a \in Address : book.validator[a] = NULL => b2.validator[a] = NULL
  <2>1. CASE AtWindowEnd
    BY <2>1, <1>3, <1>4, <1>5
  <2>2. CASE ~AtWindowEnd
    <3>1. {a \in Address : book.validator[a] # NULL /\ b2.validator[a] = NULL} = {}
      BY <2>2
    <3> QED BY <2>2, <3>1
  <2> QED BY <2>1, <2>2
<1> HIDE DEF b2
<1>7. \A a \in Address : b2.validator[a] = NULL => b3.validator[a] = NULL
  BY <1>2, <1>6, TidyRecords, SlashAllRecords
<1> DEFINE R2 == orphaned \cup {a \in Address : book.validator[a] # NULL /\ b2.validator[a] = NULL}
<1>8. Timers(b3) \in Tidy(height, T)
  <2>1. \A a \in Address : b2.validator[a] # NULL /\ b3.validator[a] = NULL => a \in T
    BY <1>6
  <2>2. R2 \subseteq T /\ Timers(b2) \in Tidy(height, R2)
    BY <1>6, <1>7
  <2> HIDE DEF T, R2
  <2> QED BY <1>2, <2>1, <2>2, SlashAllTidy
<1> QED BY <1>1, <1>8

LEMMA CertifiedInv ==
  ASSUME Inv, height' = height, NEW STATE book, Timers(book) = Timers(Book),
         NEW c, NEW report, Certified(book, c, report)
  PROVE  Inv'
<1> DEFINE after == Punished(book, c, report)
           T == orphaned \cup {a \in Address : book.validator[a] # NULL /\ after.validator[a] = NULL}
<1>1. Timers(after) \in Tidy(height, T)
  BY PunishedTidy DEF Inv
<1>2. book.validator = validator
  BY DEF Timers, Book
<1>3. orphaned' = orphaned \cup {a \in Address : validator[a] # NULL /\ after.validator[a] = NULL
                                  /\ \E k \in after.unstakingKeys \cup after.pausedKeys : k[2] = a}
      /\ Timers(Book)' = Timers(after)
  BY DEF Certified, BookBecomes, Timers, Book
<1> HIDE DEF after
<1>4. \A k \in Timers(after).unstakingKeys : k[2] \in T => k[2] \in orphaned'
  BY <1>2, <1>3 DEF Timers
<1> HIDE DEF T
<1>5. Timers(after) \in Tidy(height, orphaned')
  BY <1>1, <1>4, KeylessTidy
<1> QED BY <1>3, <1>5 DEF Inv

LEMMA BecomeInv ==
  ASSUME Inv, height' = height, NEW a \in Address, NEW STATE v, NEW STATE added,
         v \in Validator, Allowed(validator[a], v, height), Become(a, v, added)
  PROVE  Inv'
<1> DEFINE new == [validator EXCEPT ![a] = v]
           stk == [stake EXCEPT ![a] = @ + added]
           b == Book
           d == Moved(b, new, stk, {})
<1>1. height \in Heights /\ Timers(b) \in Tidy(height, orphaned) /\ b.validator = validator
  BY DEF Inv, Book
<1>2. validator \in [Address -> Rec]
  BY <1>1, TidyRecords
<1>3. new \in [Address -> Rec] /\ new[a] = v /\ \A x \in Address \ {a} : new[x] = validator[x]
  BY <1>2 DEF Rec
<1>4. \A x \in Address : /\ Allowed(validator[x], new[x], height)
                         /\ validator[x] # NULL => new[x] # NULL
  <2>1. \A x \in Address \ {a} : Allowed(validator[x], new[x], height)
    BY <1>3 DEF Allowed
  <2> QED BY <2>1, <1>3, NoValidatorAssumption
<1>5. orphaned' = orphaned /\ Timers(Book)' = Timers(d)
  BY DEF Become, BookBecomes, Timers, Book
<1> HIDE DEF new, stk, b
<1>6. Timers(d) \in Tidy(height, orphaned)
  BY <1>1, <1>3, <1>4, MovedTidy
<1> QED BY <1>1, <1>5, <1>6 DEF Inv

\* A step that leaves records, keys and heights alone.
LEMMA UnchangedInv ==
  ASSUME Inv, UNCHANGED <<height, validator, unstakingKeys, pausedKeys, orphaned>>
  PROVE  Inv'
<1>1. Timers(Book)' = Timers(Book)
  BY DEF Timers, Book
<1> QED BY <1>1 DEF Inv

\* The end of a block: whose height has come is removed, and nobody else.
LEMMA EndBlockReleases ==
  ASSUME Inv, EndBlock
  PROVE  /\ Inv' /\ height' = height + 1
         /\ \A a \in Address : validator'[a] = NULL <=>
                                 validator[a] = NULL \/ <<height, a>> \in unstakingKeys
<1> DEFINE paid == Rewarded
           forced == ForceUnstakeMaxPaused(paid, height)
           freed == DeleteFinishedUnstaking(forced, height)
           stk == [a \in Address |-> IF Compounds(a) THEN stake[a] + RewardOf(a) ELSE stake[a]]
           moved == Moved(Book, validator, stk, {})
<1>1. height \in Heights /\ Timers(Book) \in Tidy(height, orphaned) /\ Book.validator = validator
      /\ Book.unstakingKeys = unstakingKeys
  BY DEF Inv, Book
<1>2. validator \in [Address -> Rec]
  BY <1>1, TidyRecords
<1>3. \A a \in Address : Allowed(validator[a], validator[a], height)
  BY DEF Allowed
<1>4. Timers(paid) = Timers(moved)
  BY DEF Rewarded, Moved, Timers
<1> HIDE DEF stk, paid
<1>5. moved.validator = validator /\ Follows(Book, moved)
  BY MovedFields
<1>6. moved.unstakingKeys = unstakingKeys
  BY <1>1, <1>5 DEF Follows, UnstakingKeysAfter, IsUnstaking
<1>7. Timers(moved) \in Tidy(height, orphaned)
  BY <1>1, <1>2, <1>3, MovedTidy
<1>8. Timers(paid) \in Tidy(height, orphaned) /\ paid.validator = validator
      /\ paid.unstakingKeys = unstakingKeys
  <2> HIDE DEF moved
  <2> QED BY <1>4, <1>5, <1>6, <1>7 DEF Timers
<1>9. /\ Timers(forced) \in Tidy(height, orphaned)
      /\ \A a \in Address : IsPaused(forced.validator[a]) => forced.validator[a].paused # height
      /\ \A a \in Address : validator[a] = NULL <=> forced.validator[a] = NULL
      /\ \A a \in Address : <<height, a>> \in unstakingKeys <=> <<height, a>> \in forced.unstakingKeys
  BY <1>1, <1>8, ForcedTidy
<1> HIDE DEF forced
<1>10. /\ Timers(freed) \in Tidy(height + 1, orphaned)
       /\ \A a \in Address : freed.validator[a] = IF <<height, a>> \in forced.unstakingKeys
                                                  THEN NULL ELSE forced.validator[a]
  BY <1>1, <1>9, DeletedTidy
<1>11. /\ Timers(Book)' = Timers(freed) /\ validator' = freed.validator
       /\ orphaned' = orphaned /\ height' = height + 1
  <2>1. BookBecomes([freed EXCEPT !.slashed = Unslashed]) /\ orphaned' = orphaned
        /\ height' = height + 1
    BY DEF EndBlock, freed, forced, paid
  <2>2. \A x : LET e == [freed EXCEPT !.slashed = x]
               IN /\ e.validator = freed.validator /\ e.unstakingKeys = freed.unstakingKeys
                  /\ e.pausedKeys = freed.pausedKeys
    BY DEF DeleteFinishedUnstaking, Moved
  <2> HIDE DEF freed
  <2> QED BY <2>1, <2>2 DEF BookBecomes, Timers, Book
<1> HIDE DEF freed
<1>12. height + 1 \in Heights
  BY <1>1 DEF Heights
<1>13. Inv'
  BY <1>10, <1>11, <1>12 DEF Inv
<1> QED BY <1>9, <1>10, <1>11, <1>13

LEMMA InitInv == Init => Inv
<1> SUFFICES ASSUME Init PROVE Inv
  OBVIOUS
<1> DEFINE d == Moved(NoBook, Genesis.validator, Genesis.stake, {})
           new == Genesis.validator
           b == NoBook
<1>1. b.validator = [a \in Address |-> NULL] /\ b.unstakingKeys = {} /\ b.pausedKeys = {}
  BY DEF NoBook
<1>2. new \in [Address -> Rec] /\ \A a \in Address : ~IsPaused(new[a]) /\ ~IsUnstaking(new[a])
  BY StakingAssumption DEF Rec
<1> HIDE DEF b, new
<1>3. Timers(b) \in Tidy(1, {})
  BY <1>1 DEF Timers, Tidy, HasKeys, HasRecords, IsPaused, IsUnstaking, Rec
<1>4. \A a \in Address : Allowed(b.validator[a], new[a], 1)
  BY <1>1, <1>2 DEF Allowed, IsPaused, IsUnstaking
<1>5. \A a \in Address : b.validator[a] = NULL
  BY <1>1
<1>6. 1 \in Heights
  BY DEF Heights
<1> DEFINE e == Moved(b, new, Genesis.stake, {})
<1>7. Timers(e) \in Tidy(1, {})
  BY <1>2, <1>3, <1>4, <1>5, <1>6, MovedTidy
<1>8. d = e
  BY DEF b, new
<1>9. height = 1 /\ orphaned = {} /\ Timers(Book) = Timers(d)
  BY DEF Init, Timers, Book
<1> HIDE DEF d, e
<1> QED BY <1>6, <1>7, <1>8, <1>9 DEF Inv

LEMMA BeginBlockInv == Inv /\ BeginBlock => Inv'
<1> SUFFICES ASSUME Inv, BeginBlock PROVE Inv'
  OBVIOUS
<1>1. height' = height
  BY DEF BeginBlock
<1>2. Timers(Funded) = Timers(Book)
  BY DEF Funded, Timers, Book
<1>3. CASE UNCHANGED <<books, pool, nonSigner, data, orphaned>>
  BY <1>1, <1>3, UnchangedInv DEF books
<1>4. CASE BookBecomes(Funded) /\ UNCHANGED <<nonSigner, data, orphaned>>
  <2>1. UNCHANGED <<validator, unstakingKeys, pausedKeys>>
    BY <1>4 DEF BookBecomes, Funded, Book
  <2> QED BY <1>1, <1>4, <2>1, UnchangedInv
<1>5. CASE \E report \in Report : Certified(Funded, Own, report)
  BY <1>1, <1>2, <1>5, CertifiedInv
<1> QED BY <1>3, <1>4, <1>5 DEF BeginBlock

LEMMA TransactionInv ==
  ASSUME Inv, NEW a \in Address,
         \/ \E offer \in Offer : Stake(a, offer) \/ EditStake(a, offer)
         \/ Unstake(a) \/ Pause(a) \/ Unpause(a)
  PROVE  Inv'
<1>1. height \in Heights /\ validator \in [Address -> Rec]
  <2>1. Book.validator = validator
    BY DEF Book
  <2> QED BY <2>1, TidyRecords DEF Inv
<1>2. validator[a] # NULL => validator[a] \in Validator
  BY <1>1 DEF Rec
<1>3. ASSUME NEW offer \in Offer, Stake(a, offer)
      PROVE  Inv'
  <2> DEFINE v == [committees |-> offer.committees, delegate |-> offer.delegate,
                   compound |-> offer.compound, paused |-> 0, unstaking |-> 0]
  <2>1. height' = height /\ validator[a] = NULL /\ Become(a, v, offer.amount)
    BY <1>3 DEF Stake, Transaction
  <2>2. v \in Validator /\ v.unstaking = 0 /\ v.paused = 0
    BY StakingAssumption DEF Validator
  <2>3. Allowed(validator[a], v, height)
    BY <2>1, <2>2 DEF Allowed
  <2> HIDE DEF v
  <2> QED BY <2>1, <2>2, <2>3, BecomeInv
<1>4. ASSUME NEW offer \in Offer, EditStake(a, offer)
      PROVE  Inv'
  <2> DEFINE v == [validator[a] EXCEPT !.committees = offer.committees,
                                       !.compound = offer.compound]
             added == IF offer.amount > stake[a] THEN offer.amount - stake[a] ELSE 0
  <2>1. height' = height /\ validator[a] # NULL /\ Become(a, v, added)
    BY <1>4 DEF EditStake, Transaction
  <2>2. offer.committees \in SUBSET Chain /\ offer.compound \in BOOLEAN
    BY StakingAssumption
  <2>3. v \in Validator /\ v.unstaking = validator[a].unstaking /\ v.paused = validator[a].paused
    BY <1>2, <2>1, <2>2 DEF Validator
  <2>4. Allowed(validator[a], v, height)
    BY <2>1, <2>3 DEF Allowed
  <2> HIDE DEF v, added
  <2> QED BY <2>1, <2>3, <2>4, BecomeInv
<1>5. ASSUME Unstake(a)
      PROVE  Inv'
  <2> DEFINE f == height + UnstakingBlocks(validator[a].delegate)
             v == Unstaked(validator[a], f)
  <2>1. height' = height /\ validator[a] # NULL /\ Become(a, v, 0)
    BY <1>5 DEF Unstake, Transaction, BeginUnstaking
  <2>2. validator[a].unstaking = 0
    BY <1>5 DEF Unstake, IsUnstaking
  <2>3. f \in Nat /\ f > height
    BY <1>1, BlocksPositive DEF Heights
  <2> HIDE DEF f
  <2>4. v \in Validator /\ v.unstaking = f /\ v.paused = 0
    BY <1>2, <2>1, <2>3 DEF Validator, Unstaked
  <2>5. Allowed(validator[a], v, height)
    BY <2>1, <2>2, <2>3, <2>4 DEF Allowed
  <2> HIDE DEF v
  <2> QED BY <2>1, <2>4, <2>5, BecomeInv
<1>6. ASSUME Pause(a)
      PROVE  Inv'
  <2> DEFINE p == height + Param.maxPauseBlocks
             v == [validator[a] EXCEPT !.paused = p]
  <2>1. height' = height /\ validator[a] # NULL /\ Become(a, v, 0)
        /\ validator[a].unstaking = 0
    BY <1>6 DEF Pause, Transaction, CanPause
  <2>2. p \in Nat /\ p > height
    BY <1>1, BlocksPositive DEF Heights
  <2> HIDE DEF p
  <2>3. v \in Validator /\ v.unstaking = 0 /\ v.paused = p
    BY <1>2, <2>1, <2>2 DEF Validator
  <2>4. Allowed(validator[a], v, height)
    BY <2>1, <2>2, <2>3 DEF Allowed
  <2> HIDE DEF v
  <2> QED BY <2>1, <2>3, <2>4, BecomeInv
<1>7. ASSUME Unpause(a)
      PROVE  Inv'
  <2> DEFINE v == [validator[a] EXCEPT !.paused = 0]
  <2>1. height' = height /\ validator[a] # NULL /\ Become(a, v, 0)
        /\ validator[a].unstaking = 0
    BY <1>7 DEF Unpause, Transaction, IsPaused, IsUnstaking
  <2>2. v \in Validator /\ v.unstaking = 0 /\ v.paused = 0
    BY <1>2, <2>1 DEF Validator
  <2>3. Allowed(validator[a], v, height)
    BY <2>1, <2>2 DEF Allowed
  <2> HIDE DEF v
  <2> QED BY <2>1, <2>2, <2>3, BecomeInv
<1> QED BY <1>3, <1>4, <1>5, <1>6, <1>7

LEMMA StepInv == Inv /\ [Next]_vars => Inv'
<1> SUFFICES ASSUME Inv, [Next]_vars PROVE Inv'
  OBVIOUS
<1>1. CASE BeginBlock
  BY <1>1, BeginBlockInv
<1>2. CASE \E c \in Chain, report \in Report : Certificate(c, report)
  <2> PICK c \in Chain, report \in Report : Certificate(c, report)
    BY <1>2
  <2>1. height' = height /\ Certified(Book, c, report)
    BY DEF Certificate, Transaction
  <2> QED BY <2>1, CertifiedInv
<1>3. CASE \E a \in Address : \/ \E offer \in Offer : Stake(a, offer) \/ EditStake(a, offer)
                              \/ Unstake(a) \/ Pause(a) \/ Unpause(a)
  BY <1>3, TransactionInv
<1>4. CASE EndBlock
  BY <1>4, EndBlockReleases
<1>5. CASE UNCHANGED vars
  BY <1>5, UnchangedInv DEF vars, books
<1> QED BY <1>1, <1>2, <1>3, <1>4, <1>5 DEF Next

-----------------------------------------------------------------------------
\* Records and keys of validators tell the same, in every history of staking
\* messages, certificates and blocks.
THEOREM KeysAlwaysTidy == Spec => []Inv
BY InitInv, StepInv, PTL DEF Spec

\* Whoever is unstaking or paused has a key at a height that is not over, and
\* nobody is both: no validator is left in between for good.
THEOREM NobodyEverForgotten == Spec => []NobodyForgotten
<1>1. Inv => NobodyForgotten
  BY DEF Inv, Tidy, HasKeys, Timers, Book, NobodyForgotten
<1> QED BY <1>1, KeysAlwaysTidy, PTL

\* The end of a block releases exactly whose height has come.
THEOREM AlwaysReleasedWhenDue == Spec => ReleasedWhenDue
<1> DEFINE Released == height' # height =>
             \A a \in Address \ orphaned :
               validator[a] # NULL => (validator'[a] = NULL <=> validator[a].unstaking = height)
<1>1. Inv /\ [Next]_vars => [Released]_vars
  <2> SUFFICES ASSUME Inv, Next, height' # height,
                      NEW a \in Address \ orphaned, validator[a] # NULL
               PROVE  validator'[a] = NULL <=> validator[a].unstaking = height
    OBVIOUS
  <2>1. EndBlock
    BY DEF Next, BeginBlock, Certificate, Stake, EditStake, Unstake, Pause, Unpause, Transaction
  <2>2. validator'[a] = NULL <=> <<height, a>> \in unstakingKeys
    BY <2>1, EndBlockReleases
  <2>3. height # 0 /\ HasKeys(Timers(Book), height) /\ HasRecords(Timers(Book), height, orphaned)
    BY DEF Inv, Tidy, Heights
  <2>4. validator[a].unstaking = height => <<height, a>> \in unstakingKeys
    BY <2>3 DEF HasKeys, Timers, Book, IsUnstaking
  <2>5. <<height, a>> \in unstakingKeys => validator[a].unstaking = height
    BY <2>3 DEF HasRecords, Timers, Book
  <2> QED BY <2>2, <2>4, <2>5
<1>2. Spec => [][Released]_vars
  BY <1>1, KeysAlwaysTidy, PTL DEF Spec
<1> QED BY <1>2 DEF ReleasedWhenDue

-----------------------------------------------------------------------------
(* What the supply tracker follows. *)

Supply == [total : Int, staked : Int, delegated : Int,
           committee : [Chain -> Int], committeeDelegated : [Chain -> Int]]

\* Stakes are amounts, and who has no record has none.
Stakes(validators, stakes) ==
  /\ validators \in [Address -> Rec]
  /\ stakes \in [Address -> Nat]
  /\ \A a \in Address : validators[a] = NULL => stakes[a] = 0

Figures(b) ==
  /\ Stakes(b.validator, b.stake)
  /\ b.supply \in Supply
  /\ b.slashed \in [Address -> [Chain -> 0 .. Param.maxSlashPerCommittee]]

ForCommittee(b, c) == [a \in Address |-> StakeFor(b, a, c)]

\* The part of a function that is about delegates.
OfDelegates(validators, f) == [a \in Address |-> IF IsDelegate(validators[a]) THEN f[a] ELSE 0]

\* The figures of the tracker are those of the records: the ones of delegates are
\* not less.
Tallied(b) ==
  /\ b.supply.staked = SumOver(b.stake, Address)
  /\ b.supply.delegated >= SumOver(OfDelegates(b.validator, b.stake), Address)
  /\ \A c \in Chain :
       /\ b.supply.committee[c] = SumOver(ForCommittee(b, c), Address)
       /\ b.supply.committeeDelegated[c]
            >= SumOver(OfDelegates(b.validator, ForCommittee(b, c)), Address)

\* What the tracker holds that is not staked.
Unstaken(b) == b.supply.total - SumOver(b.stake, Address)

\* A figure that follows exactly.
LEMMA FollowedExactly ==
  ASSUME NEW f, NEW g, NEW S, IsFiniteSet(S), \A x \in S : f[x] \in Int, \A x \in S : g[x] \in Int
  PROVE  /\ SumOver(f, S) \in Int /\ SumOver(g, S) \in Int
         /\ SumOver(f, S) + SumOver([x \in S |-> g[x] - f[x]], S) = SumOver(g, S)
<1> DEFINE h == [x \in S |-> g[x] - f[x]]
<1>1. \A x \in S : h[x] = g[x] - f[x]
  OBVIOUS
<1> HIDE DEF h
<1>2. /\ SumOver(f, S) \in Int /\ SumOver(g, S) \in Int
      /\ SumOver(h, S) = SumOver(g, S) - SumOver(f, S)
  BY <1>1, SumMinus
<1>3. SumOver(f, S) + SumOver(h, S) = SumOver(g, S)
  BY <1>2
<1> QED BY <1>2, <1>3 DEF h

\* A figure of a part p of each summand, that follows for those in T: a part that
\* is not followed does not grow.
LEMMA FollowedAtLeast ==
  ASSUME NEW S, IsFiniteSet(S), NEW T, T \subseteq S, NEW f, NEW g, NEW p, NEW q,
         \A x \in S : f[x] \in Int, \A x \in S : g[x] \in Int,
         \A x \in S : p[x] \in Int, \A x \in S : q[x] \in Int,
         \A x \in T : q[x] - p[x] <= g[x] - f[x],
         \A x \in S \ T : q[x] <= p[x],
         NEW n \in Int, n >= SumOver(p, S)
  PROVE  /\ n + SumOver([x \in T |-> g[x] - f[x]], T) \in Int
         /\ n + SumOver([x \in T |-> g[x] - f[x]], T) >= SumOver(q, S)
<1> DEFINE d == [x \in T |-> g[x] - f[x]]
           h == [x \in S |-> IF x \in T THEN g[x] - f[x] ELSE 0]
           k == [x \in S |-> q[x] - p[x]]
<1>1. /\ \A x \in T : d[x] \in Int
      /\ \A x \in T : h[x] = d[x]
      /\ \A x \in S \ T : h[x] = 0
      /\ \A x \in S : h[x] \in Int
      /\ \A x \in S : k[x] = q[x] - p[x]
      /\ \A x \in S : k[x] \in Int
      /\ \A x \in S : k[x] <= h[x]
  OBVIOUS
<1> HIDE DEF d, h, k
<1>2. SumOver(h, S) = SumOver(d, T)
  BY <1>1, SumWhere
<1>3. SumOver(k, S) <= SumOver(h, S)
  BY <1>1, SumMonotone
<1>4. /\ SumOver(p, S) \in Int /\ SumOver(q, S) \in Int
      /\ SumOver(k, S) = SumOver(q, S) - SumOver(p, S)
  BY <1>1, SumMinus
<1>5. SumOver(h, S) \in Int
  BY <1>1, SumInt
<1>6. n + SumOver(d, T) \in Int /\ n + SumOver(d, T) >= SumOver(q, S)
  BY <1>2, <1>3, <1>4, <1>5
<1> QED BY <1>6 DEF d

-----------------------------------------------------------------------------
\* Records stay of delegates or of validators.
Steady(validators, new) ==
  \A a \in Address : validators[a] # NULL /\ new[a] # NULL
                       => new[a].delegate = validators[a].delegate

\* Who is not followed among the delegates has less than before.
Shrinks(b, new, stk, untracked) ==
  \A a \in Address \cap untracked :
     /\ b.validator[a] # NULL /\ new[a] # NULL
     /\ stk[a] <= b.stake[a]
     /\ new[a].committees \subseteq b.validator[a].committees

LEMMA StakeForInt ==
  ASSUME NEW b, Stakes(b.validator, b.stake), NEW a \in Address, NEW c
  PROVE  StakeFor(b, a, c) \in Nat
BY DEF Stakes, StakeFor

\* How the stake of one address and its part for a committee follow.
LEMMA OneFollowed ==
  ASSUME NEW b, NEW d, Stakes(b.validator, b.stake), Stakes(d.validator, d.stake),
         Steady(b.validator, d.validator), NEW U,
         Shrinks(b, d.validator, d.stake, U), NEW a \in Address, NEW c
  PROVE  LET old == b.validator
             new == d.validator
             D == {x \in Address : IsDelegate(old[x]) \/ IsDelegate(new[x])} \ U
             part(v, n) == IF IsDelegate(v) THEN n ELSE 0
         IN /\ a \in D =>
                 /\ part(new[a], d.stake[a]) - part(old[a], b.stake[a]) <= d.stake[a] - b.stake[a]
                 /\ part(new[a], StakeFor(d, a, c)) - part(old[a], StakeFor(b, a, c))
                      <= StakeFor(d, a, c) - StakeFor(b, a, c)
            /\ a \notin D =>
                 /\ part(new[a], d.stake[a]) <= part(old[a], b.stake[a])
                 /\ part(new[a], StakeFor(d, a, c)) <= part(old[a], StakeFor(b, a, c))
<1> DEFINE v == b.validator[a]
           w == d.validator[a]
           m == b.stake[a]
           n == d.stake[a]
           x == StakeFor(b, a, c)
           y == StakeFor(d, a, c)
<1>1. /\ m \in Nat /\ n \in Nat /\ x \in Nat /\ y \in Nat
      /\ v = NULL => m = 0 /\ x = 0
      /\ w = NULL => n = 0 /\ y = 0
  BY StakeForInt DEF Stakes, StakeFor
<1>2. v # NULL /\ w # NULL => (IsDelegate(v) <=> IsDelegate(w))
  BY DEF Steady, IsDelegate, Stakes, Rec, Validator
<1>3. (IsDelegate(v) => v # NULL) /\ (IsDelegate(w) => w # NULL)
  BY DEF IsDelegate
<1>4. a \in U => v # NULL /\ w # NULL /\ n <= m /\ y <= x
  <2> SUFFICES ASSUME a \in U PROVE v # NULL /\ w # NULL /\ n <= m /\ y <= x
    OBVIOUS
  <2>1. v # NULL /\ w # NULL /\ n <= m /\ w.committees \subseteq v.committees
    BY DEF Shrinks
  <2>2. y <= x
    BY <2>1, <1>1 DEF StakeFor
  <2> QED BY <2>1, <2>2
<1> HIDE DEF v, w, m, n, x, y
<1> DEFINE p(r, i) == IF IsDelegate(r) THEN i ELSE 0
<1>5. ASSUME IsDelegate(v) \/ IsDelegate(w), a \notin U
      PROVE  p(w, n) - p(v, m) <= n - m /\ p(w, y) - p(v, x) <= y - x
  BY <1>1, <1>2, <1>3, <1>5
<1>6. ASSUME ~((IsDelegate(v) \/ IsDelegate(w)) /\ a \notin U)
      PROVE  p(w, n) <= p(v, m) /\ p(w, y) <= p(v, x)
  BY <1>1, <1>2, <1>3, <1>4, <1>6
<1> QED BY <1>5, <1>6 DEF v, w, m, n, x, y

-----------------------------------------------------------------------------
LEMMA PeopleFinite == IsFiniteSet(Address) /\ IsFiniteSet(Chain)
BY AmountAssumption

\* The tracker follows what changes the records and stakes.
LEMMA TrackedTallied ==
  ASSUME NEW b, NEW d, Figures(b), Tallied(b), Stakes(d.validator, d.stake),
         Steady(b.validator, d.validator), NEW U,
         Shrinks(b, d.validator, d.stake, U),
         LET D == {x \in Address : IsDelegate(b.validator[x]) \/ IsDelegate(d.validator[x])} \ U
         IN d.supply = Tracked(b, [validator |-> d.validator, stake |-> d.stake], D)
  PROVE  Tallied(d) /\ d.supply \in Supply /\ d.supply.total = b.supply.total
<1> DEFINE old == b.validator
           new == d.validator
           D == {x \in Address : IsDelegate(old[x]) \/ IsDelegate(new[x])} \ U
           s == b.supply
           t == d.supply
           f == b.stake
           g == d.stake
           F(c) == ForCommittee(b, c)
           G(c) == ForCommittee(d, c)
           moved(x, y, S) == SumOver([a \in S |-> y[a] - x[a]], S)
<1>1. /\ t.total = s.total
      /\ t.staked = s.staked + moved(f, g, Address)
      /\ t.delegated = s.delegated + moved(f, g, D)
      /\ t.committee = [c \in Chain |-> s.committee[c]
            + SumOver([a \in Address |-> StakeFor(d, a, c) - StakeFor(b, a, c)], Address)]
      /\ t.committeeDelegated = [c \in Chain |-> s.committeeDelegated[c]
            + SumOver([a \in D |-> StakeFor(d, a, c) - StakeFor(b, a, c)], D)]
      /\ t = [total |-> t.total, staked |-> t.staked, delegated |-> t.delegated,
              committee |-> t.committee, committeeDelegated |-> t.committeeDelegated]
  <2> DEFINE e == [validator |-> d.validator, stake |-> d.stake]
  <2>1. s \in Supply
    BY DEF Figures
  <2>2. \A a, c : StakeFor(e, a, c) = StakeFor(d, a, c)
    BY DEF StakeFor
  <2>3. e.stake = d.stake
    OBVIOUS
  <2>4. t = Tracked(b, e, D)
    OBVIOUS
  <2>5. b.supply = s /\ d.stake = g /\ b.stake = f
    OBVIOUS
  <2> DEFINE A == SumOver([a \in Address |-> e.stake[a] - b.stake[a]], Address)
             B == SumOver([a \in D |-> e.stake[a] - b.stake[a]], D)
             C == [c \in Chain |-> s.committee[c]
                     + SumOver([a \in Address |-> StakeFor(e, a, c) - StakeFor(b, a, c)], Address)]
             E == [c \in Chain |-> s.committeeDelegated[c]
                     + SumOver([a \in D |-> StakeFor(e, a, c) - StakeFor(b, a, c)], D)]
  <2>6. t = [s EXCEPT !.staked = @ + A, !.committee = C, !.delegated = @ + B,
                      !.committeeDelegated = E]
    <3> HIDE DEF e, D, s, t
    <3>1. t = Tracked(b, e, D) /\ b.supply = s
      BY <2>4, <2>5
    <3> QED BY <3>1 DEF Tracked
  <2>7. /\ C = [c \in Chain |-> s.committee[c]
                 + SumOver([a \in Address |-> StakeFor(d, a, c) - StakeFor(b, a, c)], Address)]
        /\ E = [c \in Chain |-> s.committeeDelegated[c]
                 + SumOver([a \in D |-> StakeFor(d, a, c) - StakeFor(b, a, c)], D)]
    <3> HIDE DEF e, D, s
    <3> QED BY <2>2
  <2>8. A = moved(f, g, Address) /\ B = moved(f, g, D)
    <3> HIDE DEF e, D
    <3> QED BY <2>3
  <2> HIDE DEF e, D, s, t, f, g, A, B, C, E
  <2>9. /\ t.total = s.total /\ t.staked = s.staked + A /\ t.delegated = s.delegated + B
        /\ t.committee = C /\ t.committeeDelegated = E
        /\ t = [total |-> t.total, staked |-> t.staked, delegated |-> t.delegated,
                committee |-> t.committee, committeeDelegated |-> t.committeeDelegated]
    BY <2>1, <2>6 DEF Supply
  <2> QED BY <2>7, <2>8, <2>9
<1>2. /\ \A a \in Address : f[a] \in Int
      /\ \A a \in Address : g[a] \in Int
      /\ s.staked \in Int /\ s.delegated \in Int /\ s.total \in Int
      /\ s.staked = SumOver(f, Address)
      /\ s.delegated >= SumOver(OfDelegates(old, f), Address)
  BY DEF Figures, Stakes, Supply, Tallied
<1>3. ASSUME NEW c \in Chain
      PROVE  /\ \A a \in Address : F(c)[a] \in Int
             /\ \A a \in Address : G(c)[a] \in Int
             /\ s.committee[c] \in Int /\ s.committeeDelegated[c] \in Int
             /\ s.committee[c] = SumOver(F(c), Address)
             /\ s.committeeDelegated[c] >= SumOver(OfDelegates(old, F(c)), Address)
             /\ t.committee[c] = s.committee[c] + moved(F(c), G(c), Address)
             /\ t.committeeDelegated[c] = s.committeeDelegated[c] + moved(F(c), G(c), D)
  <2>1. /\ \A a \in Address : F(c)[a] \in Int
        /\ \A a \in Address : G(c)[a] \in Int
    BY StakeForInt DEF Figures, ForCommittee
  <2>2. s.committee[c] \in Int /\ s.committeeDelegated[c] \in Int
    BY DEF Figures, Supply
  <2>3. /\ s.committee[c] = SumOver(F(c), Address)
        /\ s.committeeDelegated[c] >= SumOver(OfDelegates(old, F(c)), Address)
    BY DEF Tallied
  <2>4. /\ [a \in Address |-> G(c)[a] - F(c)[a]]
              = [a \in Address |-> StakeFor(d, a, c) - StakeFor(b, a, c)]
        /\ [a \in D |-> G(c)[a] - F(c)[a]] = [a \in D |-> StakeFor(d, a, c) - StakeFor(b, a, c)]
    BY DEF ForCommittee
  <2>5. /\ t.committee[c] = s.committee[c] + moved(F(c), G(c), Address)
        /\ t.committeeDelegated[c] = s.committeeDelegated[c] + moved(F(c), G(c), D)
    <3>1. /\ t.committee[c] = s.committee[c]
                + SumOver([a \in Address |-> StakeFor(d, a, c) - StakeFor(b, a, c)], Address)
          /\ t.committeeDelegated[c] = s.committeeDelegated[c]
                + SumOver([a \in D |-> StakeFor(d, a, c) - StakeFor(b, a, c)], D)
      <4> HIDE DEF D, s, t
      <4> QED BY <1>1
    <3> HIDE DEF D, F, G, s, t
    <3> QED BY <3>1, <2>4, Zenon
  <2> HIDE DEF D, F, G, s, t
  <2> QED BY <2>1, <2>2, <2>3, <2>5
<1>4. D \subseteq Address
  OBVIOUS
<1>5. \A x : IsDelegate(x) \in BOOLEAN
  BY DEF IsDelegate
<1>6. ASSUME NEW x, NEW y, \A a \in Address : x[a] \in Int, \A a \in Address : y[a] \in Int,
             \A a \in D : OfDelegates(new, y)[a] - OfDelegates(old, x)[a] <= y[a] - x[a],
             \A a \in Address \ D : OfDelegates(new, y)[a] <= OfDelegates(old, x)[a],
             NEW n \in Int, n >= SumOver(OfDelegates(old, x), Address)
      PROVE  /\ n + moved(x, y, D) \in Int
             /\ n + moved(x, y, D) >= SumOver(OfDelegates(new, y), Address)
  <2> DEFINE p == OfDelegates(old, x)
             q == OfDelegates(new, y)
  <2>1. \A a \in Address : p[a] \in Int /\ q[a] \in Int
    BY <1>6 DEF OfDelegates
  <2>2. /\ \A a \in D : q[a] - p[a] <= y[a] - x[a]
        /\ \A a \in Address \ D : q[a] <= p[a]
        /\ n >= SumOver(p, Address)
    BY <1>6
  <2> HIDE DEF p, q, D, old, new
  <2>3. n + moved(x, y, D) \in Int /\ n + moved(x, y, D) >= SumOver(q, Address)
    BY <1>4, <1>6, <2>1, <2>2, PeopleFinite, FollowedAtLeast
  <2> QED BY <2>3 DEF q
<1>7. ASSUME NEW a \in Address, NEW c
      PROVE  /\ a \in D => /\ OfDelegates(new, g)[a] - OfDelegates(old, f)[a] <= g[a] - f[a]
                           /\ OfDelegates(new, G(c))[a] - OfDelegates(old, F(c))[a]
                                <= G(c)[a] - F(c)[a]
             /\ a \notin D => /\ OfDelegates(new, g)[a] <= OfDelegates(old, f)[a]
                              /\ OfDelegates(new, G(c))[a] <= OfDelegates(old, F(c))[a]
  <2>1. Stakes(b.validator, b.stake)
    BY DEF Figures
  <2>2. F(c)[a] = StakeFor(b, a, c) /\ G(c)[a] = StakeFor(d, a, c)
    BY DEF ForCommittee
  <2>3. \A v, x : OfDelegates(v, x)[a] = IF IsDelegate(v[a]) THEN x[a] ELSE 0
    BY DEF OfDelegates
  <2> DEFINE part(v, n) == IF IsDelegate(v) THEN n ELSE 0
  <2>4. /\ a \in D =>
             /\ part(new[a], g[a]) - part(old[a], f[a]) <= g[a] - f[a]
             /\ part(new[a], StakeFor(d, a, c)) - part(old[a], StakeFor(b, a, c))
                  <= StakeFor(d, a, c) - StakeFor(b, a, c)
        /\ a \notin D =>
             /\ part(new[a], g[a]) <= part(old[a], f[a])
             /\ part(new[a], StakeFor(d, a, c)) <= part(old[a], StakeFor(b, a, c))
    BY <2>1, OneFollowed, Zenon
  <2> HIDE DEF D, F, G
  <2> QED BY <2>2, <2>3, <2>4
<1> HIDE DEF D, old, new, s, t, f, g, F, G
<1>8. t.staked = SumOver(g, Address) /\ t.staked \in Int
  BY <1>1, <1>2, PeopleFinite, FollowedExactly
<1>9. t.delegated \in Int /\ t.delegated >= SumOver(OfDelegates(new, g), Address)
  <2>1. /\ \A a \in D : OfDelegates(new, g)[a] - OfDelegates(old, f)[a] <= g[a] - f[a]
        /\ \A a \in Address \ D : OfDelegates(new, g)[a] <= OfDelegates(old, f)[a]
    BY <1>4, <1>7
  <2>2. /\ s.delegated + moved(f, g, D) \in Int
        /\ s.delegated + moved(f, g, D) >= SumOver(OfDelegates(new, g), Address)
    BY <1>2, <1>6, <2>1
  <2> QED BY <1>1, <2>2
<1>10. ASSUME NEW c \in Chain
       PROVE  /\ t.committee[c] \in Int /\ t.committeeDelegated[c] \in Int
              /\ t.committee[c] = SumOver(G(c), Address)
              /\ t.committeeDelegated[c] >= SumOver(OfDelegates(new, G(c)), Address)
  <2> DEFINE x == F(c)
             y == G(c)
  <2>1. /\ \A a \in Address : x[a] \in Int
        /\ \A a \in Address : y[a] \in Int
        /\ s.committee[c] \in Int /\ s.committeeDelegated[c] \in Int
        /\ s.committee[c] = SumOver(x, Address)
        /\ s.committeeDelegated[c] >= SumOver(OfDelegates(old, x), Address)
        /\ t.committee[c] = s.committee[c] + moved(x, y, Address)
        /\ t.committeeDelegated[c] = s.committeeDelegated[c] + moved(x, y, D)
    BY <1>3
  <2>2. /\ \A a \in D : OfDelegates(new, y)[a] - OfDelegates(old, x)[a] <= y[a] - x[a]
        /\ \A a \in Address \ D : OfDelegates(new, y)[a] <= OfDelegates(old, x)[a]
    BY <1>4, <1>7
  <2> HIDE DEF x, y
  <2>3. /\ SumOver(y, Address) \in Int
        /\ SumOver(x, Address) + moved(x, y, Address) = SumOver(y, Address)
    BY <2>1, PeopleFinite, FollowedExactly
  <2>4. /\ s.committeeDelegated[c] + moved(x, y, D) \in Int
        /\ s.committeeDelegated[c] + moved(x, y, D) >= SumOver(OfDelegates(new, y), Address)
    BY <1>6, <2>1, <2>2
  <2>5. /\ t.committee[c] \in Int /\ t.committeeDelegated[c] \in Int
        /\ t.committee[c] = SumOver(y, Address)
        /\ t.committeeDelegated[c] >= SumOver(OfDelegates(new, y), Address)
    BY <2>1, <2>3, <2>4
  <2> QED BY <2>5 DEF y
<1>11. t \in Supply
  <2>1. t.committee \in [Chain -> Int] /\ t.committeeDelegated \in [Chain -> Int]
    BY <1>1, <1>10
  <2> QED BY <1>1, <1>2, <1>8, <1>9, <2>1 DEF Supply
<1>12. Tallied(d)
  BY <1>8, <1>9, <1>10 DEF Tallied, t, new, g, G
<1> QED BY <1>1, <1>11, <1>12 DEF s, t

LEMMA MovedTallied ==
  ASSUME NEW b, Figures(b), Tallied(b), NEW new, NEW stk, Stakes(new, stk),
         Steady(b.validator, new), NEW U, Shrinks(b, new, stk, U)
  PROVE  LET d == Moved(b, new, stk, U)
         IN /\ d.validator = new /\ d.stake = stk /\ d.slashed = b.slashed
            /\ Figures(d) /\ Tallied(d) /\ d.supply.total = b.supply.total
<1> DEFINE d == Moved(b, new, stk, U)
           D == {x \in Address : IsDelegate(b.validator[x]) \/ IsDelegate(new[x])} \ U
<1>1. /\ d.validator = new /\ d.stake = stk /\ d.slashed = b.slashed
      /\ d.supply = Tracked(b, [validator |-> new, stake |-> stk], D)
  BY DEF Moved
<1> HIDE DEF d
<1>2. Tallied(d) /\ d.supply \in Supply /\ d.supply.total = b.supply.total
  BY <1>1, TrackedTallied
<1>3. Figures(d)
  BY <1>1, <1>2 DEF Figures
<1> QED BY <1>1, <1>2, <1>3 DEF d

-----------------------------------------------------------------------------
(* What the handlers do to the tracker. *)

Balanced(b) == Figures(b) /\ Tallied(b)

\* A step from b to d that takes nothing from the stakes that it does not burn.
Conserves(b, d) == Balanced(d) /\ Unstaken(d) = Unstaken(b)

\* The total and the slashes of the block are not among the figures.
LEMMA SameFigures ==
  ASSUME NEW b, NEW d, Balanced(b), d.validator = b.validator, d.stake = b.stake,
         d.supply \in Supply, d.slashed \in [Address -> [Chain -> 0 .. Param.maxSlashPerCommittee]],
         d.supply.staked = b.supply.staked, d.supply.delegated = b.supply.delegated,
         d.supply.committee = b.supply.committee,
         d.supply.committeeDelegated = b.supply.committeeDelegated
  PROVE  Balanced(d)
<1>1. \A c : ForCommittee(d, c) = ForCommittee(b, c)
  BY DEF ForCommittee, StakeFor
<1>2. Tallied(d)
  BY <1>1 DEF Balanced, Tallied
<1>3. Figures(d)
  BY DEF Balanced, Figures
<1> QED BY <1>2, <1>3 DEF Balanced

LEMMA StakesInt ==
  ASSUME NEW b, Balanced(b)
  PROVE  /\ b.validator \in [Address -> Rec] /\ b.stake \in [Address -> Nat]
         /\ \A a \in Address : b.stake[a] \in Int
         /\ SumOver(b.stake, Address) \in Int /\ b.supply.total \in Int
<1>1. /\ b.validator \in [Address -> Rec] /\ b.stake \in [Address -> Nat]
      /\ \A a \in Address : b.stake[a] \in Int
      /\ b.supply.total \in Int
  BY DEF Balanced, Figures, Stakes, Supply
<1>2. SumOver(b.stake, Address) \in Int
  BY <1>1, PeopleFinite, SumInt
<1> QED BY <1>1, <1>2

\* Records that change and stakes that do not: nothing is moved.
LEMMA RecordsBalanced ==
  ASSUME NEW b, Balanced(b), NEW new \in [Address -> Rec], Steady(b.validator, new),
         \A a \in Address : new[a] = NULL <=> b.validator[a] = NULL
  PROVE  LET d == Moved(b, new, b.stake, {})
         IN Balanced(d) /\ Unstaken(d) = Unstaken(b) /\ d.stake = b.stake
<1> DEFINE stk == b.stake
           d == Moved(b, new, stk, {})
<1>1. Stakes(new, stk) /\ Figures(b) /\ Tallied(b)
  BY DEF Balanced, Figures, Stakes
<1>2. Shrinks(b, new, stk, {})
  BY DEF Shrinks
<1>3. stk = b.stake
  OBVIOUS
<1> HIDE DEF stk
<1>4. d.stake = stk /\ Figures(d) /\ Tallied(d) /\ d.supply.total = b.supply.total
  BY <1>1, <1>2, MovedTallied
<1>5. Unstaken(d) = Unstaken(b)
  <2> HIDE DEF d
  <2> QED BY <1>3, <1>4 DEF Unstaken
<1> QED BY <1>3, <1>4, <1>5 DEF Balanced

LEMMA PauseAllBalanced ==
  ASSUME NEW h \in Heights, NEW b, Balanced(b), NEW L, NEW c, NEW sc
  PROVE  Conserves(b, PauseAll(b, L, c, sc, h))
<1> DEFINE val == b.validator
           p == h + Param.maxPauseBlocks
           new == [a \in Address |-> IF a \in L /\ CanPause(val[a], c, sc)
                                     THEN [val[a] EXCEPT !.paused = p] ELSE val[a]]
<1>1. p \in Nat
  BY BlocksPositive DEF Heights
<1> HIDE DEF p
<1>2. val \in [Address -> Rec]
  BY StakesInt
<1>3. ASSUME NEW a \in Address
      PROVE  /\ new[a] \in Rec /\ (new[a] = NULL <=> val[a] = NULL)
             /\ val[a] # NULL => new[a].delegate = val[a].delegate
  <2>1. CASE a \in L /\ CanPause(val[a], c, sc)
    <3>1. val[a] \in Validator
      BY <2>1, <1>2 DEF CanPause, Rec
    <3>2. new[a] = [val[a] EXCEPT !.paused = p]
      BY <2>1
    <3>3. new[a] \in Validator /\ new[a].delegate = val[a].delegate
      BY <3>1, <3>2, <1>1 DEF Validator
    <3> QED BY <3>1, <3>3, NoValidatorAssumption DEF Rec
  <2>2. CASE ~(a \in L /\ CanPause(val[a], c, sc))
    BY <2>2, <1>2
  <2> QED BY <2>1, <2>2
<1>4. new \in [Address -> Rec]
  BY <1>3
<1>5. PauseAll(b, L, c, sc, h) = Moved(b, new, b.stake, {})
  BY DEF PauseAll, p
<1> HIDE DEF new
<1>6. Steady(val, new)
  BY <1>3 DEF Steady
<1> HIDE DEF val
<1>7. Steady(b.validator, new) /\ \A a \in Address : new[a] = NULL <=> b.validator[a] = NULL
  BY <1>3, <1>6 DEF val
<1> QED BY <1>4, <1>5, <1>7, RecordsBalanced DEF Conserves

LEMMA ForcedBalanced ==
  ASSUME NEW h \in Heights, NEW b, Balanced(b)
  PROVE  Conserves(b, ForceUnstakeMaxPaused(b, h))
<1> DEFINE val == b.validator
           f == h + Param.unstakingBlocks
           new == [a \in Address |->
                     IF <<h, a>> \in b.pausedKeys /\ val[a] # NULL /\ val[a].unstaking = 0
                     THEN Unstaked(val[a], f) ELSE val[a]]
           moved == Moved(b, new, b.stake, {})
           d == ForceUnstakeMaxPaused(b, h)
<1>1. f \in Nat
  BY BlocksPositive DEF Heights
<1> HIDE DEF f
<1>2. val \in [Address -> Rec]
  BY StakesInt
<1>3. ASSUME NEW a \in Address
      PROVE  /\ new[a] \in Rec /\ (new[a] = NULL <=> val[a] = NULL)
             /\ val[a] # NULL => new[a].delegate = val[a].delegate
  <2>1. CASE new[a] = Unstaked(val[a], f) /\ val[a] # NULL
    <3>1. val[a] \in Validator
      BY <2>1, <1>2 DEF Rec
    <3>2. new[a] = [val[a] EXCEPT !.unstaking = f, !.paused = 0]
      BY <2>1 DEF Unstaked
    <3>3. new[a] \in Validator /\ new[a].delegate = val[a].delegate
      BY <3>1, <3>2, <1>1 DEF Validator
    <3> QED BY <3>1, <3>3, NoValidatorAssumption DEF Rec
  <2>2. CASE new[a] = val[a]
    BY <2>2, <1>2
  <2> QED BY <2>1, <2>2
<1>4. new \in [Address -> Rec]
  BY <1>3
<1>5. d = [moved EXCEPT !.pausedKeys = {k \in @ : k[1] # h}]
  BY DEF ForceUnstakeMaxPaused, f
<1> HIDE DEF new
<1>6. Steady(val, new)
  BY <1>3 DEF Steady
<1> HIDE DEF val
<1>7. Steady(b.validator, new) /\ \A a \in Address : new[a] = NULL <=> b.validator[a] = NULL
  BY <1>3, <1>6 DEF val
<1>8. Balanced(moved) /\ Unstaken(moved) = Unstaken(b)
  BY <1>4, <1>7, RecordsBalanced
<1>9. /\ d.validator = moved.validator /\ d.stake = moved.stake
      /\ d.supply = moved.supply /\ d.slashed = moved.slashed
  BY <1>5 DEF Moved
<1> HIDE DEF moved, d
<1>10. Balanced(d)
  <2>1. moved.supply \in Supply
        /\ moved.slashed \in [Address -> [Chain -> 0 .. Param.maxSlashPerCommittee]]
    BY <1>8 DEF Balanced, Figures
  <2> QED BY <1>8, <1>9, <2>1, SameFigures
<1> QED BY <1>8, <1>9, <1>10 DEF Conserves, Unstaken, d

\* What is released is what its address gets.
ReleasedStake(b, h) == [a \in Address |-> IF a \in Due(b, h) THEN b.stake[a] ELSE 0]

LEMMA DeletedBalanced ==
  ASSUME NEW h, NEW b, Balanced(b)
  PROVE  LET d == DeleteFinishedUnstaking(b, h)
         IN Balanced(d) /\ Unstaken(d) = Unstaken(b) + SumOver(ReleasedStake(b, h), Address)
<1> DEFINE due == Due(b, h)
           val == b.validator
           new == [a \in Address |-> IF a \in due THEN NULL ELSE val[a]]
           stk == [a \in Address |-> IF a \in due THEN 0 ELSE b.stake[a]]
           moved == Moved(b, new, stk, {})
           d == DeleteFinishedUnstaking(b, h)
           R == ReleasedStake(b, h)
           f == b.stake
<1>1. val \in [Address -> Rec] /\ f \in [Address -> Nat] /\ (\A a \in Address : f[a] \in Int)
      /\ SumOver(f, Address) \in Int /\ b.supply.total \in Int
  BY StakesInt
<1>2. Stakes(new, stk) /\ Steady(val, new)
  <2>1. \A a \in Address : val[a] = NULL => f[a] = 0
    BY DEF Balanced, Figures, Stakes
  <2> HIDE DEF due, val, f
  <2> QED BY <1>1, <2>1 DEF Stakes, Steady, Rec, f, val
<1>3. d = [moved EXCEPT !.unstakingKeys = {k \in @ : k[1] # h}]
  BY DEF DeleteFinishedUnstaking
<1>4. /\ \A a \in Address : stk[a] \in Int
      /\ \A a \in Address : R[a] = f[a] - stk[a]
  BY <1>1 DEF ReleasedStake
<1> HIDE DEF due, val, new, stk, R, f
<1>5. SumOver(stk, Address) \in Int
      /\ SumOver(R, Address) = SumOver(f, Address) - SumOver(stk, Address)
  <2>1. \A a \in Address : stk[a] \in Int
    BY <1>4
  <2>2. \A a \in Address : f[a] \in Int
    BY <1>1
  <2>3. \A a \in Address : R[a] = f[a] - stk[a]
    BY <1>4
  <2>4. IsFiniteSet(Address)
    BY PeopleFinite
  <2> QED BY <2>1, <2>2, <2>3, <2>4, SumMinus
<1>6. moved.stake = stk /\ Figures(moved) /\ Tallied(moved)
      /\ moved.supply.total = b.supply.total
  <2>1. Shrinks(b, new, stk, {})
    BY DEF Shrinks
  <2>2. Figures(b) /\ Tallied(b) /\ Steady(b.validator, new)
    BY <1>2 DEF Balanced, val
  <2> QED BY <1>2, <2>1, <2>2, MovedTallied
<1>7. /\ d.validator = moved.validator /\ d.stake = moved.stake
      /\ d.supply = moved.supply /\ d.slashed = moved.slashed
  BY <1>3 DEF Moved
<1> HIDE DEF moved, d
<1>8. Balanced(d)
  <2>1. moved.supply \in Supply
        /\ moved.slashed \in [Address -> [Chain -> 0 .. Param.maxSlashPerCommittee]]
        /\ Balanced(moved)
    BY <1>6 DEF Balanced, Figures
  <2> QED BY <1>7, <2>1, SameFigures
<1>9. Unstaken(d) = Unstaken(b) + SumOver(R, Address)
  BY <1>1, <1>5, <1>6, <1>7 DEF Unstaken, f
<1> QED BY <1>8, <1>9 DEF d, R

-----------------------------------------------------------------------------
\* A percentage of an amount.
LEMMA Percentage ==
  ASSUME NEW n \in Nat, NEW q \in 0 .. 100
  PROVE  (n * q) \div 100 \in Nat /\ (n * q) \div 100 <= n
<1> DEFINE k == n * q
<1>1. k \in Nat /\ k <= n * 100
  BY Z3
<1> HIDE DEF k
<1>2. k \div 100 \in Nat /\ k \div 100 <= n
  BY <1>1
<1> QED BY <1>2 DEF k

\* What a slash leaves of a record.
LEMMA SlashedRecord ==
  ASSUME NEW v \in Validator, NEW n, NEW C \in SUBSET v.committees, NEW h \in Heights
  PROVE  /\ Slashed(v, n, C, h) \in Rec
         /\ Slashed(v, n, C, h) = NULL <=> n = 0
         /\ Slashed(v, n, C, h) # NULL =>
              /\ Slashed(v, n, C, h).delegate = v.delegate
              /\ Slashed(v, n, C, h).committees = C
<1> DEFINE kept == [v EXCEPT !.committees = C]
           w == Slashed(v, n, C, h)
           f == h + UnstakingBlocks(v.delegate)
<1>1. C \in SUBSET Chain
  BY DEF Validator
<1>2. kept \in Validator /\ kept.delegate = v.delegate /\ kept.committees = C
  BY <1>1 DEF Validator
<1>3. f \in Nat
  BY BlocksPositive DEF Heights
<1> HIDE DEF kept, f
<1>4. /\ Unstaked(kept, f) \in Validator
      /\ Unstaked(kept, f).delegate = kept.delegate /\ Unstaked(kept, f).committees = kept.committees
  BY <1>2, <1>3 DEF Validator, Unstaked
<1>5. \/ w = NULL /\ n = 0
      \/ n # 0 /\ w = Unstaked(kept, f)
      \/ n # 0 /\ w = kept
  BY DEF Slashed, kept, f
<1> HIDE DEF w
<1>6. w \in Rec /\ (w = NULL <=> n = 0) /\ (w # NULL => w.delegate = v.delegate /\ w.committees = C)
  <2>1. CASE w = NULL /\ n = 0
    BY <2>1 DEF Rec
  <2>2. CASE n # 0 /\ w = Unstaked(kept, f)
    BY <2>2, <1>2, <1>4, NoValidatorAssumption DEF Rec
  <2>3. CASE n # 0 /\ w = kept
    BY <2>3, <1>2, NoValidatorAssumption DEF Rec
  <2> QED BY <1>5, <2>1, <2>2, <2>3
<1> QED BY <1>6 DEF w

\* What is slashed leaves the total as well.
LEMMA SlashAllBalanced ==
  ASSUME NEW h \in Heights, NEW b, Balanced(b), NEW L \in SUBSET Address, NEW c \in Chain,
         NEW p \in 0 .. 100, NEW sc
  PROVE  Conserves(b, SlashAll(b, L, c, p, sc, h))
<1> DEFINE val == b.validator
           f == b.stake
           max == Param.maxSlashPerCommittee
           done(a) == b.slashed[a][c]
           struck == {a \in L : val[a] # NULL /\ (sc => c \in val[a].committees /\ done(a) < max)}
           ejects(a) == sc /\ done(a) + p >= max
           cut(a) == IF ejects(a) THEN max - done(a) ELSE p
           stk == [a \in Address |-> IF a \in struck THEN (f[a] * (100 - cut(a))) \div 100
                                     ELSE f[a]]
           left(a) == IF ejects(a) THEN val[a].committees \ {c} ELSE val[a].committees
           new == [a \in Address |->
                     IF a \in struck THEN Slashed(val[a], stk[a], left(a), h) ELSE val[a]]
           U == {a \in struck : new[a] # NULL}
           moved == Moved(b, new, stk, U)
           lost == [a \in struck |-> f[a] - stk[a]]
           burnt == SumOver(lost, struck)
           hit == [a \in Address |-> [x \in Chain |-> moved.slashed[a][x]
                     + (IF sc /\ a \in struck /\ x = c THEN cut(a) ELSE 0)]]
           d == SlashAll(b, L, c, p, sc, h)
<1> DEFINE less == [moved EXCEPT !.supply.total = @ - burnt]
           after(s) == [a \in Address |-> [x \in Chain |-> s[a][x]
                          + (IF sc /\ a \in struck /\ x = c THEN cut(a) ELSE 0)]]
           e == [less EXCEPT !.slashed = after(moved.slashed)]
<1>1. d = e
  BY DEF SlashAll
<1>2. /\ d.validator = moved.validator /\ d.stake = moved.stake
      /\ d.supply = [moved.supply EXCEPT !.total = @ - burnt]
      /\ d.slashed = hit
  <2> DEFINE fewer == [moved.supply EXCEPT !.total = @ - burnt]
  <2> HIDE DEF d, burnt, new, stk, U, after
  <2>1. less = [moved EXCEPT !.supply = fewer]
    OBVIOUS
  <2> HIDE DEF less, fewer
  <2>2. /\ less.validator = moved.validator /\ less.stake = moved.stake
        /\ less.supply = fewer /\ less.slashed = moved.slashed
        /\ e.validator = less.validator /\ e.stake = less.stake
        /\ e.supply = less.supply /\ e.slashed = after(moved.slashed)
    BY <2>1 DEF Moved
  <2>3. after(moved.slashed) = hit
    BY DEF after
  <2> HIDE DEF e, moved, hit
  <2> QED BY <1>1, <2>2, <2>3 DEF fewer
<1>3. val \in [Address -> Rec] /\ f \in [Address -> Nat] /\ (\A a \in Address : f[a] \in Int)
      /\ SumOver(f, Address) \in Int /\ b.supply.total \in Int
  BY StakesInt
<1>4. \A a \in Address : val[a] = NULL => f[a] = 0
  BY DEF Balanced, Figures, Stakes
<1>5. max \in 0 .. 100
  BY ParamAssumption
<1>6. \A a \in Address : done(a) \in 0 .. max
  BY DEF Balanced, Figures
<1>7. struck \subseteq Address /\ \A a \in struck : val[a] # NULL /\ (sc => done(a) < max)
  OBVIOUS
<1>8. ASSUME NEW a \in struck
      PROVE  /\ cut(a) \in 0 .. 100 /\ 100 - cut(a) \in 0 .. 100
             /\ sc => done(a) + cut(a) \in 0 .. max
  <2>1. done(a) \in 0 .. max /\ (sc => done(a) < max)
    BY <1>6, <1>7
  <2> HIDE DEF done, struck, max
  <2> QED BY <2>1, <1>5
<1>9. ASSUME NEW a \in Address
      PROVE  stk[a] \in Nat /\ stk[a] <= f[a] /\ (a \notin struck => stk[a] = f[a])
  <2>1. f[a] \in Nat
    BY <1>3
  <2>2. CASE a \in struck
    <3>1. stk[a] = (f[a] * (100 - cut(a))) \div 100
      BY <2>2
    <3>2. 100 - cut(a) \in 0 .. 100
      BY <1>8, <2>2
    <3> DEFINE q == 100 - cut(a)
               n == f[a]
    <3> HIDE DEF struck, cut, stk, q, n
    <3>3. (n * q) \div 100 \in Nat /\ (n * q) \div 100 <= n
      BY <2>1, <3>2, Percentage DEF q, n
    <3> QED BY <3>1, <3>3, <2>2 DEF q, n
  <2>3. CASE a \notin struck
    <3>1. stk[a] = f[a]
      BY <2>3
    <3> QED BY <3>1, <2>1
  <2> QED BY <2>2, <2>3
<1>10. ASSUME NEW a \in struck
       PROVE  /\ new[a] \in Rec /\ (new[a] = NULL => stk[a] = 0)
              /\ new[a] # NULL => /\ new[a].delegate = val[a].delegate
                                  /\ new[a].committees \subseteq val[a].committees
  <2>1. val[a] \in Validator
    BY <1>3, <1>7 DEF Rec
  <2>2. left(a) \in SUBSET val[a].committees
    OBVIOUS
  <2>3. new[a] = Slashed(val[a], stk[a], left(a), h)
    BY <1>7
  <2> HIDE DEF new, struck, left, stk, val
  <2> QED BY <2>1, <2>2, <2>3, SlashedRecord
<1>11. \A a \in Address \ struck : new[a] = val[a]
  OBVIOUS
<1>12. new = [a \in Address |-> new[a]] /\ stk = [a \in Address |-> stk[a]]
  OBVIOUS
<1>13. /\ \A a \in U : a \in struck /\ new[a] # NULL
       /\ U \subseteq struck
  OBVIOUS
<1>14. \A a \in struck : lost[a] = f[a] - stk[a]
  OBVIOUS
<1> HIDE DEF struck, cut, stk, new, U, done, ejects, left
<1>15. Stakes(new, stk)
  <2>1. \A a \in Address : new[a] \in Rec /\ (new[a] = NULL => stk[a] = 0) /\ stk[a] \in Nat
    BY <1>3, <1>4, <1>9, <1>10, <1>11
  <2> HIDE DEF f, val
  <2>2. new \in [Address -> Rec]
    BY <1>12, <2>1
  <2>3. stk \in [Address -> Nat]
    BY <1>12, <2>1
  <2> QED BY <2>1, <2>2, <2>3 DEF Stakes
<1>16. Steady(b.validator, new)
  BY <1>7, <1>10, <1>11 DEF Steady
<1>17. Shrinks(b, new, stk, U)
  BY <1>7, <1>9, <1>10, <1>13 DEF Shrinks
<1>18. /\ moved.stake = stk /\ moved.slashed = b.slashed
       /\ Figures(moved) /\ Tallied(moved) /\ moved.supply.total = b.supply.total
  <2>1. Figures(b) /\ Tallied(b)
    BY DEF Balanced
  <2> QED BY <1>15, <1>16, <1>17, <2>1, MovedTallied
<1> DEFINE R == [a \in Address |-> f[a] - stk[a]]
<1>19. burnt = SumOver(f, Address) - SumOver(stk, Address)
       /\ burnt \in Int /\ SumOver(stk, Address) \in Int
  <2>1. \A a \in Address : R[a] = f[a] - stk[a]
    OBVIOUS
  <2>2. \A a \in Address : stk[a] \in Int
    BY <1>9
  <2>3. \A a \in Address : f[a] \in Int
    BY <1>3
  <2>4. \A a \in struck : R[a] = lost[a]
    BY <1>7, <1>14, <2>1
  <2>5. \A a \in Address \ struck : R[a] = 0
    BY <1>9, <2>1, <2>3
  <2>6. \A a \in struck : lost[a] \in Int
    BY <1>7, <1>14, <2>2, <2>3
  <2> HIDE DEF R, lost, f
  <2>7. SumOver(R, Address) = SumOver(f, Address) - SumOver(stk, Address)
        /\ SumOver(f, Address) \in Int /\ SumOver(stk, Address) \in Int
    <3>1. IsFiniteSet(Address)
      BY PeopleFinite
    <3> QED BY <2>1, <2>2, <2>3, <3>1, SumMinus
  <2>8. SumOver(R, Address) = SumOver(lost, struck)
    BY <1>7, <2>4, <2>5, <2>6, PeopleFinite, SumWhere
  <2> QED BY <2>7, <2>8
<1>20. hit \in [Address -> [Chain -> 0 .. max]]
  <2>1. moved.slashed \in [Address -> [Chain -> 0 .. max]]
    BY <1>18 DEF Figures
  <2> DEFINE g == moved.slashed
             add(a, x) == IF sc /\ a \in struck /\ x = c THEN cut(a) ELSE 0
  <2>2. ASSUME NEW a \in Address, NEW x \in Chain
        PROVE  g[a][x] + add(a, x) \in 0 .. max
    <3>1. g[a][x] \in 0 .. max
      BY <2>1
    <3>2. CASE sc /\ a \in struck /\ x = c
      <4>1. done(a) + cut(a) \in 0 .. max /\ g[a][x] = done(a)
        BY <1>8, <1>18, <3>2 DEF done
      <4> HIDE DEF g, max
      <4> QED BY <3>2, <4>1
    <3>3. CASE ~(sc /\ a \in struck /\ x = c)
      <4> HIDE DEF g, max
      <4> QED BY <1>5, <3>1, <3>3
    <3> QED BY <3>2, <3>3
  <2> HIDE DEF g, max, add
  <2>3. hit = [a \in Address |-> [x \in Chain |-> g[a][x] + add(a, x)]]
    BY DEF g, add
  <2> HIDE DEF hit
  <2> QED BY <2>2, <2>3
<1> HIDE DEF moved, burnt, hit, d
<1>21. moved.supply \in Supply /\ moved.supply.total \in Int
  BY <1>18 DEF Figures, Supply
<1>22. /\ d.supply \in Supply /\ d.supply.total = moved.supply.total - burnt
       /\ d.supply.staked = moved.supply.staked /\ d.supply.delegated = moved.supply.delegated
       /\ d.supply.committee = moved.supply.committee
       /\ d.supply.committeeDelegated = moved.supply.committeeDelegated
  BY <1>2, <1>19, <1>21 DEF Supply
<1>23. Balanced(d)
  <2>1. Balanced(moved)
    BY <1>18 DEF Balanced
  <2>2. d.slashed \in [Address -> [Chain -> 0 .. Param.maxSlashPerCommittee]]
    BY <1>2, <1>20
  <2> QED BY <1>2, <1>22, <2>1, <2>2, SameFigures
<1>24. Unstaken(d) = Unstaken(b)
  BY <1>2, <1>3, <1>18, <1>19, <1>22 DEF Unstaken
<1> QED BY <1>23, <1>24 DEF Conserves, d

-----------------------------------------------------------------------------
(* The steps of the chain. *)

SupplyInv ==
  /\ Balanced(Book)
  /\ account \in [Address -> Nat]
  /\ pool \in [Pool -> Nat]
  /\ data \in [Chain -> [samples : Nat, percent : [Address -> Nat]]]
  /\ Unstaken(Book) = SumOver(account, Address) + SumOver(pool, Pool)

\* The book of the next state is the one that a step works out.
LEMMA BookAfter ==
  ASSUME NEW d, BookBecomes(d), Balanced(d)
  PROVE  Balanced(Book)' /\ Unstaken(Book)' = Unstaken(d)
<1>1. Figures(d) /\ Tallied(d)
  BY DEF Balanced
<1>2. Figures(Book)'
  BY <1>1 DEF Figures, Stakes, Book, BookBecomes
<1>3. Tallied(Book)'
  BY <1>1 DEF Tallied, OfDelegates, ForCommittee, StakeFor, Book, BookBecomes
<1>4. Unstaken(Book)' = Unstaken(d)
  BY DEF Unstaken, Book, BookBecomes
<1> QED BY <1>2, <1>3, <1>4 DEF Balanced

LEMMA BookStays ==
  ASSUME SupplyInv, UNCHANGED books
  PROVE  Balanced(Book)' /\ Unstaken(Book)' = Unstaken(Book)
<1>1. BookBecomes(Book)
  BY DEF BookBecomes, Book, books
<1> QED BY <1>1, BookAfter DEF SupplyInv

\* HandleByzantine burns what it takes.
LEMMA PunishedBalanced ==
  ASSUME Inv, NEW STATE book, Balanced(book), NEW c \in Chain, NEW report \in Report
  PROVE  Conserves(book, Punished(book, c, report))
<1> DEFINE bad == {a \in Address : Count(a, c) > Param.maxNonSign}
           b0 == PauseAll(book, bad, c, scoped, height)
           missed == Param.nonSignSlash
           twice == Param.doubleSignSlash
           double == report.double
           b1 == SlashAll(b0, bad, c, missed, scoped, height)
           b2 == IF AtWindowEnd THEN b1 ELSE book
           b3 == SlashAll(b2, double, c, twice, scoped, height)
<1>1. Punished(book, c, report) = b3
  BY DEF Punished, Settled
<1>2. height \in Heights /\ bad \in SUBSET Address /\ double \in SUBSET Address
      /\ missed \in 0 .. 100 /\ twice \in 0 .. 100
  BY AmountAssumption, ParamAssumption DEF Inv
<1> HIDE DEF bad, missed, twice, double
<1>3. Conserves(book, b0)
  BY <1>2, PauseAllBalanced
<1> HIDE DEF b0
<1>4. Conserves(b0, b1)
  <2>1. Balanced(b0)
    BY <1>3 DEF Conserves
  <2> QED BY <1>2, <2>1, SlashAllBalanced
<1> HIDE DEF b1
<1>5. Conserves(book, b2)
  BY <1>3, <1>4 DEF Conserves
<1> HIDE DEF b2
<1>6. Conserves(b2, b3)
  <2>1. Balanced(b2)
    BY <1>5 DEF Conserves
  <2> QED BY <1>2, <2>1, SlashAllBalanced
<1> HIDE DEF b3
<1> QED BY <1>1, <1>5, <1>6 DEF Conserves

LEMMA CertifiedBalanced ==
  ASSUME Inv, SupplyInv, NEW STATE book, Balanced(book), NEW c \in Chain, NEW report \in Report,
         Certified(book, c, report)
  PROVE  /\ Balanced(Book)' /\ Unstaken(Book)' = Unstaken(book)
         /\ data' \in [Chain -> [samples : Nat, percent : [Address -> Nat]]]
<1> DEFINE after == Punished(book, c, report)
<1>1. Balanced(after) /\ Unstaken(after) = Unstaken(book)
  BY PunishedBalanced DEF Conserves
<1>2. BookBecomes(after) /\ data' = Sampled(c, report)
  BY DEF Certified
<1> HIDE DEF after
<1>3. Balanced(Book)' /\ Unstaken(Book)' = Unstaken(after)
  BY <1>1, <1>2, BookAfter
<1>4. report.percent \in [Address -> Nat]
  BY AmountAssumption
<1>5. data' \in [Chain -> [samples : Nat, percent : [Address -> Nat]]]
  BY <1>2, <1>4 DEF Sampled, SupplyInv
<1> QED BY <1>1, <1>3, <1>5

-----------------------------------------------------------------------------
\* What is minted is an amount, and part of the total.
LEMMA MintedNat == Minted \in [Pool -> Nat] /\ IsFiniteSet(Pool)
<1>1. IsFiniteSet(Subsidized) /\ Subsidized # {}
  BY StakingAssumption, PeopleFinite, FS_Subset
<1> DEFINE n == Cardinality(Subsidized)
<1>2. n \in Nat /\ n # 0
  BY <1>1, FS_CardinalityType, FS_EmptySet
<1>3. Mint - DaoReward \in Nat /\ DaoReward \in Nat
  BY AmountAssumption
<1> HIDE DEF n
<1> DEFINE k == (Mint - DaoReward) \div n
<1>4. k \in Nat
  <2> DEFINE m == Mint - DaoReward
  <2> HIDE DEF m
  <2>1. m \in Nat => m \div n \in Nat
    BY <1>2
  <2> QED BY <1>3, <2>1 DEF m
<1>5. Minted = [p \in Pool |-> IF p = "DAO" THEN DaoReward ELSE IF p \in Subsidized THEN k ELSE 0]
  BY DEF Minted, n
<1>6. IsFiniteSet(Pool)
  BY PeopleFinite, FS_AddElement DEF Pool
<1> HIDE DEF k
<1> QED BY <1>3, <1>4, <1>5, <1>6

LEMMA FundedBalanced ==
  ASSUME SupplyInv
  PROVE  Balanced(Funded) /\ Unstaken(Funded) = Unstaken(Book) + SumOver(Minted, Pool)
         /\ SumOver(Minted, Pool) \in Int
<1> DEFINE n == SumOver(Minted, Pool)
           b == Book
           d == [b EXCEPT !.supply.total = @ + n]
<1>1. n \in Int
  <2>1. \A p \in Pool : Minted[p] \in Int
    BY MintedNat
  <2> QED BY <2>1, MintedNat, SumInt
<1>2. Funded = d
  BY DEF Funded
<1>3. Balanced(b)
  BY DEF SupplyInv
<1>4. b.supply \in Supply /\ b.slashed \in [Address -> [Chain -> 0 .. Param.maxSlashPerCommittee]]
  BY <1>3 DEF Balanced, Figures
<1>5. SumOver(b.stake, Address) \in Int
  BY <1>3, StakesInt
<1> HIDE DEF n
<1>6. /\ d.validator = b.validator /\ d.stake = b.stake /\ d.slashed = b.slashed
      /\ d.supply = [b.supply EXCEPT !.total = @ + n]
  BY DEF Book
<1> HIDE DEF b, d
<1>7. /\ d.supply \in Supply /\ d.supply.total = b.supply.total + n /\ b.supply.total \in Int
      /\ d.supply.staked = b.supply.staked /\ d.supply.delegated = b.supply.delegated
      /\ d.supply.committee = b.supply.committee
      /\ d.supply.committeeDelegated = b.supply.committeeDelegated
  BY <1>1, <1>4, <1>6 DEF Supply
<1>8. Balanced(d)
  BY <1>3, <1>4, <1>6, <1>7, SameFigures
<1>9. Unstaken(d) = Unstaken(b) + n
  BY <1>1, <1>5, <1>6, <1>7 DEF Unstaken
<1> QED BY <1>1, <1>2, <1>8, <1>9 DEF n, b

-----------------------------------------------------------------------------
LEMMA SumsInt ==
  ASSUME SupplyInv
  PROVE  /\ \A a \in Address : account[a] \in Int
         /\ \A p \in Pool : pool[p] \in Int
         /\ SumOver(account, Address) \in Int /\ SumOver(pool, Pool) \in Int
<1>1. \A a \in Address : account[a] \in Int
  BY DEF SupplyInv
<1>2. \A p \in Pool : pool[p] \in Int
  BY DEF SupplyInv
<1>3. SumOver(account, Address) \in Int
  BY <1>1, PeopleFinite, SumInt
<1>4. SumOver(pool, Pool) \in Int
  BY <1>2, MintedNat, SumInt
<1> QED BY <1>1, <1>2, <1>3, <1>4

LEMMA UnchangedSupply ==
  ASSUME SupplyInv, UNCHANGED <<books, account, pool, data>>
  PROVE  SupplyInv'
<1>1. Balanced(Book)' /\ Unstaken(Book)' = Unstaken(Book)
  BY BookStays
<1> QED BY <1>1 DEF SupplyInv

LEMMA CertificateSupply ==
  ASSUME Inv, SupplyInv, NEW c \in Chain, NEW report \in Report, Certified(Book, c, report),
         UNCHANGED <<account, pool>>
  PROVE  SupplyInv'
<1> DEFINE b == Book
<1>1. Balanced(b) /\ Certified(b, c, report)
  BY DEF SupplyInv
<1> HIDE DEF b
<1>2. /\ Balanced(Book)' /\ Unstaken(Book)' = Unstaken(b)
      /\ data' \in [Chain -> [samples : Nat, percent : [Address -> Nat]]]
  BY <1>1, CertifiedBalanced
<1> QED BY <1>2 DEF SupplyInv, b

LEMMA BeginBlockSupply ==
  ASSUME Inv, SupplyInv, BeginBlock
  PROVE  SupplyInv'
<1>1. account' = account
  BY DEF BeginBlock
<1>2. CASE UNCHANGED <<books, pool, nonSigner, data, orphaned>>
  BY <1>1, <1>2, UnchangedSupply
<1>3. ASSUME pool' = [p \in Pool |-> pool[p] + Minted[p]],
             \/ BookBecomes(Funded) /\ UNCHANGED <<nonSigner, data, orphaned>>
             \/ \E report \in Report : Certified(Funded, Own, report)
      PROVE  SupplyInv'
  <2> DEFINE f == Funded
  <2>1. /\ Balanced(f) /\ Unstaken(f) = Unstaken(Book) + SumOver(Minted, Pool)
        /\ SumOver(Minted, Pool) \in Int
    BY FundedBalanced
  <2>2. /\ Balanced(Book)' /\ Unstaken(Book)' = Unstaken(f)
        /\ data' \in [Chain -> [samples : Nat, percent : [Address -> Nat]]]
    <3>1. CASE BookBecomes(f) /\ data' = data
      <4> HIDE DEF f
      <4>1. Balanced(Book)' /\ Unstaken(Book)' = Unstaken(f)
        BY <3>1, <2>1, BookAfter
      <4> QED BY <3>1, <4>1 DEF SupplyInv
    <3>2. CASE \E report \in Report : Certified(f, Own, report)
      <4> HIDE DEF f
      <4>1. Own \in Chain
        BY StakingAssumption
      <4> QED BY <3>2, <2>1, <4>1, CertifiedBalanced
    <3> QED BY <1>3, <3>1, <3>2
  <2> DEFINE q == [p \in Pool |-> pool[p] + Minted[p]]
  <2>3. SumOver(q, Pool) = SumOver(pool, Pool) + SumOver(Minted, Pool)
    <3>1. \A p \in Pool : pool[p] \in Int
      BY SumsInt
    <3>2. \A p \in Pool : Minted[p] \in Int
      BY MintedNat
    <3>3. \A p \in Pool : q[p] = pool[p] + Minted[p]
      OBVIOUS
    <3>4. IsFiniteSet(Pool)
      BY MintedNat
    <3> HIDE DEF q
    <3> QED BY <3>1, <3>2, <3>3, <3>4, SumPlus
  <2>4. q \in [Pool -> Nat]
    <3>1. \A p \in Pool : pool[p] \in Nat /\ Minted[p] \in Nat
      BY MintedNat DEF SupplyInv
    <3> QED BY <3>1
  <2>5. pool' = q
    BY <1>3
  <2>6. /\ Unstaken(Book) = SumOver(account, Address) + SumOver(pool, Pool)
        /\ SumOver(account, Address) \in Int /\ SumOver(pool, Pool) \in Int
        /\ account \in [Address -> Nat]
    BY SumsInt DEF SupplyInv
  <2> HIDE DEF q, f
  <2>7. SumOver(pool, Pool)' = SumOver(q, Pool) /\ SumOver(account, Address)' = SumOver(account, Address)
    BY <1>1, <2>5
  <2>8. Unstaken(Book)' = SumOver(account, Address) + SumOver(q, Pool)
    BY <2>1, <2>2, <2>3, <2>6
  <2> QED BY <1>1, <2>2, <2>4, <2>5, <2>6, <2>7, <2>8 DEF SupplyInv
<1> QED BY <1>2, <1>3 DEF BeginBlock

-----------------------------------------------------------------------------
\* Who stakes pays from the account.
LEMMA BecomeSupply ==
  ASSUME SupplyInv, UNCHANGED pool, NEW a \in Address, NEW STATE v, NEW STATE added,
         v \in Validator, added \in Nat,
         validator[a] # NULL => v.delegate = validator[a].delegate,
         Become(a, v, added)
  PROVE  SupplyInv'
<1> DEFINE b == Book
           new == [validator EXCEPT ![a] = v]
           stk == [stake EXCEPT ![a] = @ + added]
           acc == [account EXCEPT ![a] = @ - added]
           d == Moved(b, new, stk, {})
<1>1. BookBecomes(d) /\ account[a] >= added /\ account' = acc /\ data' = data
  BY DEF Become
<1>2. Balanced(b) /\ b.validator = validator /\ b.stake = stake
  BY DEF SupplyInv, Book
<1>3. /\ validator \in [Address -> Rec] /\ stake \in [Address -> Nat]
      /\ \A x \in Address : stake[x] \in Int
      /\ SumOver(stake, Address) \in Int /\ b.supply.total \in Int
  BY <1>2, StakesInt
<1>4. \A x \in Address : validator[x] = NULL => stake[x] = 0
  BY <1>2 DEF Balanced, Figures, Stakes
<1>5. Stakes(new, stk) /\ Steady(b.validator, new)
  <2>1. new \in [Address -> Rec] /\ new[a] = v /\ \A x \in Address \ {a} : new[x] = validator[x]
    BY <1>3 DEF Rec
  <2>2. stk \in [Address -> Nat] /\ \A x \in Address \ {a} : stk[x] = stake[x]
    BY <1>3
  <2> HIDE DEF new, stk
  <2>3. v # NULL
    BY NoValidatorAssumption
  <2> QED BY <1>2, <1>4, <2>1, <2>2, <2>3 DEF Stakes, Steady
<1>6. Shrinks(b, new, stk, {})
  BY DEF Shrinks
<1>7. /\ \A x \in Address : stk[x] \in Int
      /\ \A x \in Address \ {a} : stk[x] = stake[x]
      /\ stk[a] = stake[a] + added
  BY <1>3
<1>8. account \in [Address -> Nat] /\ acc \in [Address -> Nat]
      /\ acc[a] = account[a] - added
      /\ \A x \in Address \ {a} : acc[x] = account[x]
  BY <1>1 DEF SupplyInv
<1>9. SumOver(stk, Address) = SumOver(stake, Address) + added
  <2> HIDE DEF stk
  <2>1. IsFiniteSet(Address)
    BY PeopleFinite
  <2>2. SumOver(stk, Address) = SumOver(stake, Address) - stake[a] + stk[a]
    <3>1. \A x \in Address : stk[x] \in Int
      BY <1>7
    <3>2. \A x \in Address : stake[x] \in Int
      BY <1>3
    <3>3. \A x \in Address \ {a} : stk[x] = stake[x]
      BY <1>7
    <3> QED BY <2>1, <3>1, <3>2, <3>3, SumUpdate
  <2>3. stake[a] \in Int
    BY <1>3
  <2> QED BY <1>3, <1>7, <2>2, <2>3
<1>10. SumOver(acc, Address) = SumOver(account, Address) - added
       /\ SumOver(account, Address) \in Int
  <2>1. IsFiniteSet(Address)
    BY PeopleFinite
  <2>2. SumOver(acc, Address) = SumOver(account, Address) - account[a] + acc[a]
    <3>1. \A x \in Address : acc[x] \in Int
      BY <1>8
    <3>2. \A x \in Address : account[x] \in Int
      BY <1>8
    <3>3. \A x \in Address \ {a} : acc[x] = account[x]
      BY <1>8
    <3> HIDE DEF acc
    <3> QED BY <2>1, <3>1, <3>2, <3>3, SumUpdate
  <2>3. account[a] \in Int /\ SumOver(account, Address) \in Int
    BY SumsInt
  <2> HIDE DEF acc
  <2> QED BY <1>8, <2>2, <2>3
<1> HIDE DEF new, stk, acc, b
<1>11. d.stake = stk /\ Balanced(d) /\ d.supply.total = b.supply.total
  <2>1. Figures(b) /\ Tallied(b)
    BY <1>2 DEF Balanced
  <2> QED BY <1>5, <1>6, <2>1, MovedTallied DEF Balanced
<1> HIDE DEF d
<1>12. Balanced(Book)' /\ Unstaken(Book)' = Unstaken(d)
  BY <1>1, <1>11, BookAfter
<1>13. Unstaken(d) = Unstaken(b) - added /\ Unstaken(b) \in Int
  BY <1>2, <1>3, <1>9, <1>11 DEF Unstaken
<1>14. /\ Unstaken(b) = SumOver(account, Address) + SumOver(pool, Pool)
       /\ SumOver(pool, Pool) \in Int
  BY SumsInt DEF SupplyInv, b
<1>15. Unstaken(d) = SumOver(acc, Address) + SumOver(pool, Pool)
  BY <1>10, <1>13, <1>14
<1>16. Unstaken(Book)' = SumOver(account, Address)' + SumOver(pool, Pool)'
  BY <1>1, <1>12, <1>15
<1> QED BY <1>1, <1>8, <1>12, <1>16 DEF SupplyInv

-----------------------------------------------------------------------------
LEMMA TransactionSupply ==
  ASSUME Inv, SupplyInv, NEW a \in Address,
         \/ \E offer \in Offer : Stake(a, offer) \/ EditStake(a, offer)
         \/ Unstake(a) \/ Pause(a) \/ Unpause(a)
  PROVE  SupplyInv'
<1>1. height \in Heights /\ validator \in [Address -> Rec] /\ stake \in [Address -> Nat]
  <2>1. Balanced(Book) /\ Book.validator = validator /\ Book.stake = stake /\ height \in Heights
    BY DEF SupplyInv, Book, Inv
  <2> QED BY <2>1, StakesInt
<1>2. validator[a] # NULL => validator[a] \in Validator
  BY <1>1 DEF Rec
<1>3. UNCHANGED pool
  BY DEF Stake, EditStake, Unstake, Pause, Unpause, Transaction
<1>4. ASSUME NEW offer \in Offer, Stake(a, offer)
      PROVE  SupplyInv'
  <2> DEFINE v == [committees |-> offer.committees, delegate |-> offer.delegate,
                   compound |-> offer.compound, paused |-> 0, unstaking |-> 0]
             added == offer.amount
  <2>1. validator[a] = NULL /\ Become(a, v, added)
    BY <1>4 DEF Stake
  <2>2. v \in Validator /\ added \in Nat
    BY StakingAssumption DEF Validator
  <2> HIDE DEF v, added
  <2> QED BY <1>3, <2>1, <2>2, BecomeSupply
<1>5. ASSUME NEW offer \in Offer, EditStake(a, offer)
      PROVE  SupplyInv'
  <2> DEFINE v == [validator[a] EXCEPT !.committees = offer.committees,
                                       !.compound = offer.compound]
             added == IF offer.amount > stake[a] THEN offer.amount - stake[a] ELSE 0
  <2>1. validator[a] # NULL /\ Become(a, v, added)
    BY <1>5 DEF EditStake
  <2>2. offer.committees \in SUBSET Chain /\ offer.compound \in BOOLEAN /\ offer.amount \in Nat
    BY StakingAssumption
  <2>3. v \in Validator /\ v.delegate = validator[a].delegate
    BY <1>2, <2>1, <2>2 DEF Validator
  <2>4. added \in Nat
    BY <1>1, <2>2
  <2> HIDE DEF v, added
  <2> QED BY <1>3, <2>1, <2>3, <2>4, BecomeSupply
<1>6. ASSUME Unstake(a)
      PROVE  SupplyInv'
  <2> DEFINE f == height + UnstakingBlocks(validator[a].delegate)
             v == Unstaked(validator[a], f)
  <2>1. validator[a] # NULL /\ Become(a, v, 0)
    BY <1>6 DEF Unstake, BeginUnstaking
  <2>2. f \in Nat
    BY <1>1, BlocksPositive DEF Heights
  <2> HIDE DEF f
  <2>3. v \in Validator /\ v.delegate = validator[a].delegate
    BY <1>2, <2>1, <2>2 DEF Validator, Unstaked
  <2> HIDE DEF v
  <2> QED BY <1>3, <2>1, <2>3, BecomeSupply
<1>7. ASSUME Pause(a)
      PROVE  SupplyInv'
  <2> DEFINE p == height + Param.maxPauseBlocks
             v == [validator[a] EXCEPT !.paused = p]
  <2>1. validator[a] # NULL /\ Become(a, v, 0)
    BY <1>7 DEF Pause, CanPause
  <2>2. p \in Nat
    BY <1>1, BlocksPositive DEF Heights
  <2> HIDE DEF p
  <2>3. v \in Validator /\ v.delegate = validator[a].delegate
    BY <1>2, <2>1, <2>2 DEF Validator
  <2> HIDE DEF v
  <2> QED BY <1>3, <2>1, <2>3, BecomeSupply
<1>8. ASSUME Unpause(a)
      PROVE  SupplyInv'
  <2> DEFINE v == [validator[a] EXCEPT !.paused = 0]
  <2>1. validator[a] # NULL /\ Become(a, v, 0)
    BY <1>8 DEF Unpause, IsPaused
  <2>2. v \in Validator /\ v.delegate = validator[a].delegate
    BY <1>2, <2>1 DEF Validator
  <2> HIDE DEF v
  <2> QED BY <1>3, <2>1, <2>2, BecomeSupply
<1> QED BY <1>4, <1>5, <1>6, <1>7, <1>8

-----------------------------------------------------------------------------
(* Rewards. *)

LEMMA RewardNat ==
  ASSUME SupplyInv, NEW a \in Address, NEW c \in Chain
  PROVE  Reward(a, c) \in Nat
<1> DEFINE n == data[c].samples
           q == data[c].percent[a]
           m == pool[c]
           f == FullReward(a, c)
           p == 100 - Param.earlyWithdrawalPenalty
<1>1. n \in Nat /\ q \in Nat /\ m \in Nat /\ p \in 0 .. 100
  BY ParamAssumption DEF SupplyInv, Pool
<1>2. f = IF n = 0 THEN 0 ELSE (q * m) \div (n * 100)
  BY DEF FullReward
<1> HIDE DEF n, q, m, f, p
<1>3. f \in Nat
  <2>1. q * m \in Nat /\ (n # 0 => n * 100 \in Nat /\ n * 100 > 0)
    BY <1>1
  <2> DEFINE x == q * m
             y == n * 100
  <2>2. f = IF n = 0 THEN 0 ELSE x \div y
    BY <1>2
  <2> HIDE DEF x, y
  <2>3. x \in Nat /\ (n # 0 => y \in Nat /\ y > 0)
    BY <2>1 DEF x, y
  <2> QED BY <2>2, <2>3
<1>4. (f * p) \div 100 \in Nat
  BY <1>1, <1>3, Percentage
<1>5. EarlyReward(a, c) = (f * p) \div 100
  BY DEF EarlyReward, f, p
<1> QED BY <1>3, <1>4, <1>5 DEF Reward, f

\* What an address gets, and what of it is added to its stake or its account.
AllRewards == [a \in Address |-> RewardOf(a)]
Compounded == [a \in Address |-> IF Compounds(a) THEN RewardOf(a) ELSE 0]
PaidOut == [a \in Address |-> IF Compounds(a) THEN 0 ELSE RewardOf(a)]

LEMMA PayingFinite == Paying \subseteq Chain /\ IsFiniteSet(Paying) /\ Paying \subseteq Pool
<1>1. Paying \subseteq Chain
  BY DEF Paying
<1>2. IsFiniteSet(Paying)
  BY <1>1, PeopleFinite, FS_Subset
<1> QED BY <1>1, <1>2 DEF Pool

LEMMA RewardsAdd ==
  ASSUME SupplyInv
  PROVE  /\ AllRewards \in [Address -> Nat] /\ Compounded \in [Address -> Nat]
         /\ PaidOut \in [Address -> Nat]
         /\ SumOver(Compounded, Address) \in Int /\ SumOver(PaidOut, Address) \in Int
         /\ SumOver(AllRewards, Address) = SumOver(Compounded, Address) + SumOver(PaidOut, Address)
<1>1. ASSUME NEW a \in Address
      PROVE  RewardOf(a) \in Nat
  <2> DEFINE f == [c \in Paying |-> Reward(a, c)]
  <2>1. \A c \in Paying : f[c] \in Nat
    BY PayingFinite, RewardNat
  <2> HIDE DEF f
  <2>2. SumOver(f, Paying) \in Nat
    BY <2>1, PayingFinite, SumNat
  <2> QED BY <2>2 DEF RewardOf, f
<1>2. /\ AllRewards \in [Address -> Nat] /\ Compounded \in [Address -> Nat]
      /\ PaidOut \in [Address -> Nat]
  BY <1>1 DEF AllRewards, Compounded, PaidOut
<1>3. \A a \in Address : AllRewards[a] = Compounded[a] + PaidOut[a]
  BY <1>1 DEF AllRewards, Compounded, PaidOut
<1>4. \A a \in Address : Compounded[a] \in Int
  BY <1>2
<1>5. \A a \in Address : PaidOut[a] \in Int
  BY <1>2
<1>6. IsFiniteSet(Address)
  BY PeopleFinite
<1>7. SumOver(AllRewards, Address) = SumOver(Compounded, Address) + SumOver(PaidOut, Address)
  BY <1>3, <1>4, <1>5, <1>6, SumPlus
<1>8. SumOver(Compounded, Address) \in Int /\ SumOver(PaidOut, Address) \in Int
  BY <1>4, <1>5, <1>6, SumInt
<1> QED BY <1>2, <1>7, <1>8

\* What is burnt of the pools that pay is what nobody gets.
LEMMA BurntAmount ==
  ASSUME SupplyInv
  PROVE  /\ SumOver(pool, Paying) \in Int /\ SumOver(AllRewards, Address) \in Int
         /\ Burnt = SumOver(pool, Paying) - SumOver(AllRewards, Address)
<1> DEFINE f == [a \in Address |-> [c \in Paying |-> Reward(a, c)]]
           g == [c \in Paying |-> [a \in Address |-> Reward(a, c)]]
           columns == RowSums(g, Paying, Address)
           rest == [c \in Paying |-> pool[c] - SumOver([a \in Address |-> Reward(a, c)], Address)]
           rows == AllRewards
<1>1. Table(f, g, Address, Paying)
  <2>1. \A a \in Address, c \in Paying : Reward(a, c) \in Int
    BY PayingFinite, RewardNat
  <2>2. \A a \in Address, c \in Paying : f[a][c] = Reward(a, c) /\ g[c][a] = Reward(a, c)
    OBVIOUS
  <2> HIDE DEF f, g
  <2> QED BY <2>1, <2>2 DEF Table
<1>2. rows = RowSums(f, Address, Paying)
  BY DEF AllRewards, RewardOf, RowSums
<1>3. \A c \in Paying : columns[c] = SumOver(g[c], Address)
  BY DEF RowSums
<1>4. \A c \in Paying : rest[c] = pool[c] - columns[c]
  BY <1>3
<1>5. Burnt = SumOver(rest, Paying)
  BY DEF Burnt
<1>6. \A c \in Paying : pool[c] \in Int
  BY PayingFinite, SumsInt
<1> HIDE DEF f, g, rest, rows
<1>7. \A c \in Paying : \A a \in Address : g[c][a] \in Int
  BY <1>1 DEF Table
<1>8. SumOver(rows, Address) = SumOver(columns, Paying)
  BY <1>1, <1>2, PeopleFinite, PayingFinite, SumExchange
<1> HIDE DEF columns
<1>9. \A c \in Paying : columns[c] \in Int
  BY <1>3, <1>7, PeopleFinite, SumInt
<1>10. /\ SumOver(columns, Paying) \in Int /\ SumOver(pool, Paying) \in Int
       /\ SumOver(rest, Paying) = SumOver(pool, Paying) - SumOver(columns, Paying)
  <2>1. IsFiniteSet(Paying)
    BY PayingFinite
  <2> QED BY <1>4, <1>6, <1>9, <2>1, SumMinus
<1> QED BY <1>5, <1>8, <1>10 DEF rows

-----------------------------------------------------------------------------
\* Rewards that compound are staked; what is burnt leaves the total.
LEMMA RewardedBalanced ==
  ASSUME SupplyInv
  PROVE  /\ Balanced(Rewarded)
         /\ Unstaken(Rewarded) = Unstaken(Book) - Burnt - SumOver(Compounded, Address)
<1> DEFINE b == Book
           val == validator
           stk == [a \in Address |-> IF Compounds(a) THEN stake[a] + RewardOf(a) ELSE stake[a]]
           paid == Moved(b, val, stk, {})
           d == [paid EXCEPT !.supply.total = @ - Burnt]
           f == stake
           C == Compounded
<1>1. Rewarded = d
  BY DEF Rewarded
<1>2. Balanced(b) /\ b.validator = val /\ b.stake = f
  BY DEF SupplyInv, Book
<1>3. /\ val \in [Address -> Rec] /\ f \in [Address -> Nat]
      /\ \A a \in Address : f[a] \in Int
      /\ SumOver(f, Address) \in Int /\ b.supply.total \in Int
  BY <1>2, StakesInt
<1>4. \A a \in Address : val[a] = NULL => f[a] = 0
  BY <1>2 DEF Balanced, Figures, Stakes
<1>5. C \in [Address -> Nat] /\ SumOver(C, Address) \in Int
  BY RewardsAdd
<1>6. \A a \in Address : stk[a] = f[a] + C[a] /\ (val[a] = NULL => C[a] = 0)
  BY <1>3 DEF Compounds, Compounded
<1>7. stk = [a \in Address |-> stk[a]]
  OBVIOUS
<1>8. Burnt \in Int
  BY BurntAmount
<1> HIDE DEF stk, f, C, val
<1>9. \A a \in Address : stk[a] \in Nat
  BY <1>3, <1>5, <1>6
<1>10. Stakes(val, stk) /\ Steady(b.validator, val)
  <2>1. stk \in [Address -> Nat]
    BY <1>7, <1>9
  <2>2. \A a \in Address : val[a] = NULL => stk[a] = 0
    BY <1>4, <1>6
  <2> QED BY <1>2, <1>3, <2>1, <2>2 DEF Stakes, Steady
<1>11. SumOver(stk, Address) = SumOver(f, Address) + SumOver(C, Address)
  <2>1. \A a \in Address : C[a] \in Int
    BY <1>5
  <2>2. \A a \in Address : f[a] \in Int
    BY <1>3
  <2>3. \A a \in Address : stk[a] = f[a] + C[a]
    BY <1>6
  <2>4. IsFiniteSet(Address)
    BY PeopleFinite
  <2> QED BY <2>1, <2>2, <2>3, <2>4, SumPlus
<1> DEFINE n == Burnt
           fewer == [paid.supply EXCEPT !.total = @ - n]
<1>12. /\ d.validator = paid.validator /\ d.stake = paid.stake /\ d.slashed = paid.slashed
       /\ d.supply = fewer
  <2> HIDE DEF n, b, fewer
  <2>1. d = [paid EXCEPT !.supply = fewer]
    BY DEF fewer, n
  <2> HIDE DEF d
  <2> QED BY <2>1 DEF Moved
<1> HIDE DEF b, n, d
<1>13. paid.stake = stk /\ Balanced(paid) /\ paid.supply.total = b.supply.total
  <2>1. Shrinks(b, val, stk, {})
    BY DEF Shrinks
  <2>2. Figures(b) /\ Tallied(b)
    BY <1>2 DEF Balanced
  <2> HIDE DEF paid
  <2> QED BY <1>10, <2>1, <2>2, MovedTallied DEF Balanced, paid
<1> HIDE DEF paid
<1>14. paid.supply \in Supply
       /\ paid.slashed \in [Address -> [Chain -> 0 .. Param.maxSlashPerCommittee]]
  BY <1>13 DEF Balanced, Figures
<1>15. /\ d.supply \in Supply /\ d.supply.total = paid.supply.total - n
       /\ d.supply.staked = paid.supply.staked /\ d.supply.delegated = paid.supply.delegated
       /\ d.supply.committee = paid.supply.committee
       /\ d.supply.committeeDelegated = paid.supply.committeeDelegated
  BY <1>8, <1>12, <1>14 DEF Supply, n
<1>16. Balanced(d)
  BY <1>12, <1>13, <1>14, <1>15, SameFigures
<1>17. Unstaken(d) = Unstaken(b) - n - SumOver(C, Address)
  BY <1>2, <1>3, <1>5, <1>8, <1>11, <1>12, <1>13, <1>15 DEF Unstaken, n
<1> QED BY <1>1, <1>16, <1>17 DEF b, n, C

\* The pools that pay are empty after it.
LEMMA PoolsEmptied ==
  ASSUME SupplyInv
  PROVE  LET q == [p \in Pool |-> IF p \in Paying THEN 0 ELSE pool[p]]
         IN /\ q \in [Pool -> Nat]
            /\ SumOver(q, Pool) = SumOver(pool, Pool) - SumOver(pool, Paying)
<1> DEFINE q == [p \in Pool |-> IF p \in Paying THEN 0 ELSE pool[p]]
           R == Pool \ Paying
<1>1. \A p \in Pool : pool[p] \in Nat
  BY DEF SupplyInv
<1>2. q \in [Pool -> Nat]
  BY <1>1
<1>3. /\ \A p \in R : pool[p] \in Int
      /\ \A p \in R : q[p] = pool[p]
      /\ \A p \in Pool \ R : q[p] = 0
      /\ R \subseteq Pool
  BY <1>1
<1>4. Pool \cap Paying = Paying
  BY PayingFinite
<1>5. IsFiniteSet(Pool)
  BY MintedNat
<1>6. \A p \in Pool : pool[p] \in Int
  BY <1>1
<1>7. SumOver(pool, Pool) = SumOver(pool, Paying) + SumOver(pool, R)
  <2>1. SumOver(pool, Pool) = SumOver(pool, Pool \cap Paying) + SumOver(pool, Pool \ Paying)
    BY <1>5, <1>6, SumParts
  <2> QED BY <1>4, <2>1, Zenon
<1> HIDE DEF q, R
<1>8. SumOver(q, Pool) = SumOver(pool, R)
  BY <1>3, <1>5, SumWhere
<1>9. SumOver(pool, Paying) \in Int /\ SumOver(pool, R) \in Int
  <2>1. IsFiniteSet(R)
    BY <1>3, <1>5, FS_Subset
  <2>2. SumOver(pool, R) \in Int
    BY <1>3, <2>1, SumInt
  <2> QED BY <2>2, BurntAmount
<1>10. SumOver(q, Pool) = SumOver(pool, Pool) - SumOver(pool, Paying)
  BY <1>7, <1>8, <1>9
<1> QED BY <1>2, <1>10 DEF q

\* A block ends: rewards are paid or burnt, stakes are released.
LEMMA EndBlockSupply ==
  ASSUME Inv, SupplyInv, EndBlock
  PROVE  SupplyInv'
<1> DEFINE paid == Rewarded
           forced == ForceUnstakeMaxPaused(paid, height)
           freed == DeleteFinishedUnstaking(forced, height)
           last == [freed EXCEPT !.slashed = Unslashed]
           due == Due(forced, height)
           D == ReleasedStake(forced, height)
           K == PaidOut
           acc == [a \in Address |-> account[a]
                     + (IF Compounds(a) THEN 0 ELSE RewardOf(a))
                     + (IF a \in due THEN forced.stake[a] ELSE 0)]
           q == [p \in Pool |-> IF p \in Paying THEN 0 ELSE pool[p]]
<1>1. /\ BookBecomes(last) /\ account' = acc /\ pool' = q
      /\ data' = [c \in Chain |-> IF c \in Paying THEN [samples |-> 0, percent |-> Nobody]
                                  ELSE data[c]]
  BY DEF EndBlock
<1>2. height \in Heights
  BY DEF Inv
<1>3. acc = [a \in Address |-> account[a] + K[a] + D[a]]
  BY DEF PaidOut, ReleasedStake
<1>4. /\ last.validator = freed.validator /\ last.stake = freed.stake
      /\ last.supply = freed.supply /\ last.slashed = Unslashed
  BY DEF DeleteFinishedUnstaking, Moved
<1> HIDE DEF paid, forced, freed, last, due, D, K, acc, q
<1>5. /\ Balanced(paid)
      /\ Unstaken(paid) = Unstaken(Book) - Burnt - SumOver(Compounded, Address)
  BY RewardedBalanced DEF paid
<1>6. Balanced(forced) /\ Unstaken(forced) = Unstaken(paid)
  <2>1. Conserves(paid, forced)
    BY <1>2, <1>5, ForcedBalanced DEF forced
  <2> QED BY <2>1 DEF Conserves
<1>7. Balanced(freed) /\ Unstaken(freed) = Unstaken(forced) + SumOver(D, Address)
  BY <1>6, DeletedBalanced DEF freed, D
<1>8. Balanced(last) /\ Unstaken(last) = Unstaken(freed)
  <2>1. Unslashed \in [Address -> [Chain -> 0 .. Param.maxSlashPerCommittee]]
    BY ParamAssumption DEF Unslashed
  <2>2. freed.supply \in Supply
    BY <1>7 DEF Balanced, Figures
  <2> QED BY <1>4, <1>7, <2>1, <2>2, SameFigures DEF Unstaken
<1>9. Balanced(Book)' /\ Unstaken(Book)' = Unstaken(last)
  BY <1>1, <1>8, BookAfter
<1>10. \A a \in Address : D[a] \in Nat
  <2>1. \A a \in Address : forced.stake[a] \in Nat
    BY <1>6, StakesInt
  <2> QED BY <2>1 DEF D, ReleasedStake
<1>11. \A a \in Address : K[a] \in Nat /\ account[a] \in Nat
  BY RewardsAdd DEF K, SupplyInv
<1>12. acc \in [Address -> Nat]
  BY <1>3, <1>10, <1>11
<1>13. /\ SumOver(acc, Address)
            = SumOver(account, Address) + SumOver(K, Address) + SumOver(D, Address)
       /\ SumOver(account, Address) \in Int /\ SumOver(K, Address) \in Int
       /\ SumOver(D, Address) \in Int
  <2> DEFINE k == [a \in Address |-> account[a] + K[a]]
  <2>1. IsFiniteSet(Address)
    BY PeopleFinite
  <2>2. \A a \in Address : account[a] \in Int
    BY <1>11
  <2>3. \A a \in Address : K[a] \in Int
    BY <1>11
  <2>4. \A a \in Address : D[a] \in Int
    BY <1>10
  <2>5. \A a \in Address : k[a] = account[a] + K[a]
    OBVIOUS
  <2>6. \A a \in Address : acc[a] = k[a] + D[a]
    BY <1>3
  <2> HIDE DEF k
  <2>7. \A a \in Address : k[a] \in Int
    BY <2>2, <2>3, <2>5
  <2>8. SumOver(k, Address) = SumOver(account, Address) + SumOver(K, Address)
    BY <2>1, <2>2, <2>3, <2>5, SumPlus
  <2>9. SumOver(acc, Address) = SumOver(k, Address) + SumOver(D, Address)
    BY <2>1, <2>4, <2>6, <2>7, SumPlus
  <2>10. SumOver(account, Address) \in Int
    BY <2>1, <2>2, SumInt
  <2>11. SumOver(K, Address) \in Int
    BY <2>1, <2>3, SumInt
  <2>12. SumOver(D, Address) \in Int
    BY <2>1, <2>4, SumInt
  <2> QED BY <2>8, <2>9, <2>10, <2>11, <2>12
<1>14. q \in [Pool -> Nat] /\ SumOver(q, Pool) = SumOver(pool, Pool) - SumOver(pool, Paying)
  BY PoolsEmptied DEF q
<1>15. /\ SumOver(pool, Paying) \in Int /\ SumOver(AllRewards, Address) \in Int
       /\ Burnt = SumOver(pool, Paying) - SumOver(AllRewards, Address)
       /\ SumOver(Compounded, Address) \in Int
       /\ SumOver(AllRewards, Address) = SumOver(Compounded, Address) + SumOver(K, Address)
  BY BurntAmount, RewardsAdd DEF K
<1>16. /\ Unstaken(Book) = SumOver(account, Address) + SumOver(pool, Pool)
       /\ SumOver(pool, Pool) \in Int
  BY SumsInt DEF SupplyInv
<1>17. Unstaken(last) = SumOver(acc, Address) + SumOver(q, Pool)
  BY <1>5, <1>6, <1>7, <1>8, <1>13, <1>14, <1>15, <1>16
<1>18. Unstaken(Book)' = SumOver(account, Address)' + SumOver(pool, Pool)'
  BY <1>1, <1>9, <1>17
<1>19. data' \in [Chain -> [samples : Nat, percent : [Address -> Nat]]]
  BY <1>1 DEF SupplyInv, Nobody
<1> QED BY <1>1, <1>9, <1>12, <1>14, <1>18, <1>19 DEF SupplyInv

-----------------------------------------------------------------------------
LEMMA InitSupply == Init => SupplyInv
<1> SUFFICES ASSUME Init PROVE SupplyInv
  OBVIOUS
<1> DEFINE b == NoBook
           new == Genesis.validator
           stk == Genesis.stake
           d == Moved(b, new, stk, {})
           whole == [a \in Address |-> stk[a] + InitialAccount[a]]
<1>1. /\ new \in [Address -> Rec] /\ stk \in [Address -> Nat]
      /\ \A a \in Address : new[a] = NULL => stk[a] = 0
      /\ InitialAccount \in [Address -> Nat]
  BY StakingAssumption, AmountAssumption DEF Rec
<1>2. /\ b.validator = [a \in Address |-> NULL] /\ b.stake = [a \in Address |-> 0]
      /\ b.supply = [total |-> SumOver(whole, Address), staked |-> 0, delegated |-> 0,
                     committee |-> [c \in Chain |-> 0], committeeDelegated |-> [c \in Chain |-> 0]]
      /\ b.slashed = [a \in Address |-> [c \in Chain |-> 0]]
  BY DEF NoBook, Nobody, Unslashed
<1>3. /\ \A a \in Address : whole[a] = stk[a] + InitialAccount[a]
      /\ \A a \in Address : stk[a] \in Int
      /\ \A a \in Address : InitialAccount[a] \in Int
      /\ \A a \in Address : whole[a] \in Int
  BY <1>1
<1>4. IsFiniteSet(Address)
  BY PeopleFinite
<1> HIDE DEF b, new, stk, whole
<1>5. /\ SumOver(whole, Address) = SumOver(stk, Address) + SumOver(InitialAccount, Address)
      /\ SumOver(whole, Address) \in Int
      /\ SumOver(stk, Address) \in Int /\ SumOver(InitialAccount, Address) \in Int
  <2>1. SumOver(whole, Address) = SumOver(stk, Address) + SumOver(InitialAccount, Address)
    BY <1>3, <1>4, SumPlus
  <2>2. SumOver(whole, Address) \in Int
    BY <1>3, <1>4, SumInt
  <2>3. SumOver(stk, Address) \in Int
    BY <1>3, <1>4, SumInt
  <2>4. SumOver(InitialAccount, Address) \in Int
    BY <1>3, <1>4, SumInt
  <2> QED BY <2>1, <2>2, <2>3, <2>4
<1>6. Figures(b)
  <2>1. b.supply \in Supply
    BY <1>2, <1>5 DEF Supply
  <2>2. Stakes(b.validator, b.stake)
    BY <1>2 DEF Stakes, Rec
  <2>3. b.slashed \in [Address -> [Chain -> 0 .. Param.maxSlashPerCommittee]]
    BY <1>2, ParamAssumption
  <2> QED BY <2>1, <2>2, <2>3 DEF Figures
<1>7. Tallied(b)
  <2>1. ASSUME NEW f, \A a \in Address : f[a] = 0
        PROVE  SumOver(f, Address) = 0
    BY <1>4, <2>1, SumZero
  <2>2. \A a \in Address : b.stake[a] = 0 /\ OfDelegates(b.validator, b.stake)[a] = 0
    BY <1>2 DEF OfDelegates
  <2>3. \A c : \A a \in Address : ForCommittee(b, c)[a] = 0
    BY <2>2 DEF ForCommittee, StakeFor
  <2>4. \A c : \A a \in Address : OfDelegates(b.validator, ForCommittee(b, c))[a] = 0
    BY <2>3 DEF OfDelegates
  <2>5. /\ SumOver(b.stake, Address) = 0
        /\ SumOver(OfDelegates(b.validator, b.stake), Address) = 0
        /\ \A c : SumOver(ForCommittee(b, c), Address) = 0
        /\ \A c : SumOver(OfDelegates(b.validator, ForCommittee(b, c)), Address) = 0
    BY <2>1, <2>2, <2>3, <2>4
  <2> QED BY <1>2, <2>5 DEF Tallied
<1>8. /\ Stakes(new, stk) /\ Steady(b.validator, new) /\ Shrinks(b, new, stk, {})
  BY <1>1, <1>2 DEF Stakes, Steady, Shrinks
<1>9. d.stake = stk /\ Balanced(d) /\ d.supply.total = SumOver(whole, Address)
  <2>1. b.supply.total = SumOver(whole, Address)
    BY <1>2
  <2> QED BY <1>6, <1>7, <1>8, <2>1, MovedTallied DEF Balanced
<1>10. /\ validator = d.validator /\ stake = d.stake /\ supply = d.supply /\ slashed = d.slashed
       /\ account = InitialAccount /\ pool = [p \in Pool |-> 0]
       /\ data = [c \in Chain |-> [samples |-> 0, percent |-> Nobody]]
  BY DEF Init, b, new, stk
<1> HIDE DEF d
<1>11. Balanced(Book) /\ Unstaken(Book) = Unstaken(d)
  <2> DEFINE e == Book
  <2>1. e.validator = d.validator /\ e.stake = d.stake /\ e.supply = d.supply
        /\ e.slashed = d.slashed
    BY <1>10 DEF Book
  <2> HIDE DEF e
  <2>2. Balanced(e) /\ Unstaken(e) = Unstaken(d)
    <3>1. d.supply \in Supply
          /\ d.slashed \in [Address -> [Chain -> 0 .. Param.maxSlashPerCommittee]]
      BY <1>9 DEF Balanced, Figures
    <3> QED BY <1>9, <2>1, <3>1, SameFigures DEF Unstaken
  <2> QED BY <2>2 DEF e
<1>12. SumOver(pool, Pool) = 0
  <2>1. \A p \in Pool : pool[p] = 0
    BY <1>10
  <2> QED BY <2>1, MintedNat, SumZero
<1>13. Unstaken(Book) = SumOver(account, Address) + SumOver(pool, Pool)
  BY <1>5, <1>9, <1>10, <1>11, <1>12 DEF Unstaken
<1>14. account \in [Address -> Nat] /\ pool \in [Pool -> Nat]
       /\ data \in [Chain -> [samples : Nat, percent : [Address -> Nat]]]
  BY <1>1, <1>10 DEF Nobody
<1> QED BY <1>11, <1>13, <1>14 DEF SupplyInv

LEMMA StepSupply == Inv /\ SupplyInv /\ [Next]_vars => SupplyInv'
<1> SUFFICES ASSUME Inv, SupplyInv, [Next]_vars PROVE SupplyInv'
  OBVIOUS
<1>1. CASE BeginBlock
  BY <1>1, BeginBlockSupply
<1>2. CASE \E c \in Chain, report \in Report : Certificate(c, report)
  <2> PICK c \in Chain, report \in Report : Certificate(c, report)
    BY <1>2
  <2>1. UNCHANGED <<account, pool>> /\ Certified(Book, c, report)
    BY DEF Certificate, Transaction
  <2> QED BY <2>1, CertificateSupply
<1>3. CASE \E a \in Address : \/ \E offer \in Offer : Stake(a, offer) \/ EditStake(a, offer)
                              \/ Unstake(a) \/ Pause(a) \/ Unpause(a)
  BY <1>3, TransactionSupply
<1>4. CASE EndBlock
  BY <1>4, EndBlockSupply
<1>5. CASE UNCHANGED vars
  BY <1>5, UnchangedSupply DEF vars
<1> QED BY <1>1, <1>2, <1>3, <1>4, <1>5 DEF Next

\* The invariant is what the property says of records, accounts and pools.
LEMMA BalancedAddsUp == SupplyInv => SupplyAddsUp
<1> SUFFICES ASSUME SupplyInv PROVE SupplyAddsUp
  OBVIOUS
<1> DEFINE delegates == {a \in Address : IsDelegate(validator[a])}
           held == [a \in Address |-> account[a] + stake[a]]
<1>1. /\ Balanced(Book) /\ Book.validator = validator /\ Book.stake = stake /\ Book.supply = supply
  BY DEF SupplyInv, Book
<1>2. /\ stake \in [Address -> Nat] /\ SumOver(stake, Address) \in Int /\ supply.total \in Int
      /\ \A a \in Address : stake[a] \in Int
  BY <1>1, StakesInt
<1>3. supply.total = SumOver(held, Address) + SumOver(pool, Pool)
  <2>1. \A a \in Address : account[a] \in Int
    BY SumsInt
  <2>2. \A a \in Address : stake[a] \in Int
    BY <1>2
  <2>3. \A a \in Address : held[a] = account[a] + stake[a]
    OBVIOUS
  <2>4. IsFiniteSet(Address)
    BY PeopleFinite
  <2> HIDE DEF held
  <2>5. SumOver(held, Address) = SumOver(account, Address) + SumOver(stake, Address)
    BY <2>1, <2>2, <2>3, <2>4, SumPlus
  <2>6. supply.total - SumOver(stake, Address) = SumOver(account, Address) + SumOver(pool, Pool)
    BY <1>1 DEF SupplyInv, Unstaken
  <2>7. SumOver(account, Address) \in Int /\ SumOver(pool, Pool) \in Int
    BY SumsInt
  <2> QED BY <1>2, <2>5, <2>6, <2>7
<1>4. ASSUME NEW f, \A a \in Address : f[a] \in Int, NEW g, \A a \in delegates : g[a] = f[a]
      PROVE  SumOver(OfDelegates(validator, f), Address) = SumOver(g, delegates)
  <2> DEFINE p == OfDelegates(validator, f)
  <2>1. /\ \A a \in delegates : g[a] \in Int
        /\ \A a \in delegates : p[a] = g[a]
        /\ \A a \in Address \ delegates : p[a] = 0
        /\ delegates \subseteq Address
    BY <1>4 DEF OfDelegates
  <2> HIDE DEF p, delegates
  <2>2. SumOver(p, Address) = SumOver(g, delegates)
    BY <2>1, PeopleFinite, SumWhere
  <2> QED BY <2>2 DEF p
<1>5. /\ supply.staked = SumOver(stake, Address)
      /\ supply.delegated >= SumOver(stake, delegates)
  <2>1. SumOver(OfDelegates(validator, stake), Address) = SumOver(stake, delegates)
    BY <1>2, <1>4
  <2>2. /\ supply.staked = SumOver(stake, Address)
        /\ supply.delegated >= SumOver(OfDelegates(validator, stake), Address)
    BY <1>1 DEF Balanced, Tallied
  <2> HIDE DEF delegates
  <2> QED BY <2>1, <2>2
<1>6. ASSUME NEW c \in Chain
      PROVE  /\ supply.committee[c] = SumOver([a \in Address |-> StakeFor(Book, a, c)], Address)
             /\ supply.committeeDelegated[c]
                  >= SumOver([a \in delegates |-> StakeFor(Book, a, c)], delegates)
  <2> DEFINE f == ForCommittee(Book, c)
             g == [a \in delegates |-> StakeFor(Book, a, c)]
  <2>1. f = [a \in Address |-> StakeFor(Book, a, c)]
    BY DEF ForCommittee
  <2>2. \A a \in Address : f[a] \in Int
    <3>1. Stakes(Book.validator, Book.stake)
      BY <1>1 DEF Balanced, Figures
    <3>2. \A a \in Address : StakeFor(Book, a, c) \in Int
      BY <3>1, StakeForInt
    <3> QED BY <2>1, <3>2
  <2>3. \A a \in delegates : g[a] = f[a]
    BY <2>1
  <2>4. SumOver(OfDelegates(validator, f), Address) = SumOver(g, delegates)
    <3> HIDE DEF f, g, delegates
    <3> QED BY <1>4, <2>2, <2>3
  <2>5. /\ supply.committee[c] = SumOver(f, Address)
        /\ supply.committeeDelegated[c] >= SumOver(OfDelegates(validator, f), Address)
    BY <1>1 DEF Balanced, Tallied
  <2> QED BY <2>1, <2>4, <2>5
<1> QED BY <1>3, <1>5, <1>6 DEF SupplyAddsUp

\* The supply tracker is what accounts, pools and stakes hold, and the figures of
\* committees are those of their members, whatever is staked, slashed, minted,
\* paid out, burnt and released.
THEOREM SupplyAlwaysAddsUp == Spec => []SupplyAddsUp
<1>1. Inv /\ SupplyInv /\ [Next]_vars => (Inv /\ SupplyInv)'
  BY StepInv, StepSupply
<1>2. Init => Inv /\ SupplyInv
  BY InitInv, InitSupply
<1> QED BY <1>1, <1>2, BalancedAddsUp, PTL DEF Spec
=============================================================================
