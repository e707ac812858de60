-------------------------- MODULE ScoreRegistryProofs --------------------------
(***************************************************************************)
(* Proofs, for every set of peers and notifiers and every penalty values   *)
(* that satisfy RegistryAssumption, that the registry never reaches the    *)
(* "could not adjust" Fatal and that the refresh never rewards a penalised *)
(* peer.                                                                   *)
(***************************************************************************)
EXTENDS ScoreRegistry, FiniteSetTheorems, TLAPS

(* The type invariant without the bound on the cache's size, which the     *)
(* properties below do not need.                                           *)
TypeP ==
  /\ cache \in [Peers -> Int \cup {NoRecord}]
  /\ mu \in Notifiers \cup {NoOwner}
  /\ notifierPc \in [Notifiers -> {"idle", "added"}]
  /\ target \in [Notifiers -> Peers]
  /\ notified \in Nat
  /\ fatal \in BOOLEAN
  /\ lastScore \in [Peers -> Int \cup {NotScored}]

(* A notifier between Add and Adjust holds r.mu and its peer's record is   *)
(* cached.                                                                 *)
LockHeld ==
  \A n \in Notifiers :
    notifierPc[n] = "added" => mu = n /\ cache[target[n]] # NoRecord

(* No spam record is ever positive.                                        *)
PenaltiesNonPositive == \A p \in Peers : cache[p] # NoRecord => cache[p] <= 0

IInv == TypeP /\ LockHeld /\ PenaltiesNonPositive /\ AdjustFindsRecord

-----------------------------------------------------------------------------
(* The decay preprocessor keeps a penalty an integer, and a non-positive   *)
(* one non-positive.                                                       *)
LEMMA DecayedNonPositive ==
  ASSUME NEW c \in Int, c <= 0, NEW d \in DecayedPenalties(c)
  PROVE  d \in Int /\ d <= 0
<1>1. SkipDecayThreshold \in Int /\ SkipDecayThreshold < 0
  BY RegistryAssumption
<1>2. QED
  BY <1>1 DEF DecayedPenalties

(* Add leaves the peer's record cached and every other record either      *)
(* unchanged or evicted.                                                   *)
LEMMA CacheAddResult ==
  ASSUME TypeP, PenaltiesNonPositive, NEW p \in Peers, CacheAdd(p)
  PROVE  /\ cache' \in [Peers -> Int \cup {NoRecord}]
         /\ cache'[p] # NoRecord
         /\ \A q \in Peers : cache'[q] # NoRecord => cache'[q] <= 0
<1>1. NoRecord \notin Int
  BY RegistryAssumption
<1>2. CASE cache[p] # NoRecord
  BY <1>2 DEF CacheAdd, TypeP, PenaltiesNonPositive
<1>3. CASE cache[p] = NoRecord /\ Cardinality(Cached) < CacheSize
  BY <1>1, <1>3 DEF CacheAdd, TypeP, PenaltiesNonPositive
<1>4. CASE cache[p] = NoRecord /\ ~(Cardinality(Cached) < CacheSize)
  <2>1. PICK victim \in Cached :
          cache' = [cache EXCEPT ![victim] = NoRecord, ![p] = 0]
    BY <1>4 DEF CacheAdd
  <2>2. victim \in Peers
    BY <2>1 DEF Cached
  <2>3. QED
    BY <1>1, <2>1, <2>2 DEF TypeP, PenaltiesNonPositive
<1>5. QED
  BY <1>2, <1>3, <1>4

-----------------------------------------------------------------------------
(* The inductive invariant holds initially.                                *)
LEMMA InitIInv == Init => IInv
<1> SUFFICES ASSUME Init PROVE IInv
  OBVIOUS
<1>1. (CHOOSE p \in Peers : TRUE) \in Peers
  BY RegistryAssumption
<1>2. TypeP
  BY <1>1 DEF Init, TypeP
<1>3. QED
  BY <1>2 DEF Init, IInv, LockHeld, PenaltiesNonPositive, AdjustFindsRecord

(* Every step preserves the inductive invariant.                           *)
LEMMA NextIInv == IInv /\ [Next]_vars => IInv'
<1> SUFFICES ASSUME IInv, [Next]_vars PROVE IInv'
  OBVIOUS
<1>0. /\ NoRecord \notin Int
      /\ NoOwner \notin Notifiers
      /\ MisbehaviourPenalty \in Int /\ MisbehaviourPenalty < 0
  BY RegistryAssumption
<1>1. ASSUME NEW n \in Notifiers, NEW p \in Peers, NotificationAdd(n, p)
      PROVE  IInv'
  <2>1. /\ cache' \in [Peers -> Int \cup {NoRecord}]
        /\ cache'[p] # NoRecord
        /\ \A q \in Peers : cache'[q] # NoRecord => cache'[q] <= 0
    BY <1>1, CacheAddResult DEF IInv, NotificationAdd
  <2>2. \A m \in Notifiers : notifierPc[m] = "idle"
    BY <1>0, <1>1 DEF IInv, TypeP, LockHeld, NotificationAdd
  <2>3. TypeP'
    BY <1>1, <2>1 DEF IInv, TypeP, NotificationAdd
  <2>4. LockHeld'
    BY <1>1, <2>1, <2>2 DEF IInv, TypeP, LockHeld, NotificationAdd
  <2>5. QED
    BY <1>1, <2>1, <2>3, <2>4
       DEF IInv, PenaltiesNonPositive, AdjustFindsRecord, NotificationAdd
<1>2. ASSUME NEW n \in Notifiers, NotificationAdjust(n)
      PROVE  IInv'
  <2> DEFINE p == target[n]
  <2>1. notifierPc[n] = "added" /\ mu = n /\ p \in Peers /\ cache[p] \in Int
    BY <1>0, <1>2 DEF IInv, TypeP, LockHeld, NotificationAdjust
  <2>2. PICK d \in DecayedPenalties(cache[p]) :
          cache' = [cache EXCEPT ![p] = d + MisbehaviourPenalty]
    BY <1>0, <1>2, <2>1 DEF NotificationAdjust
  <2>3. cache[p] <= 0
    BY <1>0, <2>1 DEF IInv, PenaltiesNonPositive
  <2>7. d \in Int /\ d <= 0
    BY <2>1, <2>2, <2>3, DecayedNonPositive
  <2>4. /\ fatal' = fatal /\ mu' = NoOwner
        /\ notifierPc' = [notifierPc EXCEPT ![n] = "idle"]
        /\ UNCHANGED <<target, notified, lastScore>>
    BY <1>0, <1>2, <2>1 DEF NotificationAdjust
  <2>5. \A m \in Notifiers : m # n => notifierPc[m] = "idle"
    BY <2>1 DEF IInv, TypeP, LockHeld
  <2>6. QED
    BY <1>0, <2>1, <2>2, <2>7, <2>4, <2>5
       DEF IInv, TypeP, LockHeld, PenaltiesNonPositive, AdjustFindsRecord
<1>3. ASSUME NEW p \in Peers, AppSpecificScore(p)
      PROVE  IInv'
  <2>1. CASE cache[p] = NoRecord
    <3>1. ScoreOf(p, 0) \in Int
      BY RegistryAssumption DEF ScoreOf, StakingScore, SubscriptionPenalty
    <3>2. QED
      BY <1>3, <2>1, <3>1
         DEF AppSpecificScore, IInv, TypeP, LockHeld, PenaltiesNonPositive,
             AdjustFindsRecord
  <2>2. CASE cache[p] # NoRecord
    <3>1. PICK d \in DecayedPenalties(cache[p]) :
            /\ cache' = [cache EXCEPT ![p] = d]
            /\ lastScore' = [lastScore EXCEPT ![p] = ScoreOf(p, d)]
      BY <1>3, <2>2 DEF AppSpecificScore
    <3>2. d \in Int /\ d <= 0
      BY <2>2, DecayedNonPositive DEF IInv, TypeP, PenaltiesNonPositive
    <3>3. ScoreOf(p, d) \in Int
      BY <3>2, RegistryAssumption DEF ScoreOf, StakingScore, SubscriptionPenalty
    <3>4. QED
      BY <1>0, <1>3, <3>1, <3>2, <3>3
         DEF AppSpecificScore, IInv, TypeP, LockHeld, PenaltiesNonPositive,
             AdjustFindsRecord
  <2>3. QED
    BY <2>1, <2>2
<1>4. CASE UNCHANGED vars
  BY <1>4 DEF vars, IInv, TypeP, LockHeld, PenaltiesNonPositive,
              AdjustFindsRecord
<1>5. QED
  BY <1>1, <1>2, <1>3, <1>4 DEF Next

(***************************************************************************)
(* AdjustFindsRecord holds in every reachable state: no interleaving of    *)
(* notifications and score refreshes crashes the node through the "could   *)
(* not adjust" Fatal of OnInvalidControlMessageNotification.               *)
(***************************************************************************)
THEOREM AdjustNeverFatal == Spec => []AdjustFindsRecord
<1>1. Init => IInv
  BY InitIInv
<1>2. IInv /\ [Next]_vars => IInv'
  BY NextIInv
<1>3. IInv => AdjustFindsRecord
  BY DEF IInv
<1>4. QED
  BY <1>1, <1>2, <1>3, PTL DEF Spec

-----------------------------------------------------------------------------
(* The cache holds at most CacheSize records, and the run's notifications  *)
(* stay within their bound.                                                *)
CacheBounded ==
  /\ Cardinality(Cached) <= CacheSize
  /\ notified \in 0 .. MaxNotifications

(* The set of cached peers is finite, before and after a step.             *)
LEMMA CachedFinite == IsFiniteSet(Cached) /\ IsFiniteSet(Cached')
<1>1. IsFiniteSet(Peers)
  BY RegistryAssumption
<1>2. Cached \subseteq Peers /\ Cached' \subseteq Peers
  BY DEF Cached
<1>3. QED BY <1>1, <1>2, FS_Subset

(* A step that leaves the set of cached peers alone keeps the bound.       *)
LEMMA SameCachedBound ==
  ASSUME CacheBounded, Cached' = Cached, notified' = notified
  PROVE  CacheBounded'
  BY DEF CacheBounded

(* Add inserts at most one record, evicting one when the cache is full.    *)
LEMMA CacheAddBound ==
  ASSUME TypeP, Cardinality(Cached) <= CacheSize, NEW p \in Peers,
         CacheAdd(p)
  PROVE  Cardinality(Cached') <= CacheSize
<1>0. /\ IsFiniteSet(Cached) /\ Cardinality(Cached) \in Nat
      /\ CacheSize \in Nat /\ NoRecord \notin Int
  BY CachedFinite, FS_CardinalityType, RegistryAssumption
<1>1. CASE cache[p] # NoRecord
  BY <1>1 DEF CacheAdd, Cached
<1>2. CASE cache[p] = NoRecord /\ Cardinality(Cached) < CacheSize
  <2>1. Cached' = Cached \cup {p}
    BY <1>0, <1>2 DEF CacheAdd, Cached, TypeP
  <2>2. Cardinality(Cached \cup {p}) =
          IF p \in Cached THEN Cardinality(Cached) ELSE Cardinality(Cached) + 1
    BY <1>0, FS_AddElement
  <2>3. Cardinality(Cached') = Cardinality(Cached \cup {p})
    BY <2>1, Zenon
  <2>4. QED BY <1>0, <1>2, <2>2, <2>3
<1>3. CASE cache[p] = NoRecord /\ ~(Cardinality(Cached) < CacheSize)
  <2>1. PICK victim \in Cached :
          cache' = [cache EXCEPT ![victim] = NoRecord, ![p] = 0]
    BY <1>3 DEF CacheAdd
  <2>2. victim \in Peers /\ victim # p
    BY <1>3, <2>1 DEF Cached
  <2>3. Cached' = (Cached \ {victim}) \cup {p}
    BY <1>0, <2>1, <2>2 DEF Cached, TypeP
  <2>4. /\ IsFiniteSet(Cached \ {victim})
        /\ Cardinality(Cached \ {victim}) = Cardinality(Cached) - 1
    BY <1>0, <2>1, FS_RemoveElement
  <2>5. Cardinality((Cached \ {victim}) \cup {p}) =
          IF p \in Cached \ {victim}
            THEN Cardinality(Cached \ {victim})
            ELSE Cardinality(Cached \ {victim}) + 1
    BY <2>4, FS_AddElement
  <2>6. Cardinality(Cached') = Cardinality((Cached \ {victim}) \cup {p})
    BY <2>3, Zenon
  <2>7. QED BY <1>0, <1>3, <2>4, <2>5, <2>6
<1>4. QED BY <1>1, <1>2, <1>3

LEMMA InitBound == Init => CacheBounded
<1> SUFFICES ASSUME Init PROVE CacheBounded
  OBVIOUS
<1>1. Cached = {}
  BY DEF Init, Cached
<1>2. QED BY <1>1, FS_EmptySet, RegistryAssumption DEF Init, CacheBounded

LEMMA NextBound == IInv /\ CacheBounded /\ [Next]_vars => CacheBounded'
<1> SUFFICES ASSUME IInv, CacheBounded, [Next]_vars PROVE CacheBounded'
  OBVIOUS
<1>0. NoRecord \notin Int /\ MisbehaviourPenalty \in Int
  BY RegistryAssumption
<1>1. ASSUME NEW n \in Notifiers, NEW p \in Peers, NotificationAdd(n, p)
      PROVE  CacheBounded'
  <2>1. Cardinality(Cached') <= CacheSize
    BY <1>1, CacheAddBound DEF IInv, CacheBounded, NotificationAdd
  <2>2. QED BY <1>1, <2>1, RegistryAssumption DEF CacheBounded, NotificationAdd
<1>2. ASSUME NEW n \in Notifiers, NotificationAdjust(n)
      PROVE  CacheBounded'
  <2> DEFINE p == target[n]
  <2>1. p \in Peers /\ cache[p] \in Int /\ cache[p] <= 0
    BY <1>0, <1>2
    DEF IInv, TypeP, LockHeld, PenaltiesNonPositive, NotificationAdjust
  <2>2. PICK d \in DecayedPenalties(cache[p]) :
          cache' = [cache EXCEPT ![p] = d + MisbehaviourPenalty]
    BY <1>0, <1>2, <2>1 DEF NotificationAdjust
  <2>3. d \in Int
    BY <2>1, DecayedNonPositive
  <2>4. Cached' = Cached
    BY <1>0, <2>1, <2>2, <2>3 DEF Cached, IInv, TypeP
  <2>5. QED BY <1>2, <2>4, SameCachedBound DEF NotificationAdjust
<1>3. ASSUME NEW p \in Peers, AppSpecificScore(p)
      PROVE  CacheBounded'
  <2>1. CASE cache[p] = NoRecord
    BY <1>3, <2>1, SameCachedBound DEF AppSpecificScore, Cached
  <2>2. CASE cache[p] # NoRecord
    <3>1. PICK d \in DecayedPenalties(cache[p]) :
            cache' = [cache EXCEPT ![p] = d]
      BY <1>3, <2>2 DEF AppSpecificScore
    <3>2. d \in Int
      BY <2>2, DecayedNonPositive DEF IInv, TypeP, PenaltiesNonPositive
    <3>3. Cached' = Cached
      BY <1>0, <2>2, <3>1, <3>2 DEF Cached, IInv, TypeP
    <3>4. QED BY <1>3, <3>3, SameCachedBound DEF AppSpecificScore
  <2>3. QED BY <2>1, <2>2
<1>4. CASE UNCHANGED vars
  BY <1>4, SameCachedBound DEF vars, Cached
<1>5. QED BY <1>1, <1>2, <1>3, <1>4 DEF Next

(***************************************************************************)
(* The registry's state is always well typed, and in particular the spam   *)
(* record cache never holds more than CacheSize records: whatever the      *)
(* interleaving of notifications and refreshes, Add evicts a record before *)
(* it inserts one into a full cache, and Adjust and the refresh's Get only *)
(* rewrite records that are cached.                                        *)
(***************************************************************************)
THEOREM RegistryTypeCorrect == Spec => []TypeOK
<1>1. Init => IInv /\ CacheBounded
  BY InitIInv, InitBound
<1>2. IInv /\ CacheBounded /\ [Next]_vars => (IInv /\ CacheBounded)'
  BY NextIInv, NextBound
<1>3. IInv /\ CacheBounded => TypeOK
  BY DEF IInv, TypeP, CacheBounded, TypeOK
<1>4. QED BY <1>1, <1>2, <1>3, PTL DEF Spec

-----------------------------------------------------------------------------
(* ScoreOf on a non-positive spam penalty: negative for a penalised peer,  *)
(* the maximum reward for a clean staked one.                              *)
LEMMA ScoreOfSign ==
  ASSUME NEW p \in Peers, NEW spam \in Int, spam <= 0
  PROVE  IF Role[p] = "staked" /\ p \notin Violators /\ spam = 0
           THEN ScoreOf(p, spam) = MaxAppSpecificReward
           ELSE ScoreOf(p, spam) < 0
<1>1. /\ Role[p] \in {"unstaked", "access", "staked"}
      /\ MaxAppSpecificPenalty \in Int /\ MaxAppSpecificPenalty < 0
      /\ MinAppSpecificPenalty \in Int /\ MinAppSpecificPenalty < 0
      /\ MaxAppSpecificReward \in Int /\ MaxAppSpecificReward > 0
  BY RegistryAssumption
<1>2. CASE Role[p] = "staked"
  BY <1>1, <1>2 DEF ScoreOf, StakingScore, SubscriptionPenalty
<1>3. CASE Role[p] # "staked"
  BY <1>1, <1>3 DEF ScoreOf, StakingScore, SubscriptionPenalty
<1>4. QED
  BY <1>2, <1>3

(***************************************************************************)
(* PenalisedNeverRewarded holds for every step: a score the refresh        *)
(* computes is the maximum reward exactly for a clean staked peer with no  *)
(* spam penalty left, and negative for every other peer.                   *)
(***************************************************************************)
THEOREM NeverRewardPenalised == Spec => PenalisedNeverRewarded
<1>1. IInv /\ [Next]_vars =>
        [\A p \in Peers :
           lastScore'[p] # lastScore[p] =>
             LET spam == IF cache'[p] = NoRecord THEN 0 ELSE cache'[p] IN
             IF Role[p] = "staked" /\ p \notin Violators /\ spam = 0
               THEN lastScore'[p] = MaxAppSpecificReward
               ELSE lastScore'[p] < 0]_<<lastScore>>
  <2> SUFFICES ASSUME IInv, [Next]_vars, NEW q \in Peers,
                      lastScore'[q] # lastScore[q]
               PROVE  LET spam == IF cache'[q] = NoRecord THEN 0 ELSE cache'[q] IN
                      IF Role[q] = "staked" /\ q \notin Violators /\ spam = 0
                        THEN lastScore'[q] = MaxAppSpecificReward
                        ELSE lastScore'[q] < 0
    OBVIOUS
  <2>1. PICK p \in Peers : AppSpecificScore(p)
    BY DEF Next, vars, NotificationAdd, NotificationAdjust
  <2>2. p = q
    BY <2>1 DEF AppSpecificScore, IInv, TypeP
  <2>3. CASE cache[p] = NoRecord
    <3>1. lastScore'[q] = ScoreOf(q, 0) /\ cache'[q] = NoRecord
      BY <2>1, <2>2, <2>3 DEF AppSpecificScore, IInv, TypeP
    <3>2. QED
      BY <3>1, ScoreOfSign
  <2>4. CASE cache[p] # NoRecord
    <3>1. PICK d \in DecayedPenalties(cache[p]) :
            /\ cache' = [cache EXCEPT ![p] = d]
            /\ lastScore' = [lastScore EXCEPT ![p] = ScoreOf(p, d)]
      BY <2>1, <2>4 DEF AppSpecificScore
    <3>2. d \in Int /\ d <= 0
      BY <2>4, DecayedNonPositive DEF IInv, TypeP, PenaltiesNonPositive
    <3>3. cache'[q] = d /\ lastScore'[q] = ScoreOf(q, d)
      BY <2>2, <3>1 DEF IInv, TypeP
    <3>4. NoRecord \notin Int
      BY RegistryAssumption
    <3>5. QED
      BY <3>2, <3>3, <3>4, ScoreOfSign
  <2>5. QED
    BY <2>3, <2>4
<1>2. QED
  BY <1>1, InitIInv, NextIInv, PTL DEF Spec, PenalisedNeverRewarded

=============================================================================
