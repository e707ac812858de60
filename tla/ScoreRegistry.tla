----------------------------- MODULE ScoreRegistry -----------------------------
(***************************************************************************)
(* The GossipSub application-specific score registry                       *)
(* (network/p2p/scoring/registry.go).  Invalid-control-message             *)
(* notifications arrive on concurrent goroutines; each one, under the      *)
(* registry mutex, initialises the peer's spam record in the size-limited  *)
(* cache (Add) and then applies the misbehaviour penalty to it (Adjust).   *)
(* GossipSub's score refresh calls AppSpecificScoreFunc for every peer     *)
(* without the mutex: it reads the spam record through the cache, whose    *)
(* preprocessor (DefaultDecayFunction) decays it, and combines it with the *)
(* staking score and the subscription penalty.                             *)
(*                                                                         *)
(* The cache (GossipSubSpamRecordCache) is not under src/; its contract is *)
(* taken as given: each call is atomic, Add inserts only an absent peer    *)
(* and evicts another entry when the cache is full, Adjust and Get run the *)
(* decay preprocessor and store its result, and Adjust of an absent peer   *)
(* is an error.  Penalties are integers: MisbehaviourPenalty and           *)
(* SkipDecayThreshold stand for -10 and -0.1, preserving their order.      *)
(* GeometricDecay(p, 0.99, lastUpdated) = p * 0.99^t lies strictly between *)
(* p and 0 for t > 0; a refresh sees time elapsed since the last update,   *)
(* so the decayed penalty is any integer above p and below 0.              *)
(***************************************************************************)
EXTENDS Integers, FiniteSets

CONSTANTS
  Peers,                 \* peer IDs
  Notifiers,             \* goroutines delivering notifications
  Role,                  \* peer -> "unstaked", "access" or another role
  Violators,             \* peers subscribed to topics their role forbids
  CacheSize,             \* capacity of the spam record cache
  MaxNotifications,      \* bound on the notifications of a run
  MisbehaviourPenalty,   \* r.penalty.Graft, .Prune, .IHave, .IWant
  SkipDecayThreshold,    \* skipDecayThreshold
  MaxAppSpecificPenalty, MinAppSpecificPenalty, MaxAppSpecificReward,
  NoOwner, NoRecord, NotScored

ASSUME RegistryAssumption ==
  /\ Peers # {} /\ IsFiniteSet(Peers)
  /\ Role \in [Peers -> {"unstaked", "access", "staked"}]
  /\ Violators \subseteq Peers
  /\ CacheSize \in Nat \ {0}
  /\ MaxNotifications \in Nat
  /\ {MisbehaviourPenalty, SkipDecayThreshold, MaxAppSpecificPenalty,
      MinAppSpecificPenalty, MaxAppSpecificReward} \subseteq Int
  /\ MisbehaviourPenalty < SkipDecayThreshold /\ SkipDecayThreshold < 0
  /\ MaxAppSpecificPenalty < 0 /\ MinAppSpecificPenalty < 0
  /\ MaxAppSpecificReward > 0
  /\ NoOwner \notin Notifiers
  /\ NoRecord \notin Int /\ NotScored \notin Int

VARIABLES
  cache,        \* peer -> spam penalty, or NoRecord
  mu,           \* the notifier holding r.mu, or NoOwner
  notifierPc,   \* notifier -> "idle" or "added"
  target,       \* notifier -> the peer of its current notification
  notified,     \* notifications delivered so far
  fatal,        \* the node was crashed by lg.Fatal
  lastScore     \* peer -> the last score the refresh computed

vars == <<cache, mu, notifierPc, target, notified, fatal, lastScore>>

Cached == {p \in Peers : cache[p] # NoRecord}

Init ==
  /\ cache = [p \in Peers |-> NoRecord]
  /\ mu = NoOwner
  /\ notifierPc = [n \in Notifiers |-> "idle"]
  /\ target = [n \in Notifiers |-> CHOOSE p \in Peers : TRUE]
  /\ notified = 0
  /\ fatal = FALSE
  /\ lastScore = [p \in Peers |-> NotScored]

-----------------------------------------------------------------------------
(* Mutant: a small negative penalty is returned unchanged, not zeroed.  *)
DecayedPenaltiesNoSkip(penalty) ==
  IF penalty >= 0 THEN {penalty}
  ELSE IF penalty > SkipDecayThreshold THEN {penalty}
  ELSE penalty + 1 .. -1

(* DefaultDecayFunction: the penalties the preprocessor may return.        *)
DecayedPenalties(penalty) ==
  IF penalty >= 0 THEN {penalty}
  ELSE IF penalty > SkipDecayThreshold THEN {0}
  ELSE penalty + 1 .. -1

(* Mutant: the cache grows past its capacity.                           *)
CacheAddNoEviction(p) ==
  IF cache[p] # NoRecord THEN cache' = cache
  ELSE cache' = [cache EXCEPT ![p] = 0]

(* spamScoreCache.Add(pid, InitAppScoreRecordState()): a new record of     *)
(* penalty 0, evicting another record when the cache is full.              *)
CacheAdd(p) ==
  IF cache[p] # NoRecord THEN cache' = cache
  ELSE IF Cardinality(Cached) < CacheSize THEN cache' = [cache EXCEPT ![p] = 0]
  ELSE \E victim \in Cached :
         cache' = [cache EXCEPT ![victim] = NoRecord, ![p] = 0]

(* Mutant: a notifier does not take the registry mutex.                  *)
NotificationAddUnlocked(n, p) ==
  /\ notifierPc[n] = "idle"
  /\ notified < MaxNotifications
  /\ CacheAdd(p)
  /\ notifierPc' = [notifierPc EXCEPT ![n] = "added"]
  /\ target' = [target EXCEPT ![n] = p]
  /\ notified' = notified + 1
  /\ UNCHANGED <<mu, fatal, lastScore>>

(* OnInvalidControlMessageNotification, first half: r.mu.Lock(), then     *)
(* Add initialises the peer's record if it is not cached.                  *)
NotificationAdd(n, p) ==
  /\ notifierPc[n] = "idle"
  /\ notified < MaxNotifications
  /\ mu = NoOwner
  /\ mu' = n
  /\ CacheAdd(p)
  /\ notifierPc' = [notifierPc EXCEPT ![n] = "added"]
  /\ target' = [target EXCEPT ![n] = p]
  /\ notified' = notified + 1
  /\ UNCHANGED <<fatal, lastScore>>

(* Second half: Adjust decays the record and adds the penalty of the       *)
(* message type; an error from Adjust (the record is gone) is Fatal.       *)
(* The deferred r.mu.Unlock() follows.                                     *)
NotificationAdjust(n) ==
  LET p == target[n] IN
  /\ notifierPc[n] = "added"
  /\ IF cache[p] = NoRecord
       THEN /\ fatal' = TRUE
            /\ UNCHANGED cache
       ELSE /\ \E d \in DecayedPenalties(cache[p]) :
                 cache' = [cache EXCEPT ![p] = d + MisbehaviourPenalty]
            /\ UNCHANGED fatal
  /\ mu' = IF mu = n THEN NoOwner ELSE mu
  /\ notifierPc' = [notifierPc EXCEPT ![n] = "idle"]
  /\ UNCHANGED <<target, notified, lastScore>>

-----------------------------------------------------------------------------
(* stakingScore: a penalty for peers without a valid identity, the minimum *)
(* penalty for access nodes, the maximum reward otherwise.                 *)
StakingScore(p) ==
  CASE Role[p] = "unstaked" -> MaxAppSpecificPenalty
    [] Role[p] = "access"   -> MinAppSpecificPenalty
    [] OTHER                -> MaxAppSpecificReward

(* subscriptionPenalty                                                     *)
SubscriptionPenalty(p) == IF p \in Violators THEN MaxAppSpecificPenalty ELSE 0

(* Mutant: the staking reward is granted before the subscription penalty  *)
(* is added.                                                              *)
ScoreOfRewardFirst(p, spam) ==
  LET staking == StakingScore(p)
      s1 == spam + (IF staking < 0 THEN staking ELSE 0)
      s2 == IF staking > 0 /\ s1 = 0 THEN s1 + staking ELSE s1
  IN IF staking > 0 THEN s2 + SubscriptionPenalty(p) ELSE s2

(* The body of AppSpecificScoreFunc given the spam penalty it read (0      *)
(* when the peer has no record).                                           *)
ScoreOf(p, spam) ==
  LET staking == StakingScore(p)
      s1 == spam + (IF staking < 0 THEN staking ELSE 0)
      s2 == IF staking > 0 THEN s1 + SubscriptionPenalty(p) ELSE s1
  IN IF staking > 0 /\ s2 = 0 THEN s2 + staking ELSE s2

(* GossipSub's refresh scores peer p: spamScoreCache.Get decays and        *)
(* stores the record, then the score is computed from it.                  *)
AppSpecificScore(p) ==
  /\ IF cache[p] = NoRecord
       THEN /\ lastScore' = [lastScore EXCEPT ![p] = ScoreOf(p, 0)]
            /\ UNCHANGED cache
       ELSE \E d \in DecayedPenalties(cache[p]) :
              /\ cache' = [cache EXCEPT ![p] = d]
              /\ lastScore' = [lastScore EXCEPT ![p] = ScoreOf(p, d)]
  /\ UNCHANGED <<mu, notifierPc, target, notified, fatal>>

Next ==
  \/ \E n \in Notifiers, p \in Peers : NotificationAdd(n, p)
  \/ \E n \in Notifiers : NotificationAdjust(n)
  \/ \E p \in Peers : AppSpecificScore(p)

(* Each notifier goroutine runs to the end of its handler, and GossipSub   *)
(* refreshes every peer's score periodically.                              *)
Spec ==
  /\ Init /\ [][Next]_vars
  /\ \A n \in Notifiers : WF_vars(NotificationAdjust(n))
  /\ \A p \in Peers : WF_vars(AppSpecificScore(p))

-----------------------------------------------------------------------------
TypeOK ==
  /\ cache \in [Peers -> Int \cup {NoRecord}]
  /\ Cardinality(Cached) <= CacheSize
  /\ mu \in Notifiers \cup {NoOwner}
  /\ notifierPc \in [Notifiers -> {"idle", "added"}]
  /\ target \in [Notifiers -> Peers]
  /\ notified \in 0 .. MaxNotifications
  /\ fatal \in BOOLEAN
  /\ lastScore \in [Peers -> Int \cup {NotScored}]

(***************************************************************************)
(* The node is never crashed by the "could not adjust" Fatal: between a    *)
(* notification's Add and its Adjust no other notification can evict the  *)
(* record from a full cache, because both run under r.mu.                  *)
(***************************************************************************)
AdjustFindsRecord == ~fatal

(***************************************************************************)
(* A penalised peer is never rewarded: whenever the refresh scores a peer  *)
(* that is unstaked, an access node, subscribed to a forbidden topic, or   *)
(* whose decayed spam penalty is still negative, the score is negative;    *)
(* a clean staked peer gets exactly the maximum reward.                    *)
(***************************************************************************)
PenalisedNeverRewarded ==
  [][\A p \in Peers :
       lastScore'[p] # lastScore[p] =>
         LET spam == IF cache'[p] = NoRecord THEN 0 ELSE cache'[p] IN
         IF Role[p] = "staked" /\ p \notin Violators /\ spam = 0
           THEN lastScore'[p] = MaxAppSpecificReward
           ELSE lastScore'[p] < 0
    ]_<<lastScore>>

(***************************************************************************)
(* A clean staked peer that was penalised gets its reward back: once       *)
(* notifications stop, the refreshes decay its penalty until it is         *)
(* forgotten (the skipDecayThreshold step sets it to 0) and it is scored   *)
(* with the maximum reward again.                                          *)
(***************************************************************************)
PenaltyEventuallyForgiven ==
  \A p \in Peers :
    (Role[p] = "staked" /\ p \notin Violators) =>
      ((cache[p] # NoRecord /\ cache[p] < 0)
         ~> lastScore[p] = MaxAppSpecificReward)

=============================================================================
