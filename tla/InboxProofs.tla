---------------------------- MODULE InboxProofs ----------------------------
(***************************************************************************)
(* Proofs about the inbox.  The gate (InboxGate), for any set of start     *)
(* calls: what makes its invariants inductive is that release and close    *)
(* are one step, and that whoever polls holds the poller's mark.  The feed *)
(* (InboxFeed), for any number of messages, cap and crashes: a batch under *)
(* way follows the cursor without a gap, and every copy of the feed, in    *)
(* memory, exported or on disk, knows what its cursor passes.              *)
(***************************************************************************)
EXTENDS InboxGate, InboxFeed, FiniteSetTheorems, WellFoundedInduction, TLAPS

(* The surface is released exactly when the store's close has been called. *)
ReleaseClosesStore == released <=> closing # "no"

(* The mark is held by the one that polls.                                 *)
MarkHeld == polling # {} => inFlight /\ \E who \in Starts \cup {Tick} : polling = {who}

GateInv ==
  /\ TypeOK
  /\ ReleaseClosesStore
  /\ NothingArmedAfterRelease
  /\ MarkHeld
  /\ StartedIsPolling

-----------------------------------------------------------------------------
LEMMA InitGateInv == Init => GateInv
<1> SUFFICES ASSUME Init PROVE GateInv
  OBVIOUS
<1>1. TypeOK
  <2>1. start \in [Starts -> {"none", "waiting", "seeding", "done", "rejected"}]
    BY DEF Init
  <2>2. QED
    BY <2>1 DEF Init, TypeOK
<1>2. ReleaseClosesStore /\ NothingArmedAfterRelease /\ MarkHeld /\ StartedIsPolling
  BY DEF Init, ReleaseClosesStore, NothingArmedAfterRelease, MarkHeld, StartedIsPolling
<1>3. QED
  BY <1>1, <1>2 DEF GateInv

LEMMA StepTypeOK == GateInv /\ [Next]_vars => TypeOK'
<1> SUFFICES ASSUME GateInv, [Next]_vars PROVE TypeOK'
  OBVIOUS
<1> USE DEF GateInv, TypeOK, storeVars, pollVars
<1>1. ASSUME NEW ok \in BOOLEAN, OpenStore(ok) PROVE TypeOK'
  BY <1>1 DEF OpenStore
<1>2. CASE BootEnds
  BY <1>2 DEF BootEnds, ArmedSweepTimer
<1>3. ASSUME NEW s \in Starts, CallStart(s) PROVE TypeOK'
  BY <1>3 DEF CallStart
<1>4. ASSUME NEW s \in Starts, SeedSkipped(s) PROVE TypeOK'
  BY <1>4 DEF SeedSkipped, ArmedAfterSkip, AnswerAfterSkip, ArmProvider
<1>5. ASSUME NEW s \in Starts, Seed(s) PROVE TypeOK'
  BY <1>5 DEF Seed
<1>6. ASSUME NEW s \in Starts, SeedEnds(s) PROVE TypeOK'
  BY <1>6 DEF SeedEnds, ArmProvider
<1>7. CASE CallStop
  BY <1>7 DEF CallStop
<1>8. CASE TickPolls \/ TickEnds
  BY <1>8 DEF TickPolls, TickEnds
<1>9. CASE Unregister \/ CloseStore
  BY <1>9 DEF Unregister, CloseStore
<1>10. CASE UNCHANGED vars
  BY <1>10 DEF vars
<1>11. QED
  BY <1>1, <1>2, <1>3, <1>4, <1>5, <1>6, <1>7, <1>8, <1>9, <1>10 DEF Next, StartStep

LEMMA StepReleased ==
  GateInv /\ [Next]_vars => ReleaseClosesStore' /\ NothingArmedAfterRelease'
<1> SUFFICES ASSUME GateInv, [Next]_vars
             PROVE  ReleaseClosesStore' /\ NothingArmedAfterRelease'
  OBVIOUS
<1> USE DEF GateInv, TypeOK, ReleaseClosesStore, NothingArmedAfterRelease, storeVars, pollVars
<1>1. CASE BootEnds
  BY <1>1 DEF BootEnds, ArmedSweepTimer
<1>2. ASSUME NEW s \in Starts, CallStart(s) \/ StartStep(s)
      PROVE  ReleaseClosesStore' /\ NothingArmedAfterRelease'
  BY <1>2 DEF CallStart, StartStep, SeedSkipped, Seed, SeedEnds, ArmedAfterSkip, AnswerAfterSkip, ArmProvider
<1>3. CASE Unregister \/ CloseStore
  BY <1>3 DEF Unregister, CloseStore
<1>4. CASE CallStop \/ TickPolls \/ TickEnds \/ UNCHANGED vars \/ \E ok \in BOOLEAN : OpenStore(ok)
  BY <1>4 DEF CallStop, TickPolls, TickEnds, OpenStore, vars
<1>5. QED
  BY <1>1, <1>2, <1>3, <1>4 DEF Next

LEMMA StepMarkHeld == GateInv /\ [Next]_vars => MarkHeld'
<1> SUFFICES ASSUME GateInv, [Next]_vars PROVE MarkHeld'
  OBVIOUS
<1> USE DEF GateInv, TypeOK, MarkHeld, storeVars, pollVars
<1>1. ASSUME NEW s \in Starts, Seed(s) PROVE MarkHeld'
  BY <1>1 DEF Seed, Overlaps
<1>2. ASSUME NEW s \in Starts, SeedEnds(s) PROVE MarkHeld'
  BY <1>2 DEF SeedEnds
<1>3. CASE TickPolls
  BY <1>3 DEF TickPolls, Overlaps
<1>4. CASE TickEnds
  BY <1>4 DEF TickEnds
<1>5. CASE UNCHANGED <<inFlight, polling>>
  BY <1>5
<1>6. QED
  BY <1>1, <1>2, <1>3, <1>4, <1>5
     DEF Next, StartStep, OpenStore, BootEnds, CallStart, SeedSkipped, CallStop,
         Unregister, CloseStore, vars

LEMMA StepStartedIsPolling == GateInv /\ [Next]_vars => StartedIsPolling'
<1> SUFFICES ASSUME GateInv, [Next]_vars PROVE StartedIsPolling'
  OBVIOUS
<1> USE GateAssumption DEF GateInv, TypeOK, StartedIsPolling, storeVars, pollVars
<1>1. ASSUME NEW s \in Starts, CallStart(s) PROVE StartedIsPolling'
  BY <1>1 DEF CallStart
<1>2. ASSUME NEW s \in Starts, SeedSkipped(s) \/ SeedEnds(s) PROVE StartedIsPolling'
  BY <1>2 DEF SeedSkipped, SeedEnds, ArmedAfterSkip, AnswerAfterSkip, ArmProvider
<1>3. ASSUME NEW s \in Starts, Seed(s) PROVE StartedIsPolling'
  BY <1>3 DEF Seed
<1>4. CASE CallStop \/ Unregister
  BY <1>4 DEF CallStop, Unregister
<1>5. CASE UNCHANGED <<timer, released, start, wanted>>
  BY <1>5
<1>6. QED
  BY <1>1, <1>2, <1>3, <1>4, <1>5
     DEF Next, StartStep, OpenStore, BootEnds, TickPolls, TickEnds, CloseStore, vars

(* The gate, the poller and the store keep their invariant.                *)
THEOREM GateInvariance == Spec => []GateInv
<1>1. GateInv /\ [Next]_vars => GateInv'
  BY StepTypeOK, StepReleased, StepMarkHeld, StepStartedIsPolling, Zenon DEF GateInv
<1>2. QED
  BY InitGateInv, <1>1, PTL DEF Spec

-----------------------------------------------------------------------------
(* No timer is armed on a released surface, whatever was in flight.        *)
THEOREM ReleasedStaysQuiet == Spec => []NothingArmedAfterRelease
<1>1. GateInv => NothingArmedAfterRelease
  BY DEF GateInv
<1>2. QED
  BY GateInvariance, <1>1, PTL

(* Seeds and ticks never poll the account at the same time.                *)
THEOREM PollsDoNotOverlap == Spec => []OnePollAtATime
<1>1. GateInv => OnePollAtATime
  <2> SUFFICES ASSUME MarkHeld PROVE OnePollAtATime
    BY DEF GateInv
  <2>1. CASE polling = {}
    BY <2>1, FS_EmptySet DEF OnePollAtATime
  <2>2. ASSUME NEW who, polling = {who} PROVE OnePollAtATime
    BY <2>2, FS_Singleton DEF OnePollAtATime
  <2>3. QED
    BY <2>1, <2>2 DEF MarkHeld
<1>2. QED
  BY GateInvariance, <1>1, PTL

(* A start that resolved has the loop running until it is called off.      *)
THEOREM StartsPoll == Spec => []StartedIsPolling
<1>1. GateInv => StartedIsPolling
  BY DEF GateInv
<1>2. QED
  BY GateInvariance, <1>1, PTL

(* The lifecycle keeps its types.                                          *)
THEOREM GateTypeCorrect == Spec => []TypeOK
<1>1. GateInv => TypeOK
  BY DEF GateInv
<1>2. QED
  BY GateInvariance, <1>1, PTL

(* A started account is polled, by one poll at a time (poller.ts:109-198,  *)
(* inbox/index.ts).                                                        *)
THEOREM GateStaysKept == Spec => []GateIsKept
BY GateTypeCorrect, PollsDoNotOverlap, StartsPoll, PTL DEF GateIsKept

-----------------------------------------------------------------------------
(* The least of some natural numbers, and the greatest of finitely many.   *)
LEMMA LeastOfNaturals ==
  ASSUME NEW S \in SUBSET Nat, S # {}
  PROVE  \E n \in S : \A m \in S : n <= m
<1>1. PICK n \in S : \A m \in S : ~(<<m, n>> \in OpToRel(<, Nat))
  BY NatLessThanWellFounded, WFMin
<1>2. ASSUME NEW m \in S, m < n PROVE <<m, n>> \in OpToRel(<, Nat)
  <2>1. SUFFICES <<m, n>> \in {pair \in Nat \X Nat : pair[1] < pair[2]}
    BY Zenon DEF OpToRel
  <2>2. QED
    BY <1>2
<1>3. \A m \in S : ~(m < n)
  BY <1>1, <1>2, Zenon
<1>4. QED
  BY <1>3

LEMMA GreatestUnderBound ==
  ASSUME NEW bound \in Nat, NEW S \in SUBSET (0..bound), S # {}
  PROVE  Max(S) \in S /\ \A m \in S : m <= Max(S)
<1> DEFINE gaps == {n \in Nat : \E m \in S : n = bound - m}
<1>1. gaps \in SUBSET Nat /\ gaps # {}
  <2>1. PICK m \in S : TRUE
    OBVIOUS
  <2>2. bound - m \in gaps
    BY <2>1
  <2>3. QED
    BY <2>2
<1>2. PICK least \in gaps : \A n \in gaps : least <= n
  <2> HIDE DEF gaps
  <2>1. QED
    BY <1>1, LeastOfNaturals
<1>3. PICK top \in S : least = bound - top
  OBVIOUS
<1>4. ASSUME NEW m \in S PROVE m <= top
  <2>1. bound - m \in gaps
    OBVIOUS
  <2>2. QED
    BY <1>2, <1>3, <2>1
<1>5. \E x \in S : \A y \in S : x >= y
  BY <1>3, <1>4
<1>6. Max(S) \in S /\ \A y \in S : Max(S) >= y
  BY <1>5, Zenon DEF Max
<1>7. QED
  BY <1>6

-----------------------------------------------------------------------------
(* Sets of messages are finite.                                            *)
LEMMA SomeNaturalsFinite ==
  ASSUME NEW bound \in Nat, NEW S \in SUBSET (1..bound)
  PROVE  IsFiniteSet(S) /\ Cardinality(S) \in Nat
<1>1. IsFiniteSet(1..bound)
  BY 1 \in Int, bound \in Int, FS_Interval
<1>2. IsFiniteSet(S)
  BY <1>1, FS_Subset
<1>3. QED
  BY <1>2, FS_CardinalityType

(* What is newer; a message has fewer above it than an older one has.      *)
Above(set, m) == {k \in set : k > m}

LEMMA NewerHasFewerAbove ==
  ASSUME NEW bound \in Nat, NEW set \in SUBSET (1..bound), NEW k \in set, NEW l \in set, k < l
  PROVE  Cardinality(Above(set, l)) < Cardinality(Above(set, k))
<1>1. Above(set, l) \in SUBSET Above(set, k) /\ l \in Above(set, k) /\ l \notin Above(set, l)
  <2>1. k \in Int /\ l \in Int /\ \A m \in set : m \in Int
    OBVIOUS
  <2>2. ASSUME NEW m \in set, m > l PROVE m > k
    BY <2>1, <2>2
  <2>3. l \in Above(set, k) /\ ~(l > l)
    BY <2>1 DEF Above
  <2>4. QED
    BY <2>2, <2>3 DEF Above
<1>2. Above(set, k) \in SUBSET (1..bound)
  BY DEF Above
<1>3. IsFiniteSet(Above(set, k)) /\ Cardinality(Above(set, k)) \in Nat
  BY <1>2, SomeNaturalsFinite
<1>4. /\ Cardinality(Above(set, l)) <= Cardinality(Above(set, k))
      /\ Cardinality(Above(set, k)) = Cardinality(Above(set, l)) => Above(set, k) = Above(set, l)
      /\ IsFiniteSet(Above(set, l))
  BY <1>1, <1>3, FS_Subset
<1>5. Cardinality(Above(set, l)) \in Nat
  BY <1>4, FS_CardinalityType
<1>6. Cardinality(Above(set, k)) # Cardinality(Above(set, l))
  BY <1>1, <1>4
<1>7. QED
  BY <1>3, <1>4, <1>5, <1>6

LEMMA FirstAreSoMany ==
  ASSUME NEW n \in Nat
  PROVE  IsFiniteSet(0..(n - 1)) /\ Cardinality(0..(n - 1)) = n
<1>1. 0 \in Int /\ n - 1 \in Int
  OBVIOUS
<1>2. /\ IsFiniteSet(0..(n - 1))
      /\ Cardinality(0..(n - 1)) = IF 0 > n - 1 THEN 0 ELSE (n - 1) - 0 + 1
  BY <1>1, FS_Interval, Zenon
<1>3. 0 > n - 1 => n = 0
  OBVIOUS
<1>4. ~(0 > n - 1) => (n - 1) - 0 + 1 = n
  OBVIOUS
<1>5. QED
  BY <1>2, <1>3, <1>4

(* The newest n of a set that has so many are exactly n: what is above a   *)
(* message numbers it, from the newest down, and the numbers under n are   *)
(* each taken once.                                                        *)
LEMMA NewestAreSoMany ==
  ASSUME NEW bound \in Nat, NEW set \in SUBSET (1..bound), NEW n \in Nat, n <= Cardinality(set)
  PROVE  Cardinality(Newest(n, set)) = n
<1> DEFINE size == Cardinality(set)
           rank == [m \in set |-> Cardinality(Above(set, m))]
<1>1. IsFiniteSet(set) /\ size \in Nat
  BY SomeNaturalsFinite
<1>2. ASSUME NEW m \in set PROVE rank[m] \in 0..(size - 1)
  <2>1. Above(set, m) \in SUBSET set /\ m \notin Above(set, m)
    BY DEF Above
  <2>2. /\ Cardinality(Above(set, m)) <= size /\ IsFiniteSet(Above(set, m))
        /\ size = Cardinality(Above(set, m)) => set = Above(set, m)
    BY <1>1, <2>1, FS_Subset
  <2>3. Cardinality(Above(set, m)) \in Nat
    BY <2>2, FS_CardinalityType
  <2>4. QED
    BY <1>1, <2>1, <2>2, <2>3
<1>3. rank \in [set -> 0..(size - 1)]
  BY <1>2
<1>4. \A k, l \in set : rank[k] = rank[l] => k = l
  <2> SUFFICES ASSUME NEW k \in set, NEW l \in set, k # l PROVE rank[k] # rank[l]
    OBVIOUS
  <2>1. k \in Int /\ l \in Int
    OBVIOUS
  <2>2. rank[k] \in Int /\ rank[l] \in Int
    BY <1>2
  <2>3. k < l => rank[l] < rank[k]
    BY NewerHasFewerAbove
  <2>4. l < k => rank[k] < rank[l]
    BY NewerHasFewerAbove
  <2> HIDE DEF rank
  <2>5. QED
    BY <2>1, <2>2, <2>3, <2>4
<1>5. rank \in Injection(set, 0..(size - 1))
  BY <1>3, <1>4 DEF Injection, IsInjective
<1>6. IsFiniteSet(0..(size - 1)) /\ Cardinality(0..(size - 1)) = size
  BY <1>1, FirstAreSoMany
<1> HIDE DEF rank
<1>7. rank \in Surjection(set, 0..(size - 1))
  BY <1>5, <1>6, FS_Injection
<1>8. \A r \in 0..(size - 1) : \E m \in set : rank[m] = r
  BY <1>7 DEF Surjection
<1> DEFINE lows == 0..(n - 1)
           among == Newest(n, set)
           restricted == [m \in among |-> rank[m]]
<1>9. among = {m \in set : rank[m] < n}
  BY DEF Newest, rank, Above
<1>10. restricted \in [among -> lows] /\ among \subseteq set
  <2>1. \A m \in set : rank[m] \in Int /\ 0 <= rank[m]
    BY <1>3
  <2>2. \A m \in among : m \in set /\ rank[m] < n
    BY <1>9
  <2>2a. \A r \in Int : 0 <= r /\ r < n => r \in lows
    OBVIOUS
  <2>2b. \A m \in among : rank[m] \in lows
    <3> HIDE DEF lows, among
    <3>1. QED
      BY <2>1, <2>2, <2>2a
  <2>3. QED
    BY <2>2, <2>2b
<1>11. restricted \in Injection(among, lows)
  BY <1>4, <1>10 DEF Injection, IsInjective
<1>12. \A r \in lows : \E m \in among : restricted[m] = r
  <2> SUFFICES ASSUME NEW r \in lows PROVE \E m \in among : restricted[m] = r
    OBVIOUS
  <2>1. r \in 0..(size - 1) /\ r < n
    BY <1>1
  <2>2. PICK m \in set : rank[m] = r
    BY <1>8, <2>1
  <2>3. m \in among
    BY <1>9, <2>1, <2>2
  <2>4. QED
    BY <2>2, <2>3
<1>13. restricted \in Surjection(among, lows)
  BY <1>10, <1>12 DEF Surjection
<1>14. IsFiniteSet(lows) /\ Cardinality(lows) = n
  BY FirstAreSoMany
<1> HIDE DEF restricted, among, lows
<1>15. Cardinality(among) = Cardinality(lows)
  BY <1>11, <1>13, <1>14, FS_Injection
<1>16. QED
  BY <1>14, <1>15 DEF among

-----------------------------------------------------------------------------
(* They are no more than there are numbers, and all of them if as many.    *)
LEMMA SomeNaturalsBounded ==
  ASSUME NEW bound \in Nat, NEW S \in SUBSET (1..bound)
  PROVE  /\ Cardinality(S) \in 0..bound
         /\ Cardinality(S) = bound => S = 1..bound
<1>1. 1 \in Int /\ bound \in Int
  OBVIOUS
<1>2. IsFiniteSet(1..bound) /\ Cardinality(1..bound) = IF 1 > bound THEN 0 ELSE bound - 1 + 1
  BY <1>1, FS_Interval, Zenon
<1>3. (IF 1 > bound THEN 0 ELSE bound - 1 + 1) = bound
  OBVIOUS
<1>4. Cardinality(S) <= Cardinality(1..bound) /\ (Cardinality(1..bound) = Cardinality(S) => S = 1..bound)
  BY <1>2, FS_Subset
<1>5. Cardinality(S) \in Nat
  BY SomeNaturalsFinite
<1>6. Cardinality(1..bound) = bound
  BY <1>2, <1>3
<1>7. QED
  BY <1>4, <1>5, <1>6

LEMMA BoundsAreNumbers ==
  /\ Limit \in Nat \ {0} /\ PageSize \in Nat \ {0} /\ ItemCap \in Nat \ {0}
  /\ MaxPosted \in Nat \ {0} /\ MaxCrashes \in Nat \ {0}
BY FeedAssumption

LEMMA PostedAreBounded == Posted \in SUBSET Messages /\ Cardinality(Posted) \in 0..MaxPosted
<1>1. Posted \in SUBSET (1..MaxPosted)
  BY DEF Posted, Messages
<1>2. QED
  BY <1>1, BoundsAreNumbers, SomeNaturalsBounded DEF Messages

(* Where a poll leaves the cursor: at the newest of what it returned.      *)
LEMMA NextCursorIsNewest ==
  ASSUME FeedTypeOK
  PROVE  /\ NextCursor \in 0..MaxPosted
         /\ NextCursor \in poll.batch \cup {poll.since, db.cursor}
<1>1. poll.batch \cup {poll.since, db.cursor} \in SUBSET (0..MaxPosted)
  BY BoundsAreNumbers DEF FeedTypeOK, Messages, Snapshot
<1>2. Max(poll.batch \cup {poll.since, db.cursor}) \in poll.batch \cup {poll.since, db.cursor}
  BY <1>1, BoundsAreNumbers, GreatestUnderBound
<1>3. QED
  BY <1>1, <1>2 DEF NextCursor

LEMMA SavesEnd ==
  ASSUME FeedTypeOK, NEW s \in Savers, Ends(s)
  PROVE  /\ saves' \in [Savers -> [at: {"idle", "mkdir", "exported"}, data: Snapshot]]
         /\ poll' \in [at: {"idle", "fetching", "flushing"}, since: 0..MaxPosted,
                       left: SUBSET Channels, batch: SUBSET Messages]
<1>1. NoSave \in [at: {"idle", "mkdir", "exported"}, data: Snapshot]
  BY BoundsAreNumbers DEF NoSave, EmptyFeed, Snapshot
<1>2. NoPoll \in [at: {"idle", "fetching", "flushing"}, since: 0..MaxPosted,
                  left: SUBSET Channels, batch: SUBSET Messages]
  BY BoundsAreNumbers DEF NoPoll
<1>3. QED
  BY <1>1, <1>2 DEF Ends, FeedTypeOK

LEMMA FeedTypesStart == FeedInit => FeedTypeOK
<1> SUFFICES ASSUME FeedInit PROVE FeedTypeOK
  OBVIOUS
<1>1. 0 \in 0..MaxPosted /\ 0 \in 0..MaxCrashes
  BY BoundsAreNumbers
<1>2. EmptyFeed \in Snapshot
  BY <1>1 DEF EmptyFeed, Snapshot
<1>3. NoPoll \in [at: {"idle", "fetching", "flushing"}, since: 0..MaxPosted,
                  left: SUBSET Channels, batch: SUBSET Messages]
  BY <1>1 DEF NoPoll
<1>4. saves \in [Savers -> [at: {"idle", "mkdir", "exported"}, data: Snapshot]]
  BY <1>2 DEF FeedInit, NoSave
<1>5. channelOf \in [Messages -> Channels \cup {Unposted}]
  BY DEF FeedInit
<1>6. QED
  BY <1>1, <1>2, <1>3, <1>4, <1>5 DEF FeedInit, FeedTypeOK

LEMMA FeedTypesStay == FeedTypeOK /\ [FeedNext]_feedVars => FeedTypeOK'
<1> SUFFICES ASSUME FeedTypeOK, [FeedNext]_feedVars PROVE FeedTypeOK'
  OBVIOUS
<1>a. NoSave \in [at: {"idle", "mkdir", "exported"}, data: Snapshot]
  BY BoundsAreNumbers DEF NoSave, EmptyFeed, Snapshot
<1>b. NoPoll \in [at: {"idle", "fetching", "flushing"}, since: 0..MaxPosted,
                  left: SUBSET Channels, batch: SUBSET Messages]
  BY BoundsAreNumbers DEF NoPoll
<1> USE DEF FeedTypeOK
<1>1. ASSUME NEW channel \in Channels, Post(channel) PROVE FeedTypeOK'
  BY <1>1 DEF Post
<1>2. CASE PollStarts
  BY <1>2 DEF PollStarts, Snapshot
<1>3. ASSUME NEW channel \in Channels, NEW pages \in 0..MaxPosted, FetchChannel(channel, pages)
      PROVE  FeedTypeOK'
  <2>1. \A n : Newest(n, Unseen(channel)) \in SUBSET Messages
    BY DEF Newest, Unseen, Posted
  <2>2. QED
    BY <1>3, <2>1 DEF FetchChannel
<1>4. CASE PollFails
  BY <1>4, <1>b DEF PollFails
<1>5. CASE Store
  <2>1. db' \in Snapshot
    BY <1>5, NextCursorIsNewest DEF Store, Snapshot
  <2>2. dirty' \in BOOLEAN
    BY <1>5, Zenon DEF Store
  <2>3. saves' \in [Savers -> [at: {"idle", "mkdir", "exported"}, data: Snapshot]]
    BY <1>5, <1>a DEF Store
  <2>4. poll' \in [at: {"idle", "fetching", "flushing"}, since: 0..MaxPosted,
                   left: SUBSET Channels, batch: SUBSET Messages]
    BY <1>5, <1>b DEF Store
  <2>5. QED
    BY <1>5, <2>1, <2>2, <2>3, <2>4 DEF Store
<1>6. CASE Expire
  <2>1. expired' \in 0..MaxPosted
    BY <1>6, PostedAreBounded, BoundsAreNumbers DEF Expire
  <2>2. QED
    BY <1>6, <2>1 DEF Expire
<1>7. CASE Sweep
  <2>1. Kept(db.items) \in SUBSET Messages
    BY DEF Kept, Newest, Young, Snapshot
  <2>2. db' \in Snapshot /\ reclaimed' \in SUBSET Messages
    BY <1>7, <2>1 DEF Sweep, Snapshot
  <2>3. saves' \in [Savers -> [at: {"idle", "mkdir", "exported"}, data: Snapshot]]
    BY <1>7, <1>a DEF Sweep
  <2>4. QED
    BY <1>7, <2>2, <2>3 DEF Sweep
<1>8. ASSUME NEW s \in Savers, Export(s) PROVE FeedTypeOK'
  BY <1>8 DEF Export
<1>9. ASSUME NEW s \in Savers, Saved(s) PROVE FeedTypeOK'
  BY <1>9, SavesEnd DEF Saved
<1>10. ASSUME NEW s \in Savers, SaveFails(s) PROVE FeedTypeOK'
  BY <1>10, SavesEnd DEF SaveFails
<1>11. CASE Restart
  <2>1. crashes' \in 0..MaxCrashes
    BY <1>11, BoundsAreNumbers DEF Restart
  <2>2. QED
    BY <1>11, <1>a, <1>b, <2>1 DEF Restart
<1>12. CASE UNCHANGED feedVars
  BY <1>12 DEF feedVars
<1>13. QED
  BY <1>1, <1>2, <1>3, <1>4, <1>5, <1>6, <1>7, <1>8, <1>9, <1>10, <1>11, <1>12
     DEF FeedNext, Fetches

-----------------------------------------------------------------------------
(* What a sweep deletes before its time had a full cap of newer ones.      *)
LEMMA SweptAreOutnumbered ==
  ASSUME FeedTypeOK, NEW m \in db.items \ Kept(db.items), ~(m <= expired)
  PROVE  Cardinality({k \in Kept(db.items) : k > m}) = ItemCap
<1> DEFINE young == Young(db.items)
<1>1. young \in SUBSET (1..MaxPosted) /\ MaxPosted \in Nat /\ ItemCap \in Nat
  BY BoundsAreNumbers DEF Young, FeedTypeOK, Snapshot, Messages
<1>2. m \in young
  BY DEF Young, FeedTypeOK, Snapshot, Messages
<1>3. Above(young, m) \in SUBSET (1..MaxPosted)
  BY <1>1 DEF Above
<1>4. Cardinality(Above(young, m)) \in Nat
  BY <1>1, <1>3, SomeNaturalsFinite
<1>5. ItemCap <= Cardinality(Above(young, m))
  <2>1. ~(Cardinality(Above(young, m)) < ItemCap)
    BY <1>2 DEF Kept, Newest, Above
  <2>2. QED
    BY <1>1, <1>4, <2>1
<1>6. Cardinality(Newest(ItemCap, Above(young, m))) = ItemCap
  BY <1>1, <1>3, <1>5, NewestAreSoMany
<1>7. ASSUME NEW k \in Above(young, m) PROVE Above(Above(young, m), k) = Above(young, k)
  <2>1. m \in Int /\ k \in Int /\ k > m /\ \A l \in young : l \in Int
    BY <1>1, <1>2 DEF Above
  <2>2. \A l \in young : l > k => l > m
    BY <2>1
  <2>3. QED
    BY <2>2 DEF Above
<1>8. Newest(ItemCap, Above(young, m)) = {k \in Kept(db.items) : k > m}
  <2>1. ASSUME NEW k \in Newest(ItemCap, Above(young, m)) PROVE k \in Kept(db.items) /\ k > m
    <3>1. k \in Above(young, m) /\ Cardinality(Above(Above(young, m), k)) < ItemCap
      BY Zenon DEF Newest, Above
    <3>2. Cardinality(Above(young, k)) < ItemCap /\ k \in young /\ k > m
      BY <1>7, <3>1 DEF Above
    <3>3. QED
      BY <3>2 DEF Kept, Newest, Above
  <2>2. ASSUME NEW k \in Kept(db.items), k > m PROVE k \in Newest(ItemCap, Above(young, m))
    <3>1. k \in young /\ Cardinality(Above(young, k)) < ItemCap
      BY Zenon DEF Kept, Newest, Above
    <3>2. k \in Above(young, m)
      BY <2>2, <3>1 DEF Above
    <3>3. Cardinality(Above(Above(young, m), k)) < ItemCap
      BY <1>7, <3>1, <3>2
    <3>4. QED
      BY <3>2, <3>3, Zenon DEF Newest, Above
  <2>3. QED
    BY <2>1, <2>2
<1>9. QED
  BY <1>6, <1>8

SweptFairly ==
  crashes' = crashes =>
    \A m \in db.items \ db'.items :
      \/ m <= expired
      \/ Cardinality({k \in db'.items : k > m}) = ItemCap

LEMMA StepSweepsFairly == FeedTypeOK /\ [FeedNext]_feedVars => SweptFairly
<1> SUFFICES ASSUME FeedTypeOK, [FeedNext]_feedVars PROVE SweptFairly
  OBVIOUS
<1>1. CASE Sweep
  <2>1. db'.items = Kept(db.items)
    BY <1>1 DEF Sweep, FeedTypeOK, Snapshot
  <2>2. QED
    BY <2>1, SweptAreOutnumbered DEF SweptFairly
<1>2. CASE Store
  <2>1. db'.items = db.items \cup poll.batch
    BY <1>2 DEF Store
  <2>2. QED
    BY <2>1 DEF SweptFairly
<1>3. CASE Restart
  <2>1. crashes' # crashes
    BY <1>3, BoundsAreNumbers DEF Restart, FeedTypeOK
  <2>2. QED
    BY <2>1 DEF SweptFairly
<1>4. db' = db \/ Sweep \/ Store \/ Restart
  BY DEF FeedNext, feedVars, Fetches, Post, PollStarts, FetchChannel, PollFails, Expire, Export, Saved, SaveFails
<1>5. CASE db' = db
  BY <1>5 DEF SweptFairly
<1>6. QED
  BY <1>1, <1>2, <1>3, <1>4, <1>5

-----------------------------------------------------------------------------
(* The account whose cursor can be trusted: one channel, and news that     *)
(* never exceed what a poll may return or a page may hold.                 *)
NewsFitAPoll ==
  /\ \E channel \in Channels : Channels = {channel}
  /\ MaxPosted <= Limit
  /\ MaxPosted <= PageSize

(* Messages are numbered as they come.                                     *)
PostedInOrder == Posted = 1..Cardinality(Posted)

(* A feed's cursor is at a message that was posted, and every posted       *)
(* message up to it is in the feed or gone.                                *)
KnownIn(feed, posted, gone) ==
  /\ feed.cursor <= Cardinality(posted)
  /\ \A m \in posted : m <= feed.cursor => m \in feed.items \cup gone

FeedsKnown ==
  /\ KnownIn(db, Posted, reclaimed)
  /\ KnownIn(file, Posted, reclaimed)
  /\ \A s \in Savers : KnownIn(saves[s].data, Posted, reclaimed)

(* A poll starts at the cursor, which does not move under it, and what it  *)
(* has fetched follows without a gap.                                      *)
BatchFollows ==
  poll.at = "fetching" =>
    /\ poll.since = db.cursor
    /\ poll.left = {} \/ poll.batch = {}
    /\ \E last \in poll.since..Cardinality(Posted) : poll.batch = (poll.since + 1)..last

FeedInv == FeedTypeOK /\ PostedInOrder /\ FeedsKnown /\ BatchFollows

-----------------------------------------------------------------------------
LEMMA FeedInvStarts == FeedInit => FeedInv
<1> SUFFICES ASSUME FeedInit PROVE FeedInv
  OBVIOUS
<1>1. FeedTypeOK
  BY FeedTypesStart
<1>2. Posted = {}
  BY DEF Posted, FeedInit
<1>3. Cardinality(Posted) = 0
  BY <1>2, FS_EmptySet
<1>4. PostedInOrder
  <2>1. 1..0 = {}
    OBVIOUS
  <2>2. QED
    BY <1>2, <1>3, <2>1 DEF PostedInOrder
<1>5. KnownIn(EmptyFeed, Posted, reclaimed)
  BY <1>2, <1>3 DEF KnownIn, EmptyFeed
<1>6. FeedsKnown
  <2>1. \A s \in Savers : saves[s].data = EmptyFeed
    BY DEF FeedInit, NoSave
  <2>2. QED
    BY <1>5, <2>1 DEF FeedsKnown, FeedInit
<1>7. BatchFollows
  BY DEF BatchFollows, FeedInit, NoPoll
<1>8. QED
  BY <1>1, <1>4, <1>6, <1>7 DEF FeedInv

(* The next message gets the next number.                                  *)
LEMMA PostAddsNext ==
  ASSUME FeedInv, NEW channel \in Channels, Post(channel)
  PROVE  /\ Posted' = 1..(Cardinality(Posted) + 1)
         /\ Cardinality(Posted') = Cardinality(Posted) + 1
<1> DEFINE n == Cardinality(Posted)
<1>1. n \in 0..MaxPosted /\ MaxPosted \in Nat
  BY PostedAreBounded, BoundsAreNumbers
<1>2. Posted = 1..n
  BY DEF FeedInv, PostedInOrder
<1>3. n < MaxPosted
  BY <1>1, <1>2 DEF Post, Messages
<1>4. channelOf' = [channelOf EXCEPT ![n + 1] = channel] /\ channel # Unposted
  BY FeedAssumption DEF Post
<1> HIDE DEF n
<1>5. n + 1 \in Messages
  BY <1>1, <1>3 DEF Messages
<1>6. channelOf \in [Messages -> Channels \cup {Unposted}]
  BY DEF FeedInv, FeedTypeOK
<1>7. Posted' = Posted \cup {n + 1}
  <2>1. \A m \in Messages : channelOf'[m] = IF m = n + 1 THEN channel ELSE channelOf[m]
    BY <1>4, <1>6
  <2>2. Posted' = {m \in Messages : channelOf'[m] # Unposted}
    BY DEF Posted, Messages
  <2>3. QED
    BY <1>4, <1>5, <2>1, <2>2 DEF Posted
<1>8. (1..n) \cup {n + 1} = 1..(n + 1)
  BY <1>1
<1>9. Posted' = 1..(n + 1)
  BY <1>2, <1>7, <1>8
<1>10. Cardinality(1..(n + 1)) = n + 1
  <2>1. 1 \in Int /\ n + 1 \in Int
    BY <1>1
  <2>2. Cardinality(1..(n + 1)) = IF 1 > n + 1 THEN 0 ELSE (n + 1) - 1 + 1
    BY <2>1, FS_Interval, Zenon
  <2>3. (IF 1 > n + 1 THEN 0 ELSE (n + 1) - 1 + 1) = n + 1
    BY <1>1
  <2>4. QED
    BY <2>2, <2>3
<1>11. QED
  BY <1>9, <1>10 DEF n

LEMMA OnlyPostPosts ==
  ASSUME [FeedNext]_feedVars
  PROVE  \/ \E channel \in Channels : Post(channel)
         \/ Posted' = Posted /\ PostedInOrder' = PostedInOrder
<1>1. (\E channel \in Channels : Post(channel)) \/ channelOf' = channelOf
  BY DEF FeedNext, feedVars, Fetches, PollStarts, FetchChannel, PollFails, Store, Expire, Sweep,
         Export, Saved, SaveFails, Restart
<1>2. channelOf' = channelOf => Posted' = Posted /\ PostedInOrder' = PostedInOrder
  BY DEF Posted, PostedInOrder, Messages
<1>3. QED
  BY <1>1, <1>2

LEMMA StepPostedInOrder == FeedInv /\ [FeedNext]_feedVars => PostedInOrder'
<1> SUFFICES ASSUME FeedInv, [FeedNext]_feedVars PROVE PostedInOrder'
  OBVIOUS
<1>1. ASSUME NEW channel \in Channels, Post(channel) PROVE PostedInOrder'
  BY <1>1, PostAddsNext DEF PostedInOrder
<1>2. QED
  BY <1>1, OnlyPostPosts DEF FeedInv

(* A feed that knew its messages still does, whatever the step.            *)
LEMMA KnownStays ==
  ASSUME FeedInv, [FeedNext]_feedVars, NEW feed \in Snapshot, KnownIn(feed, Posted, reclaimed)
  PROVE  KnownIn(feed, Posted', reclaimed')
<1>1. reclaimed \subseteq reclaimed'
  BY DEF FeedNext, feedVars, Fetches, Post, PollStarts, FetchChannel, PollFails, Store, Expire, Sweep,
         Export, Saved, SaveFails, Restart
<1>2. ASSUME NEW channel \in Channels, Post(channel) PROVE KnownIn(feed, Posted', reclaimed')
  <2>1. /\ Posted' = 1..(Cardinality(Posted) + 1)
        /\ Cardinality(Posted') = Cardinality(Posted) + 1
    BY <1>2, PostAddsNext
  <2>2. Posted = 1..Cardinality(Posted) /\ Cardinality(Posted) \in Nat
    BY PostedAreBounded, BoundsAreNumbers DEF FeedInv, PostedInOrder
  <2>3. feed.cursor \in Nat /\ feed.cursor <= Cardinality(Posted)
    BY BoundsAreNumbers DEF Snapshot, KnownIn
  <2>4. \A m \in Posted' : m <= feed.cursor => m \in Posted
    BY <2>1, <2>2, <2>3
  <2>5. feed.cursor <= Cardinality(Posted')
    BY <2>1, <2>2, <2>3
  <2>6. QED
    BY <1>1, <2>4, <2>5 DEF KnownIn
<1>3. CASE Posted' = Posted
  BY <1>1, <1>3 DEF KnownIn
<1>4. QED
  BY <1>2, <1>3, OnlyPostPosts

LEMMA StoreKeepsFeedKnown ==
  ASSUME FeedInv, Store
  PROVE  KnownIn(db', Posted, reclaimed)
<1>1. PICK last \in poll.since..Cardinality(Posted) : poll.batch = (poll.since + 1)..last
  BY DEF FeedInv, BatchFollows, Store
<1>2. poll.since = db.cursor /\ db.cursor \in Nat /\ Cardinality(Posted) \in Nat
  BY PostedAreBounded, BoundsAreNumbers DEF FeedInv, FeedTypeOK, Snapshot, BatchFollows, Store
<1>3. db'.cursor = NextCursor /\ db'.items = db.items \cup poll.batch
  BY DEF Store
<1>4. NextCursor \in 0..MaxPosted /\ NextCursor \in poll.batch \cup {poll.since, db.cursor}
  BY NextCursorIsNewest DEF FeedInv
<1>5. last \in Nat /\ last <= Cardinality(Posted)
  BY <1>1, <1>2
<1>6. NextCursor <= last
  BY <1>1, <1>2, <1>4, <1>5
<1>7. KnownIn(db, Posted, reclaimed)
  BY DEF FeedInv, FeedsKnown
<1>8. ASSUME NEW m \in Posted, m <= NextCursor PROVE m \in db.items \cup poll.batch \cup reclaimed
  <2>1. m \in Nat
    BY PostedAreBounded DEF Messages
  <2>2. CASE m <= db.cursor
    BY <1>7, <2>2 DEF KnownIn
  <2>3. CASE ~(m <= db.cursor)
    <3>1. NextCursor \in Nat
      BY <1>4, BoundsAreNumbers
    <3>2. m \in (poll.since + 1)..last
      BY <1>2, <1>5, <1>6, <1>8, <2>1, <2>3, <3>1
    <3>3. QED
      BY <1>1, <3>2
  <2>4. QED
    BY <2>2, <2>3
<1>9. NextCursor <= Cardinality(Posted)
  BY <1>2, <1>4, <1>5, <1>6, BoundsAreNumbers
<1>10. QED
  BY <1>3, <1>8, <1>9 DEF KnownIn

LEMMA StepFeedsKnown == FeedInv /\ [FeedNext]_feedVars => FeedsKnown'
<1> SUFFICES ASSUME FeedInv, [FeedNext]_feedVars PROVE FeedsKnown'
  OBVIOUS
<1>1. FeedTypeOK /\ FeedTypeOK'
  BY FeedTypesStay DEF FeedInv
<1>2. db \in Snapshot /\ file \in Snapshot /\ \A s \in Savers : saves[s].data \in Snapshot
  BY <1>1 DEF FeedTypeOK
<1>3. /\ KnownIn(db, Posted', reclaimed')
      /\ KnownIn(file, Posted', reclaimed')
      /\ \A s \in Savers : KnownIn(saves[s].data, Posted', reclaimed')
  BY <1>2, KnownStays DEF FeedInv, FeedsKnown
<1>4. KnownIn(EmptyFeed, Posted', reclaimed')
  <2>1. Posted' \in SUBSET Messages /\ Cardinality(Posted') \in Nat
    <3>1. Posted' \in SUBSET (1..MaxPosted)
      BY DEF Posted, Messages
    <3>2. QED
      BY <3>1, SomeNaturalsFinite, BoundsAreNumbers DEF Messages
  <2>2. QED
    BY <2>1 DEF KnownIn, EmptyFeed, Messages
<1>5. KnownIn(db', Posted', reclaimed')
  <2>1. CASE Store
    <3>1. Posted' = Posted /\ reclaimed' = reclaimed
      BY <2>1 DEF Store, Posted, Messages
    <3>2. QED
      BY <2>1, <3>1, StoreKeepsFeedKnown
  <2>2. CASE Sweep
    <3>1. db'.cursor = db.cursor /\ db'.items = Kept(db.items)
      BY <1>2, <2>2 DEF Sweep, Snapshot
    <3>2. db.items \subseteq db'.items \cup reclaimed'
      BY <2>2, <3>1 DEF Sweep
    <3>3. QED
      BY <1>3, <3>1, <3>2 DEF KnownIn
  <2>3. CASE Restart
    BY <1>3, <2>3 DEF Restart
  <2>4. db' = db \/ Sweep \/ Store \/ Restart
    BY DEF FeedNext, feedVars, Fetches, Post, PollStarts, FetchChannel, PollFails, Expire, Export,
           Saved, SaveFails
  <2>5. QED
    BY <1>3, <2>1, <2>2, <2>3, <2>4
<1>6. KnownIn(file', Posted', reclaimed')
  <2>1. file' = file \/ \E s \in Savers : file' = saves[s].data
    BY DEF FeedNext, feedVars, Fetches, Post, PollStarts, FetchChannel, PollFails, Store, Expire, Sweep,
           Export, Saved, SaveFails, Restart
  <2>2. QED
    BY <1>3, <2>1
<1>7. ASSUME NEW s \in Savers PROVE KnownIn(saves'[s].data, Posted', reclaimed')
  <2>1. saves'[s].data \in {saves[s].data, db, EmptyFeed}
    <3>1. saves' = saves => saves'[s].data = saves[s].data
      OBVIOUS
    <3>2. ASSUME NEW t \in Savers, Export(t) PROVE saves'[s].data \in {saves[s].data, db, EmptyFeed}
      BY <1>1, <3>2 DEF Export, FeedTypeOK
    <3>3. ASSUME NEW t \in Savers, Ends(t) PROVE saves'[s].data \in {saves[s].data, db, EmptyFeed}
      BY <1>1, <3>3 DEF Ends, FeedTypeOK, NoSave
    <3>4. ASSUME Store PROVE saves'[s].data \in {saves[s].data, db, EmptyFeed}
      BY <1>1, <3>4 DEF Store, FeedTypeOK, NoSave
    <3>5. ASSUME Sweep PROVE saves'[s].data \in {saves[s].data, db, EmptyFeed}
      BY <1>1, <3>5 DEF Sweep, FeedTypeOK, NoSave
    <3>6. ASSUME Restart PROVE saves'[s].data \in {saves[s].data, db, EmptyFeed}
      BY <3>6 DEF Restart, NoSave
    <3>7. \/ saves' = saves \/ Store \/ Sweep \/ Restart
          \/ \E t \in Savers : Export(t) \/ Ends(t)
      BY DEF FeedNext, feedVars, Fetches, Post, PollStarts, FetchChannel, PollFails, Expire, Saved, SaveFails
    <3>8. QED
      BY <3>1, <3>2, <3>3, <3>4, <3>5, <3>6, <3>7
  <2>2. QED
    BY <1>3, <1>4, <2>1
<1>8. QED
  BY <1>5, <1>6, <1>7 DEF FeedsKnown

-----------------------------------------------------------------------------
LEMMA ProductsGrow ==
  ASSUME NEW p \in Nat, NEW q \in Nat, p >= 1
  PROVE  p * q \in Nat /\ p * q >= q
<1>1. PICK r \in Nat : p = r + 1
  <2>1. p - 1 \in Nat /\ p = (p - 1) + 1
    OBVIOUS
  <2>2. QED
    BY <2>1
<1>2. r * q \in Nat
  OBVIOUS
<1>3. p * q = r * q + q
  BY <1>1
<1>4. QED
  BY <1>2, <1>3

LEMMA LesserOfTwo ==
  ASSUME NEW p \in Nat, NEW q \in Nat
  PROVE  Min({p, q}) \in {p, q} /\ Min({p, q}) <= p /\ Min({p, q}) <= q
<1>1. \E x \in {p, q} : \A y \in {p, q} : x =< y
  OBVIOUS
<1>2. Min({p, q}) \in {p, q} /\ \A y \in {p, q} : Min({p, q}) =< y
  BY <1>1, Zenon DEF Min
<1>3. QED
  BY <1>2

(* With room for all of them, the newest are all; with room for none, none.*)
LEMMA NewestMayBeAll ==
  ASSUME NEW set \in SUBSET Messages, NEW n \in Nat, n >= MaxPosted
  PROVE  Newest(n, set) = set
<1>1. ASSUME NEW m \in set PROVE Cardinality({k \in set : k > m}) < n
  <2>1. {k \in set : k > m} \in SUBSET (1..MaxPosted) /\ m \notin {k \in set : k > m} /\ m \in 1..MaxPosted
    <3>1. m \in 1..MaxPosted /\ {k \in set : k > m} \in SUBSET (1..MaxPosted)
      BY DEF Messages
    <3>2. ~(m > m)
      BY <3>1, BoundsAreNumbers
    <3>3. QED
      BY <3>1, <3>2
  <2>2. /\ Cardinality({k \in set : k > m}) \in 0..MaxPosted
        /\ Cardinality({k \in set : k > m}) # MaxPosted
    BY <2>1, BoundsAreNumbers, SomeNaturalsBounded
  <2>3. QED
    BY <2>2, BoundsAreNumbers
<1>2. QED
  BY <1>1 DEF Newest

LEMMA NewestMayBeNone ==
  ASSUME NEW set \in SUBSET Messages
  PROVE  Newest(0, set) = {}
<1>1. ASSUME NEW m \in set PROVE ~(Cardinality({k \in set : k > m}) < 0)
  <2>1. {k \in set : k > m} \in SUBSET (1..MaxPosted)
    BY DEF Messages
  <2>2. Cardinality({k \in set : k > m}) \in Nat
    BY <2>1, BoundsAreNumbers, SomeNaturalsFinite
  <2>3. QED
    BY <2>2
<1>2. QED
  BY <1>1 DEF Newest

(* A fetch of the only channel brings all that followed the cursor, or, if *)
(* it failed before its first page, nothing.                               *)
LEMMA FetchBringsAllOrNothing ==
  ASSUME FeedInv, NewsFitAPoll, NEW channel \in Channels, NEW pages \in 0..MaxPosted,
         FetchChannel(channel, pages)
  PROVE  /\ poll'.at = "fetching" /\ poll'.since = poll.since /\ poll'.left = {}
         /\ poll'.batch \in {{}, (poll.since + 1)..Cardinality(Posted)}
<1> DEFINE room == Min({pages * PageSize, Limit - Cardinality(poll.batch)})
<1>1. Channels = {channel}
  BY DEF NewsFitAPoll
<1>2. poll.batch = {} /\ poll.left = {channel} /\ poll.since \in 0..MaxPosted
  BY <1>1 DEF FetchChannel, FeedInv, BatchFollows, FeedTypeOK
<1>3. Limit - Cardinality(poll.batch) = Limit
  <2>1. Cardinality(poll.batch) = 0
    BY <1>2, FS_EmptySet
  <2>2. QED
    BY <2>1, BoundsAreNumbers
<1>4. /\ poll'.at = "fetching" /\ poll'.since = poll.since /\ poll'.left = {}
      /\ poll'.batch = Newest(room, Unseen(channel))
  BY <1>2 DEF FetchChannel, FeedInv, FeedTypeOK
<1>5. Unseen(channel) = (poll.since + 1)..Cardinality(Posted)
  <2>1. \A m \in Posted : channelOf[m] = channel
    BY <1>1 DEF Posted, FeedInv, FeedTypeOK
  <2>2. Posted = 1..Cardinality(Posted) /\ Cardinality(Posted) \in Nat
    BY PostedAreBounded, BoundsAreNumbers DEF FeedInv, PostedInOrder
  <2>3. Unseen(channel) = {m \in Posted : m > poll.since}
    BY <2>1 DEF Unseen
  <2>4. poll.since \in Nat
    BY <1>2, BoundsAreNumbers
  <2>5. \A since, n \in Nat : {m \in 1..n : m > since} = (since + 1)..n
    OBVIOUS
  <2>6. {m \in Posted : m > poll.since} = {m \in 1..Cardinality(Posted) : m > poll.since}
    BY <2>2
  <2>7. QED
    BY <2>2, <2>3, <2>4, <2>5, <2>6
<1>6. Unseen(channel) \in SUBSET Messages
  BY DEF Unseen, Posted
<1>7. CASE pages = 0
  <2>1. pages * PageSize = 0
    BY <1>7, BoundsAreNumbers
  <2>2. room = 0
    BY <1>3, <2>1, LesserOfTwo, BoundsAreNumbers
  <2>3. QED
    BY <1>4, <1>6, <2>2, NewestMayBeNone
<1>8. CASE pages # 0
  <2>1. pages \in Nat /\ pages >= 1 /\ PageSize \in Nat
    BY <1>8, BoundsAreNumbers
  <2>2. pages * PageSize \in Nat /\ pages * PageSize >= PageSize
    BY <2>1, ProductsGrow
  <2> DEFINE all == pages * PageSize
  <2>3. all \in Nat /\ all >= MaxPosted
    <3>1. MaxPosted <= PageSize /\ MaxPosted \in Nat
      BY BoundsAreNumbers DEF NewsFitAPoll
    <3> HIDE DEF all
    <3>2. all \in Nat /\ all >= PageSize
      BY <2>2 DEF all
    <3>3. QED
      BY <2>1, <3>1, <3>2
  <2>4. room = Min({all, Limit})
    BY <1>3
  <2> HIDE DEF all
  <2>5. room \in Nat /\ room >= MaxPosted
    <3>1. Limit \in Nat /\ Limit >= MaxPosted
      BY BoundsAreNumbers DEF NewsFitAPoll
    <3>2. Min({all, Limit}) \in {all, Limit}
      BY <2>3, <3>1, LesserOfTwo
    <3>3. QED
      BY <2>3, <2>4, <3>1, <3>2
  <2>6. Newest(room, Unseen(channel)) = Unseen(channel)
    BY <1>6, <2>5, NewestMayBeAll
  <2>7. QED
    BY <1>4, <1>5, <2>6
<1>9. QED
  BY <1>7, <1>8

LEMMA StepBatchFollows == NewsFitAPoll /\ FeedInv /\ [FeedNext]_feedVars => BatchFollows'
<1> SUFFICES ASSUME NewsFitAPoll, FeedInv, [FeedNext]_feedVars PROVE BatchFollows'
  OBVIOUS
<1>1. Cardinality(Posted) \in Nat /\ db.cursor \in Nat /\ db.cursor <= Cardinality(Posted)
  BY PostedAreBounded, BoundsAreNumbers
     DEF FeedInv, FeedTypeOK, Snapshot, FeedsKnown, KnownIn
<1>2. ASSUME NEW channel \in Channels, Post(channel) PROVE BatchFollows'
  <2>1. Cardinality(Posted') = Cardinality(Posted) + 1
    BY <1>2, PostAddsNext
  <2>2. poll' = poll /\ db' = db
    BY <1>2 DEF Post
  <2>3. SUFFICES ASSUME poll.at = "fetching"
                 PROVE  /\ poll.since = db.cursor
                        /\ poll.left = {} \/ poll.batch = {}
                        /\ \E last \in poll.since..Cardinality(Posted') :
                             poll.batch = (poll.since + 1)..last
    BY <2>2 DEF BatchFollows
  <2>4. PICK last \in poll.since..Cardinality(Posted) : poll.batch = (poll.since + 1)..last
    BY <2>3 DEF FeedInv, BatchFollows
  <2>5. poll.since = db.cursor /\ (poll.left = {} \/ poll.batch = {})
    BY <2>3 DEF FeedInv, BatchFollows
  <2>6. last \in poll.since..Cardinality(Posted')
    BY <1>1, <2>1, <2>4, <2>5
  <2>7. QED
    BY <2>4, <2>5, <2>6
<1>3. CASE PollStarts
  <2>1. poll'.batch = {} /\ poll'.since = db.cursor /\ db' = db /\ Posted' = Posted
    BY <1>3 DEF PollStarts, Posted, Messages
  <2>2. db.cursor \in db.cursor..Cardinality(Posted) /\ (db.cursor + 1)..db.cursor = {}
    BY <1>1
  <2>3. QED
    BY <2>1, <2>2 DEF BatchFollows
<1>4. ASSUME NEW channel \in Channels, NEW pages \in 0..MaxPosted, FetchChannel(channel, pages)
      PROVE  BatchFollows'
  <2>1. /\ poll'.since = poll.since /\ poll'.left = {}
        /\ poll'.batch \in {{}, (poll.since + 1)..Cardinality(Posted)}
    BY <1>4, FetchBringsAllOrNothing
  <2>2. db' = db /\ Posted' = Posted /\ poll.since = db.cursor
    BY <1>4 DEF FetchChannel, Posted, Messages, FeedInv, BatchFollows
  <2>3. db.cursor \in db.cursor..Cardinality(Posted) /\ (db.cursor + 1)..db.cursor = {}
    BY <1>1
  <2>4. Cardinality(Posted) \in db.cursor..Cardinality(Posted)
    BY <1>1
  <2>5. QED
    BY <2>1, <2>2, <2>3, <2>4 DEF BatchFollows
<1>5. CASE poll'.at # "fetching"
  BY <1>5 DEF BatchFollows
<1>6. CASE poll' = poll /\ db'.cursor = db.cursor /\ Posted' = Posted
  BY <1>6 DEF BatchFollows, FeedInv
<1>7. \/ (\E channel \in Channels : Post(channel)) \/ PollStarts \/ Fetches
      \/ poll'.at # "fetching"
      \/ poll' = poll /\ db'.cursor = db.cursor /\ channelOf' = channelOf
  <2>1. CASE Sweep
    BY <2>1 DEF Sweep, FeedInv, FeedTypeOK, Snapshot
  <2>2. ASSUME NEW s \in Savers, Saved(s) \/ SaveFails(s)
        PROVE  \/ poll'.at # "fetching"
               \/ poll' = poll /\ db'.cursor = db.cursor /\ channelOf' = channelOf
    BY <2>2 DEF Saved, SaveFails, Ends, NoPoll
  <2>3. QED
    BY <2>1, <2>2 DEF FeedNext, feedVars, PollFails, Store, Expire, Export, Restart, NoPoll
<1>8. channelOf' = channelOf => Posted' = Posted
  BY DEF Posted, Messages
<1>9. QED
  BY <1>2, <1>3, <1>4, <1>5, <1>6, <1>7, <1>8 DEF Fetches

-----------------------------------------------------------------------------
(* The values of the feed's state are always what they should be.          *)
THEOREM FeedTypeCorrect == FeedSpec => []FeedTypeOK
<1>1. QED
  BY FeedTypesStart, FeedTypesStay, PTL DEF FeedSpec

(* A sweep deletes an item before its time only when the newer ones alone  *)
(* fill the cap (cursor-store.ts:239-243), for any account and any limits. *)
THEOREM SweepsKeepNewest == FeedSpec => SweepKeepsNewest
<1>1. FeedTypeOK /\ [FeedNext]_feedVars => [SweptFairly]_feedVars
  BY StepSweepsFairly
<1>2. SweepKeepsNewest <=> [][SweptFairly]_feedVars
  BY PTL DEF SweepKeepsNewest, SweptFairly
<1>3. QED
  BY FeedTypeCorrect, <1>1, <1>2, PTL DEF FeedSpec

(* What the cursor passes has been in the feed, in memory and in any file  *)
(* a restart may load: with one channel, whose news fit a poll and a page, *)
(* no crash, failed save or failed page lets the cursor skip a message.    *)
THEOREM NothingIsSkipped == ASSUME NewsFitAPoll PROVE FeedSpec => []NothingSkipped
<1>1. FeedInv /\ [FeedNext]_feedVars => FeedInv'
  BY NewsFitAPoll, FeedTypesStay, StepPostedInOrder, StepFeedsKnown, StepBatchFollows DEF FeedInv
<1>2. FeedInv => NothingSkipped
  BY DEF FeedInv, FeedsKnown, KnownIn, NothingSkipped, Covers
<1>3. QED
  BY FeedInvStarts, <1>1, <1>2, PTL DEF FeedSpec

(* The feed keeps what it should (poller.ts, cursor-store.ts), for such an *)
(* account.                                                                *)
THEOREM FeedStaysKept == ASSUME NewsFitAPoll PROVE FeedSpec => FeedIsKept
<1>1. QED
  BY NewsFitAPoll, FeedTypeCorrect, NothingIsSkipped, SweepsKeepNewest, PTL DEF FeedIsKept
=============================================================================
