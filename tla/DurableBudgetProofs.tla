------------------------ MODULE DurableBudgetProofs ------------------------
(***************************************************************************)
(* Proofs about DurableBudget, for any finite set of purchases and any     *)
(* limit.  ChargeStaysCounted is not inductive: whether a commit can find  *)
(* its reservation, and whether the file still has it when a write fails,  *)
(* is what HeldUntilExpiry, NoHoldOnlyInMemory and MissedCommitIsPending   *)
(* carry from step to step.                                                *)
(***************************************************************************)
EXTENDS DurableBudget, FiniteSetTheorems, TLAPS

(* A checkout that still means to commit finds its reservation in the      *)
(* ledger unless the TTL has passed, and no checkout outlives its process. *)
HeldUntilExpiry ==
  \A p \in Purchases : flow[p] \in {"reserved", "charged"} =>
      /\ running
      /\ p \in memory.reservations \cup lapsed

ChargeInv ==
  /\ TypeOK
  /\ HeldUntilExpiry
  /\ MissedCommitIsPending
  /\ NoHoldOnlyInMemory
  /\ ChargeStaysCounted

-----------------------------------------------------------------------------
LEMMA InitTypeOK == Init => TypeOK
<1> SUFFICES ASSUME Init PROVE TypeOK
  OBVIOUS
<1>1. running \in BOOLEAN /\ persistPending \in BOOLEAN /\ damaged \in BOOLEAN
  BY Zenon DEF Init
<1>2. EmptyLedger \in Ledger
  BY DEF EmptyLedger, Ledger
<1>3. flow \in [Purchases -> FlowState]
  BY DEF Init, FlowState
<1>4. QED
  BY <1>1, <1>2, <1>3 DEF Init, TypeOK

(* The ledger, the file and the checkouts keep their types.                *)
THEOREM TypeCorrect == Spec => []TypeOK
<1>1. Init => TypeOK
  BY InitTypeOK
<1>2. TypeOK /\ [Next]_vars => TypeOK'
  <2> SUFFICES ASSUME TypeOK, [Next]_vars PROVE TypeOK'
    OBVIOUS
  <2> USE DEF TypeOK, Ledger, EmptyLedger, FlowState, clock
  <2>1. ASSUME NEW p \in Purchases, NEW retried \in BOOLEAN, NEW wrote \in BOOLEAN,
               Reserve(p, retried, wrote)
        PROVE  TypeOK'
    BY <2>1 DEF Reserve, AfterFailedReserve, WriteToDisk, FileAfterRetry, PendingAfterRetry, Fits
  <2>2. ASSUME NEW p \in Purchases, NEW retried \in BOOLEAN, NEW wrote \in BOOLEAN,
               Commit(p, retried, wrote)
        PROVE  TypeOK'
    <3>1. memory' \in Ledger
      <4>1. CASE p \in memory.reservations
        <5>1. memory' = [spend |-> memory.spend \cup {p},
                         reservations |-> memory.reservations \ {p}]
          BY <2>2, <4>1, Zenon DEF Commit
        <5>2. QED
          BY <5>1
      <4>2. CASE p \notin memory.reservations
        BY <2>2, <4>2, Zenon DEF Commit
      <4>3. QED
        BY <4>1, <4>2
    <3>2. flow' \in [Purchases -> FlowState]
      BY <2>2 DEF Commit
    <3>3. file' \in {memory', memory, file}
      BY <2>2 DEF Commit, WriteToDisk, FileAfterRetry
    <3>4. persistPending' \in BOOLEAN
      BY <2>2, Zenon DEF Commit, WriteToDisk, PendingAfterRetry
    <3>5. QED
      BY <2>2, <3>1, <3>2, <3>3, <3>4 DEF Commit
  <2>3. ASSUME NEW p \in Purchases, NEW retried \in BOOLEAN, NEW wrote \in BOOLEAN,
               Release(p, retried, wrote)
        PROVE  TypeOK'
    BY <2>3 DEF Release, WriteToDisk, FileAfterRetry, PendingAfterRetry
  <2>4. ASSUME NEW retried \in BOOLEAN, NEW wrote \in BOOLEAN, Sweep(retried, wrote)
        PROVE  TypeOK'
    BY <2>4 DEF Sweep, Live, WriteToDisk, FileAfterRetry, PendingAfterRetry
  <2>5. ASSUME NEW p \in Purchases, Charge(p) \/ Lapse(p) \/ Age(p)
        PROVE  TypeOK'
    BY <2>5 DEF Charge, Lapse, Age
  <2>6. CASE Crash
    BY <2>6 DEF Crash
  <2>7. ASSUME NEW wrote \in BOOLEAN, Start(wrote)
        PROVE  TypeOK'
    BY <2>7 DEF Start
  <2>8. ASSUME NEW left \in Ledger, DamageFile(left)
        PROVE  TypeOK'
    BY <2>8 DEF DamageFile
  <2>9. CASE UNCHANGED vars
    BY <2>9 DEF vars
  <2>10. QED
    BY <2>1, <2>2, <2>3, <2>4, <2>5, <2>6, <2>7, <2>8, <2>9 DEF Next, Call
<1>3. QED
  BY <1>1, <1>2, PTL DEF Spec

-----------------------------------------------------------------------------
LEMMA ReserveKeepsCharges ==
  ASSUME ChargeInv, TypeOK', NEW p \in Purchases,
         NEW retried \in BOOLEAN, NEW wrote \in BOOLEAN, Reserve(p, retried, wrote)
  PROVE  ChargeInv'
<1> USE DEF ChargeInv, TypeOK, Ledger, FlowState, Counted, Charged, Reserve, AfterFailedReserve,
            WriteToDisk, FileAfterRetry, PendingAfterRetry, RetryPendingPersist, clock
<1>1. HeldUntilExpiry'
  BY DEF HeldUntilExpiry
<1>2. MissedCommitIsPending'
  BY DEF MissedCommitIsPending
<1>3. NoHoldOnlyInMemory'
  BY DEF NoHoldOnlyInMemory
<1>4. ChargeStaysCounted'
  BY DEF ChargeStaysCounted
<1>5. QED
  BY <1>1, <1>2, <1>3, <1>4

LEMMA CommitKeepsCharges ==
  ASSUME ChargeInv, TypeOK', NEW p \in Purchases,
         NEW retried \in BOOLEAN, NEW wrote \in BOOLEAN, Commit(p, retried, wrote)
  PROVE  ChargeInv'
<1> USE DEF ChargeInv, TypeOK, Ledger, FlowState, Counted, Charged, Commit,
            WriteToDisk, FileAfterRetry, PendingAfterRetry, RetryPendingPersist, clock
<1>1. HeldUntilExpiry'
  BY DEF HeldUntilExpiry
<1>2. MissedCommitIsPending'
  BY DEF MissedCommitIsPending, NoHoldOnlyInMemory
<1>3. NoHoldOnlyInMemory'
  BY DEF NoHoldOnlyInMemory
<1>4. ChargeStaysCounted'
  BY DEF ChargeStaysCounted, HeldUntilExpiry
<1>5. QED
  BY <1>1, <1>2, <1>3, <1>4

LEMMA ReleaseKeepsCharges ==
  ASSUME ChargeInv, TypeOK', NEW p \in Purchases,
         NEW retried \in BOOLEAN, NEW wrote \in BOOLEAN, Release(p, retried, wrote)
  PROVE  ChargeInv'
<1> USE DEF ChargeInv, TypeOK, Ledger, FlowState, Counted, Charged, Release,
            WriteToDisk, FileAfterRetry, PendingAfterRetry, RetryPendingPersist, clock
<1>1. HeldUntilExpiry'
  BY DEF HeldUntilExpiry
<1>2. MissedCommitIsPending'
  BY DEF MissedCommitIsPending
<1>3. NoHoldOnlyInMemory'
  BY DEF NoHoldOnlyInMemory
<1>4. ChargeStaysCounted'
  BY DEF ChargeStaysCounted
<1>5. QED
  BY <1>1, <1>2, <1>3, <1>4

LEMMA SweepKeepsCharges ==
  ASSUME ChargeInv, TypeOK',
         NEW retried \in BOOLEAN, NEW wrote \in BOOLEAN, Sweep(retried, wrote)
  PROVE  ChargeInv'
<1> USE DEF ChargeInv, TypeOK, Ledger, FlowState, Counted, Charged, Sweep, Live,
            WriteToDisk, FileAfterRetry, PendingAfterRetry, RetryPendingPersist, clock
<1>1. HeldUntilExpiry'
  BY DEF HeldUntilExpiry
<1>2. MissedCommitIsPending'
  BY DEF MissedCommitIsPending
<1>3. NoHoldOnlyInMemory'
  BY DEF NoHoldOnlyInMemory
<1>4. ChargeStaysCounted'
  BY DEF ChargeStaysCounted
<1>5. QED
  BY <1>1, <1>2, <1>3, <1>4

LEMMA LifeKeepsCharges ==
  ASSUME ChargeInv, TypeOK',
         \/ Crash
         \/ \E wrote \in BOOLEAN : Start(wrote)
         \/ \E left \in Ledger : DamageFile(left)
  PROVE  ChargeInv'
<1> USE DEF ChargeInv, TypeOK, Ledger, FlowState, Counted, Charged, clock,
            HeldUntilExpiry, MissedCommitIsPending, NoHoldOnlyInMemory, ChargeStaysCounted
<1>1. CASE Crash
  BY <1>1 DEF Crash, EmptyLedger
<1>2. ASSUME NEW wrote \in BOOLEAN, Start(wrote)
      PROVE  ChargeInv'
  BY <1>2 DEF Start
<1>3. ASSUME NEW left \in Ledger, DamageFile(left)
      PROVE  ChargeInv'
  BY <1>3 DEF DamageFile
<1>4. QED
  BY <1>1, <1>2, <1>3

LEMMA OutsideKeepsCharges ==
  ASSUME ChargeInv, TypeOK', NEW p \in Purchases, Charge(p) \/ Lapse(p) \/ Age(p)
  PROVE  ChargeInv'
<1> USE DEF ChargeInv, TypeOK, Ledger, FlowState, Counted, Charged,
            HeldUntilExpiry, MissedCommitIsPending, NoHoldOnlyInMemory, ChargeStaysCounted
<1>1. CASE Charge(p)
  BY <1>1 DEF Charge, clock
<1>2. CASE Lapse(p)
  BY <1>2 DEF Lapse
<1>3. CASE Age(p)
  BY <1>3 DEF Age
<1>4. QED
  BY <1>1, <1>2, <1>3

(* The invariant on charges, which the ledger's promises follow from.      *)
THEOREM ChargeInvariance == Spec => []ChargeInv
<1>1. Init => ChargeInv
  BY InitTypeOK DEF Init, ChargeInv, EmptyLedger, HeldUntilExpiry, MissedCommitIsPending,
                    NoHoldOnlyInMemory, ChargeStaysCounted, Charged
<1>2. ChargeInv /\ TypeOK' /\ [Next]_vars => ChargeInv'
  <2>1. CASE UNCHANGED vars
    BY <2>1 DEF vars, ChargeInv, TypeOK, HeldUntilExpiry, MissedCommitIsPending,
                NoHoldOnlyInMemory, ChargeStaysCounted, Charged, Counted
  <2>2. CASE Next
    BY <2>2, ReserveKeepsCharges, CommitKeepsCharges, ReleaseKeepsCharges,
       SweepKeepsCharges, LifeKeepsCharges, OutsideKeepsCharges DEF Next, Call
  <2>3. QED
    BY <2>1, <2>2
<1>3. QED
  BY <1>1, <1>2, TypeCorrect, PTL DEF Spec

(* A charged purchase keeps counting until its own time is over            *)
(* (budget-store.ts:47-58), for every number of purchases and every limit. *)
THEOREM ChargesAreNeverForgotten == Spec => []ChargeStaysCounted
BY ChargeInvariance, PTL DEF ChargeInv

(* A commit missing from the file is pending and still held there          *)
(* (budget-store.ts:330-345).                                              *)
THEOREM MissedCommitsArePending == Spec => []MissedCommitIsPending
BY ChargeInvariance, PTL DEF ChargeInv

(* No reservation lives in memory alone (budget-store.ts:262-276).         *)
THEOREM HoldsAreOnFile == Spec => []NoHoldOnlyInMemory
BY ChargeInvariance, PTL DEF ChargeInv

-----------------------------------------------------------------------------
(* Pools shrink with their ledgers and as records age, and stay finite.    *)
LEMMA SmallerPool ==
  ASSUME TypeOK, NEW P \in SUBSET Purchases, NEW Q \in SUBSET P, Cardinality(P) <= Limit
  PROVE  Cardinality(Q) <= Limit
<1>1. IsFiniteSet(P)
  BY FS_Subset, BudgetAssumption
<1>2. /\ Cardinality(Q) \in Nat
      /\ Cardinality(P) \in Nat
      /\ Cardinality(Q) <= Cardinality(P)
  BY <1>1, FS_Subset, FS_CardinalityType
<1>3. QED
  BY <1>2, BudgetAssumption

(* A granted reservation takes the one place Fits saw.                     *)
LEMMA OneMoreFits ==
  ASSUME TypeOK, Fits, NEW p \in Purchases,
         NEW Q \in SUBSET (Pool(memory) \cup {p})
  PROVE  Cardinality(Q) <= Limit
<1>1. Pool(memory) \in SUBSET Purchases
  BY DEF TypeOK, Ledger, Pool, Counted
<1>2. IsFiniteSet(Pool(memory))
  BY <1>1, FS_Subset, BudgetAssumption
<1>3. /\ IsFiniteSet(Pool(memory) \cup {p})
      /\ Cardinality(Pool(memory) \cup {p}) <= Cardinality(Pool(memory)) + 1
  <2>1. IsFiniteSet(Pool(memory) \cup {p})
    BY <1>2, FS_AddElement
  <2>2. Cardinality(Pool(memory) \cup {p})
          = IF p \in Pool(memory) THEN Cardinality(Pool(memory))
                                  ELSE Cardinality(Pool(memory)) + 1
    BY <1>2, FS_AddElement
  <2>3. Cardinality(Pool(memory)) \in Nat
    BY <1>2, FS_CardinalityType
  <2>4. QED
    BY <2>1, <2>2, <2>3
<1>4. /\ Cardinality(Q) \in Nat
      /\ Cardinality(Pool(memory)) \in Nat
      /\ Cardinality(Pool(memory) \cup {p}) \in Nat
      /\ Cardinality(Q) <= Cardinality(Pool(memory) \cup {p})
  BY <1>2, <1>3, FS_Subset, FS_CardinalityType
<1>5. QED
  BY <1>3, <1>4, BudgetAssumption DEF Fits

(* Every other step leaves each pool inside the pool memory or the file    *)
(* had before it.                                                          *)
LEMMA PoolsOnlyShrink ==
  ASSUME TypeOK, TypeOK', [Next]_vars,
         \A p \in Purchases : \A retried, wrote \in BOOLEAN : ~Reserve(p, retried, wrote)
  PROVE  /\ Pool(memory)' \subseteq Pool(memory) \/ Pool(memory)' \subseteq Pool(file)
         /\ Pool(file)' \subseteq Pool(memory) \/ Pool(file)' \subseteq Pool(file)
<1> USE DEF TypeOK, Ledger, Pool, Counted, clock
<1>1. ASSUME NEW p \in Purchases, NEW retried \in BOOLEAN, NEW wrote \in BOOLEAN,
             Commit(p, retried, wrote)
      PROVE  /\ Pool(memory)' \subseteq Pool(memory)
             /\ Pool(file)' \subseteq Pool(memory) \/ Pool(file)' \subseteq Pool(file)
  BY <1>1 DEF Commit, WriteToDisk, FileAfterRetry
<1>2. ASSUME NEW p \in Purchases, NEW retried \in BOOLEAN, NEW wrote \in BOOLEAN,
             Release(p, retried, wrote)
      PROVE  /\ Pool(memory)' \subseteq Pool(memory)
             /\ Pool(file)' \subseteq Pool(memory) \/ Pool(file)' \subseteq Pool(file)
  BY <1>2 DEF Release, WriteToDisk, FileAfterRetry
<1>3. ASSUME NEW retried \in BOOLEAN, NEW wrote \in BOOLEAN, Sweep(retried, wrote)
      PROVE  /\ Pool(memory)' \subseteq Pool(memory)
             /\ Pool(file)' \subseteq Pool(memory) \/ Pool(file)' \subseteq Pool(file)
  BY <1>3 DEF Sweep, Live, WriteToDisk, FileAfterRetry
<1>4. ASSUME NEW p \in Purchases, Charge(p) \/ Lapse(p) \/ Age(p)
      PROVE  Pool(memory)' \subseteq Pool(memory) /\ Pool(file)' \subseteq Pool(file)
  BY <1>4 DEF Charge, Lapse, Age
<1>5. CASE Crash
  BY <1>5 DEF Crash, EmptyLedger
<1>6. ASSUME NEW wrote \in BOOLEAN, Start(wrote)
      PROVE  Pool(memory)' \subseteq Pool(file) /\ Pool(file)' \subseteq Pool(file)
  BY <1>6 DEF Start
<1>7. ASSUME NEW left \in Ledger, DamageFile(left)
      PROVE  Pool(memory)' \subseteq Pool(memory) /\ Pool(file)' \subseteq Pool(file)
  BY <1>7 DEF DamageFile
<1>8. CASE UNCHANGED vars
  BY <1>8 DEF vars
<1>9. QED
  BY <1>1, <1>2, <1>3, <1>4, <1>5, <1>6, <1>7, <1>8 DEF Next, Call

(* Neither the ledger nor the file ever holds more than the day's limit.   *)
THEOREM LimitHolds == Spec => []WithinLimit
<1>1. Init => WithinLimit
  <2>1. Init => Pool(memory) = {} /\ Pool(file) = {}
    BY DEF Init, EmptyLedger, Pool, Counted
  <2>2. QED
    BY <2>1, FS_EmptySet, BudgetAssumption DEF WithinLimit
<1>2. TypeOK /\ TypeOK' /\ WithinLimit /\ [Next]_vars => WithinLimit'
  <2> SUFFICES ASSUME TypeOK, TypeOK', WithinLimit, [Next]_vars
               PROVE  WithinLimit'
    OBVIOUS
  <2>1. /\ Pool(memory) \in SUBSET Purchases
        /\ Pool(file) \in SUBSET Purchases
    BY DEF TypeOK, Ledger, Pool, Counted
  <2>2. CASE \E p \in Purchases : \E retried, wrote \in BOOLEAN : Reserve(p, retried, wrote)
    <3>1. PICK p \in Purchases, retried \in BOOLEAN, wrote \in BOOLEAN :
               Reserve(p, retried, wrote)
      BY <2>2
    <3>2. CASE Fits /\ wrote
      <4>1. /\ Pool(memory)' \subseteq Pool(memory) \cup {p}
            /\ Pool(file)' = Pool(memory)'
        BY <3>1, <3>2 DEF Reserve, AfterFailedReserve, WriteToDisk, Pool, Counted, TypeOK, Ledger, clock
      <4>2. QED
        BY <3>2, <4>1, OneMoreFits DEF WithinLimit
    <3>3. CASE ~(Fits /\ wrote)
      <4>1. /\ Pool(memory)' = Pool(memory)
            /\ Pool(file)' = Pool(memory) \/ Pool(file)' = Pool(file)
        BY <3>1, <3>3 DEF Reserve, AfterFailedReserve, WriteToDisk, FileAfterRetry, Pool, Counted, clock
      <4>2. QED
        BY <4>1 DEF WithinLimit
    <3>4. QED
      BY <3>2, <3>3
  <2>3. CASE \A p \in Purchases : \A retried, wrote \in BOOLEAN : ~Reserve(p, retried, wrote)
    BY <2>1, <2>3, PoolsOnlyShrink, SmallerPool DEF WithinLimit
  <2>4. QED
    BY <2>2, <2>3
<1>3. QED
  BY <1>1, <1>2, TypeCorrect, PTL DEF Spec

(* The ledger keeps its types, knows every write it missed and holds       *)
(* nothing that is not on file (budget-store.ts).                          *)
THEOREM LedgerStaysSound == Spec => []LedgerIsSound
BY TypeCorrect, MissedCommitsArePending, HoldsAreOnFile, PTL DEF LedgerIsSound

-----------------------------------------------------------------------------
(* A purchase nobody reserved is nowhere, and only what is over has aged.  *)
NewIsNowhere ==
  \A p \in Purchases : flow[p] = "new" => p \notin Counted(memory) \cup Counted(file) \cup lapsed
AgedIsOver ==
  \A p \in aged : p \in lapsed /\ flow[p] \in {"settled", "orphaned", "over"}

PlaceInv == TypeOK /\ NewIsNowhere /\ AgedIsOver

(* A purchase is taken up once, and its record ages last.                  *)
LEMMA StepPlaceInv == PlaceInv /\ TypeOK' /\ [Next]_vars => PlaceInv'
<1> SUFFICES ASSUME PlaceInv, TypeOK', [Next]_vars PROVE PlaceInv'
  OBVIOUS
<1> USE DEF PlaceInv, TypeOK, NewIsNowhere, AgedIsOver, Ledger, FlowState, Counted, clock
<1>1. ASSUME NEW p \in Purchases, NEW retried \in BOOLEAN, NEW wrote \in BOOLEAN,
             Reserve(p, retried, wrote)
      PROVE  PlaceInv'
  BY <1>1 DEF Reserve, AfterFailedReserve, WriteToDisk, FileAfterRetry, PendingAfterRetry
<1>2. ASSUME NEW p \in Purchases, NEW retried \in BOOLEAN, NEW wrote \in BOOLEAN,
             Commit(p, retried, wrote)
      PROVE  PlaceInv'
  BY <1>2 DEF Commit, WriteToDisk, FileAfterRetry, PendingAfterRetry
<1>3. ASSUME NEW p \in Purchases, NEW retried \in BOOLEAN, NEW wrote \in BOOLEAN,
             Release(p, retried, wrote)
      PROVE  PlaceInv'
  BY <1>3 DEF Release, WriteToDisk, FileAfterRetry, PendingAfterRetry
<1>4. ASSUME NEW retried \in BOOLEAN, NEW wrote \in BOOLEAN, Sweep(retried, wrote)
      PROVE  PlaceInv'
  BY <1>4 DEF Sweep, Live, WriteToDisk, FileAfterRetry, PendingAfterRetry
<1>5. ASSUME NEW p \in Purchases, Charge(p) \/ Lapse(p) \/ Age(p)
      PROVE  PlaceInv'
  BY <1>5 DEF Charge, Lapse, Age
<1>6. CASE Crash
  BY <1>6 DEF Crash, EmptyLedger
<1>7. ASSUME NEW wrote \in BOOLEAN, Start(wrote) PROVE PlaceInv'
  BY <1>7 DEF Start
<1>8. ASSUME NEW left \in Ledger, DamageFile(left) PROVE PlaceInv'
  BY <1>8 DEF DamageFile
<1>9. CASE UNCHANGED vars
  BY <1>9 DEF vars
<1>10. QED
  BY <1>1, <1>2, <1>3, <1>4, <1>5, <1>6, <1>7, <1>8, <1>9 DEF Next, Call

(* No purchase is held before its checkout asked, nor aged before it ended *)
(* (budget-store.ts:262-276).                                              *)
THEOREM PlacesAreKnown == Spec => []PlaceInv
<1>1. Init => PlaceInv
  BY InitTypeOK DEF Init, PlaceInv, NewIsNowhere, AgedIsOver, EmptyLedger, Counted
<1>2. QED
  BY <1>1, StepPlaceInv, TypeCorrect, PTL DEF Spec

(* What the simulation knows of a state.                                   *)
SimInv == ChargeInv /\ PlaceInv /\ WithinLimit

(* Giving back uncharged or expired places is a step of the promise.       *)
LEMMA GivingBackIsFree ==
  ASSUME counted \in SUBSET Purchases, counted' \subseteq counted,
         (counted \ counted') \cap Charged \subseteq lapsed,
         Charged' = Charged, lapsed' = lapsed
  PROVE  Promise!Next
<1> DEFINE places == counted \ counted'
<1>1. counted' = counted \ places /\ places \in SUBSET Purchases
  OBVIOUS
<1>2. Promise!Free(places)
  BY <1>1 DEF Promise!Free
<1>3. QED
  BY <1>1, <1>2 DEF Promise!Next

(* The two modules count alike.                                            *)
LEMMA SameCardinality == \A S : Promise!Cardinality(S) = Cardinality(S)
  BY DEF Promise!Cardinality, Cardinality

(* Every step is one of the promise, or leaves it where it was.            *)
LEMMA StepSimulates ==
  SimInv /\ WithinLimit' /\ TypeOK' /\ [Next]_vars
    => [damaged' \/ Promise!Next]_<<counted, Charged, lapsed>>
<1> SUFFICES ASSUME SimInv, WithinLimit', TypeOK', [Next]_vars
             PROVE  damaged' \/ Promise!Next \/ UNCHANGED <<counted, Charged, lapsed>>
  OBVIOUS
<1>0. TypeOK /\ Charged \in SUBSET Purchases /\ counted \in SUBSET Purchases
      /\ Charged' \in SUBSET Purchases /\ counted' \in SUBSET Purchases
  BY DEF SimInv, ChargeInv, TypeOK, Ledger, Charged, counted, Pool, Counted
<1>1. ASSUME NEW p \in Purchases, NEW retried \in BOOLEAN, NEW wrote \in BOOLEAN,
             Reserve(p, retried, wrote)
      PROVE  Promise!Next \/ UNCHANGED <<counted, Charged, lapsed>>
  <2>1. running /\ running' /\ flow[p] = "new" /\ lapsed' = lapsed /\ aged' = aged
    BY <1>1 DEF Reserve, clock
  <2>2. Charged' = Charged
    BY <1>0, <1>1 DEF Reserve, Charged, TypeOK
  <2>3. CASE Fits /\ wrote
    <3>1. p \notin counted \cup Charged \cup aged
      BY <2>1 DEF SimInv, PlaceInv, NewIsNowhere, AgedIsOver, counted, Pool, Charged
    <3>2. counted' = counted \cup {p}
      BY <1>0, <1>1, <2>1, <2>3, <3>1 DEF Reserve, counted, Pool, Counted, TypeOK, Ledger
    <3>3. Cardinality(counted) < Limit
      BY <2>1, <2>3 DEF Fits, counted
    <3>4. Promise!Hold(p)
      BY <2>1, <2>2, <3>1, <3>2, <3>3, SameCardinality DEF Promise!Hold
    <3>5. QED
      BY <3>4 DEF Promise!Next
  <2>4. CASE ~(Fits /\ wrote)
    BY <1>1, <2>1, <2>2, <2>4 DEF Reserve, AfterFailedReserve, counted, Pool, Counted
  <2>5. QED
    BY <2>3, <2>4
<1>2. ASSUME NEW p \in Purchases, NEW retried \in BOOLEAN, NEW wrote \in BOOLEAN,
             Commit(p, retried, wrote)
      PROVE  UNCHANGED <<counted, Charged, lapsed>>
  <2>1. running /\ running' /\ lapsed' = lapsed /\ aged' = aged
    BY <1>2 DEF Commit, clock
  <2>2. Charged' = Charged
    BY <1>0, <1>2 DEF Commit, Charged, TypeOK
  <2>3. Counted(memory)' = Counted(memory)
    <3>1. CASE p \in memory.reservations
      <4>1. memory' = [spend |-> memory.spend \cup {p},
                       reservations |-> memory.reservations \ {p}]
        BY <1>2, <3>1, Zenon DEF Commit
      <4>2. QED
        BY <3>1, <4>1 DEF Counted
    <3>2. CASE p \notin memory.reservations
      <4>1. memory' = memory
        BY <1>2, <3>2, Zenon DEF Commit
      <4>2. QED
        BY <4>1 DEF Counted
    <3>3. QED
      BY <3>1, <3>2
  <2>4. QED
    BY <2>1, <2>2, <2>3 DEF counted, Pool
<1>3. ASSUME NEW p \in Purchases, NEW retried \in BOOLEAN, NEW wrote \in BOOLEAN,
             Release(p, retried, wrote)
      PROVE  Promise!Next
  <2>1. running /\ running' /\ flow[p] = "reserved" /\ lapsed' = lapsed /\ aged' = aged
    BY <1>3 DEF Release, clock
  <2>2. Charged' = Charged /\ p \notin Charged
    BY <1>0, <1>3 DEF Release, Charged, TypeOK
  <2>3. counted' \subseteq counted /\ counted \ counted' \subseteq {p}
    BY <1>0, <1>3, <2>1 DEF Release, counted, Pool, Counted, TypeOK, Ledger
  <2>4. QED
    BY <1>0, <2>1, <2>2, <2>3, GivingBackIsFree
<1>4. ASSUME NEW retried \in BOOLEAN, NEW wrote \in BOOLEAN, Sweep(retried, wrote)
      PROVE  Promise!Next
  <2>1. running /\ running' /\ lapsed' = lapsed /\ aged' = aged
    BY <1>4 DEF Sweep, clock
  <2>2. Charged' = Charged
    BY <1>4 DEF Sweep, Charged
  <2>3. counted' \subseteq counted /\ counted \ counted' \subseteq lapsed
    BY <1>0, <1>4, <2>1 DEF Sweep, Live, counted, Pool, Counted, TypeOK, Ledger
  <2>4. QED
    BY <1>0, <2>1, <2>2, <2>3, GivingBackIsFree
<1>5. ASSUME NEW p \in Purchases, Charge(p) PROVE Promise!Next
  <2>1. /\ running /\ flow[p] = "reserved"
        /\ flow' = [flow EXCEPT ![p] = "charged"]
        /\ UNCHANGED <<running, memory, file, lapsed, aged>>
    BY <1>5 DEF Charge, clock
  <2>2. Charged' = Charged \cup {p}
    BY <1>0, <2>1 DEF Charged, TypeOK
  <2>3. p \in counted \cup lapsed
    BY <2>1 DEF SimInv, ChargeInv, HeldUntilExpiry, PlaceInv, AgedIsOver, counted, Pool, Counted
  <2>4. counted' = counted
    BY <2>1 DEF counted, Pool, Counted
  <2>5. Promise!Charge(p)
    BY <2>1, <2>2, <2>3, <2>4 DEF Promise!Charge
  <2>6. QED
    BY <2>5 DEF Promise!Next
<1>6. ASSUME NEW p \in Purchases, Lapse(p) PROVE Promise!Next
  <2>1. Promise!Expire(p)
    BY <1>6 DEF Lapse, Promise!Expire, counted, Pool, Counted, Charged
  <2>2. QED
    BY <2>1 DEF Promise!Next
<1>7. ASSUME NEW p \in Purchases, Age(p) PROVE Promise!Next
  <2>1. /\ p \in lapsed /\ aged' = aged \cup {p}
        /\ UNCHANGED <<running, memory, file, flow, lapsed>>
    BY <1>7 DEF Age
  <2>2. Charged' = Charged
    BY <2>1 DEF Charged
  <2>3. counted' \subseteq counted /\ counted \ counted' \subseteq {p}
    BY <2>1 DEF counted, Pool, Counted
  <2>4. QED
    BY <1>0, <2>1, <2>2, <2>3, GivingBackIsFree
<1>8. CASE Crash
  <2>1. running /\ ~running' /\ file' = file /\ lapsed' = lapsed /\ aged' = aged
    BY <1>8 DEF Crash, clock
  <2>2. Charged' = Charged
    BY <1>0, <1>8 DEF Crash, Charged, TypeOK
  <2>3. counted = Pool(memory) /\ counted' = Pool(file) /\ Pool(file)' = Pool(file)
    BY <2>1 DEF counted, Pool, Counted
  <2>4. Counted(memory) \subseteq Counted(file)
    BY <2>1 DEF SimInv, ChargeInv, MissedCommitIsPending, NoHoldOnlyInMemory, Counted
  <2>5. counted' = counted \cup Pool(file)
    BY <2>3, <2>4 DEF Pool
  <2>6. Promise!Revive(Pool(file))
    <3>1. Cardinality(counted') <= Limit
      BY <2>3 DEF SimInv, WithinLimit
    <3>2. QED
      BY <2>1, <2>2, <2>5, <3>1, SameCardinality DEF Promise!Revive
  <2>7. Pool(file) \in SUBSET Purchases
    BY <1>0, <2>3
  <2>8. QED
    BY <2>6, <2>7 DEF Promise!Next
<1>9. ASSUME NEW wrote \in BOOLEAN, Start(wrote)
      PROVE  UNCHANGED <<counted, Charged, lapsed>>
  <2>1. /\ ~running /\ running' /\ flow' = flow /\ lapsed' = lapsed /\ aged' = aged
        /\ memory' = [file EXCEPT !.spend = @ \ aged]
    BY <1>9 DEF Start, clock
  <2>2. Pool(memory)' = Pool(file)
    BY <1>0, <2>1 DEF Pool, Counted, TypeOK, Ledger
  <2>3. QED
    BY <2>1, <2>2 DEF counted, Charged
<1>10. ASSUME NEW left \in Ledger, DamageFile(left) PROVE damaged'
  BY <1>10 DEF DamageFile
<1>11. CASE UNCHANGED vars
  BY <1>11 DEF vars, counted, Pool, Counted, Charged
<1>12. QED
  BY <1>1, <1>2, <1>3, <1>4, <1>5, <1>6, <1>7, <1>8, <1>9, <1>10, <1>11 DEF Next, Call

(* The ledger in memory, its file, the missed writes and the crashes       *)
(* implement the pool of places of BudgetPromise, up to damage done to the *)
(* file from outside (budget-store.ts).                                    *)
THEOREM PromiseIsKept == Spec => KeepsPromise
<1>1. Init => Promise!Init
  BY DEF Init, Promise!Init, counted, Pool, Counted, EmptyLedger, Charged
<1>2. QED
  BY <1>1, StepSimulates, ChargeInvariance, PlacesAreKnown, LimitHolds, TypeCorrect, PTL
     DEF Spec, KeepsPromise, SimInv
=============================================================================
