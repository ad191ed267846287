--------------------------- MODULE CheckoutProofs ---------------------------
(***************************************************************************)
(* Proofs about OwnerApprovals and about Checkout, which composes it with  *)
(* the journal, for any calls, pages and deeds and any bounds.  The store  *)
(* comes first; every step of Checkout is one of the store's or leaves it  *)
(* alone, so what holds of the store alone holds in the composition.       *)
(***************************************************************************)
EXTENDS Checkout, FiniteSetTheorems, WellFoundedInduction, TLAPS

(* Every approval there ever was has the number of a grant made.           *)
GrantsAreCounted == \A a \in approvals \cup disk \cup spent : a.grant <= granted

StoreInv ==
  /\ TypeOK /\ IsFiniteSet(approvals) /\ IsFiniteSet(disk)
  /\ GrantsAreCounted /\ SpentForGood /\ RestartChangesNothing

-----------------------------------------------------------------------------
(* A set of naturals has a least member.                                   *)
LEMMA LeastNatural ==
  ASSUME NEW T \in SUBSET Nat, T # {}
  PROVE  \E x \in T : \A y \in T : x <= y
<1>1. PICK x \in T : \A y \in T : ~ (<<y, x>> \in OpToRel(<, Nat))
  BY NatLessThanWellFounded, WFMin
<1>2. ASSUME NEW y \in T, y < x PROVE <<y, x>> \in OpToRel(<, Nat)
  <2>1. SUFFICES <<y, x>> \in {pair \in Nat \X Nat : pair[1] < pair[2]}
    BY Zenon DEF OpToRel
  <2>2. QED
    BY <1>2
<1>3. \A y \in T : ~ (y < x)
  BY <1>1, <1>2, Zenon
<1>4. QED
  BY <1>3

(* A list that is not empty has an oldest approval.                        *)
LEMMA OldestIsThere ==
  ASSUME NEW S \in SUBSET Approval, S # {}
  PROVE  Oldest(S) \in S
<1> DEFINE T == {a.grant : a \in S}
<1>1. T \in SUBSET Nat /\ T # {}
  BY DEF Approval
<1>2. PICK x \in T : \A y \in T : x <= y
  BY <1>1, LeastNatural
<1>3. PICK a \in S : a.grant = x
  BY <1>2
<1>4. \A b \in S : a.grant <= b.grant
  BY <1>2, <1>3
<1>5. QED
  BY <1>4 DEF Oldest

(* Making room leaves room for one.                                        *)
LEMMA RoomForOne ==
  ASSUME NEW S \in SUBSET Approval, IsFiniteSet(S), Cardinality(S) <= MaxPending, NEW a
  PROVE  /\ MakeRoom(S) \subseteq S
         /\ IsFiniteSet(MakeRoom(S) \cup {a})
         /\ Cardinality(MakeRoom(S) \cup {a}) <= MaxPending
<1>1. MaxPending \in Nat \ {0} /\ Cardinality(S) \in Nat
  BY ApprovalsAssumption, FS_CardinalityType
<1>2. /\ MakeRoom(S) \subseteq S /\ IsFiniteSet(MakeRoom(S))
      /\ Cardinality(MakeRoom(S)) \in Nat /\ Cardinality(MakeRoom(S)) < MaxPending
  <2>1. CASE Full(S)
    <3>1. S # {}
      BY <1>1, <2>1, FS_EmptySet DEF Full
    <3>2. Oldest(S) \in S
      BY <3>1, OldestIsThere
    <3>3. /\ IsFiniteSet(S \ {Oldest(S)})
          /\ Cardinality(S \ {Oldest(S)}) = Cardinality(S) - 1
      BY <3>2, FS_RemoveElement
    <3>4. Cardinality(S \ {Oldest(S)}) \in Nat
      BY <3>3, FS_CardinalityType
    <3>5. QED
      BY <1>1, <2>1, <3>3, <3>4 DEF MakeRoom
  <2>2. CASE ~Full(S)
    BY <1>1, <2>2 DEF MakeRoom, Full
  <2>3. QED
    BY <2>1, <2>2
<1>3. /\ IsFiniteSet(MakeRoom(S) \cup {a})
      /\ Cardinality(MakeRoom(S) \cup {a})
           = IF a \in MakeRoom(S) THEN Cardinality(MakeRoom(S)) ELSE Cardinality(MakeRoom(S)) + 1
  BY <1>2, FS_AddElement
<1>4. Cardinality(MakeRoom(S) \cup {a}) \in Nat
  BY <1>3, FS_CardinalityType
<1>5. QED
  BY <1>1, <1>2, <1>3, <1>4

(* A list that only lost entries is as bounded as it was.                  *)
LEMMA FewerFit ==
  ASSUME NEW S, IsFiniteSet(S), Cardinality(S) <= MaxPending, NEW Q \in SUBSET S
  PROVE  IsFiniteSet(Q) /\ Cardinality(Q) <= MaxPending
<1>1. /\ IsFiniteSet(Q) /\ Cardinality(Q) <= Cardinality(S)
      /\ Cardinality(S) \in Nat /\ Cardinality(Q) \in Nat
  BY FS_Subset, FS_CardinalityType
<1>2. QED
  BY <1>1, ApprovalsAssumption

LEMMA InitStoreInv == Init => StoreInv
  BY FS_EmptySet, ApprovalsAssumption
     DEF Init, StoreInv, TypeOK, GrantsAreCounted, SpentForGood, RestartChangesNothing, Unexpired

(* A step that keeps, sweeps or removes: memory is inside what it was, or  *)
(* what the file had, and the file is as it was or follows memory.         *)
LEMMA ShrinkKeepsStoreInv ==
  ASSUME StoreInv, up' \in BOOLEAN, granted' = granted, expired' \in SUBSET Approval,
         expired \subseteq expired', spent' \subseteq spent \cup (approvals \ approvals'),
         approvals' \subseteq approvals \/ approvals' \subseteq disk,
         \/ disk' = approvals'
         \/ disk' = disk /\ spent' = spent
             /\ (up' => up /\ approvals' \in {approvals, Unexpired(approvals)}),
         spent' \cap approvals' = {}
  PROVE  StoreInv'
<1> USE DEF StoreInv, TypeOK
<1>1. /\ IsFiniteSet(approvals') /\ Cardinality(approvals') <= MaxPending
      /\ IsFiniteSet(disk') /\ Cardinality(disk') <= MaxPending
  BY FewerFit
<1>2. approvals' \in SUBSET Approval /\ disk' \in SUBSET Approval /\ spent' \in SUBSET Approval
  OBVIOUS
<1>3. GrantsAreCounted'
  BY DEF GrantsAreCounted
<1>4. SpentForGood'
  BY DEF SpentForGood
<1>5. RestartChangesNothing'
  BY DEF RestartChangesNothing, Unexpired
<1>6. QED
  BY <1>1, <1>2, <1>3, <1>4, <1>5

LEMMA GrantKeepsStoreInv ==
  ASSUME StoreInv, NEW deed \in Deeds, NEW wrote \in BOOLEAN, Grant(deed, wrote)
  PROVE  StoreInv'
<1> DEFINE kept == Unexpired(approvals)
           new == [deed |-> deed, grant |-> granted + 1]
<1>1. CASE ~wrote
  <2>1. approvals' = kept /\ UNCHANGED <<up, disk, granted, expired, spent>> /\ kept \subseteq approvals
    BY <1>1 DEF Grant, RolledBack, Unexpired
  <2>2. QED
    BY <2>1, ShrinkKeepsStoreInv DEF StoreInv, TypeOK, SpentForGood
<1>2. CASE wrote
  <2>1. /\ approvals' = MakeRoom(kept) \cup {new} /\ disk' = approvals' /\ granted' = granted + 1
        /\ granted < MaxGrants /\ UNCHANGED <<up, expired, spent>>
    BY <1>2 DEF Grant
  <2>2. /\ kept \in SUBSET Approval /\ kept \subseteq approvals
        /\ IsFiniteSet(kept) /\ Cardinality(kept) <= MaxPending
    BY FewerFit DEF StoreInv, TypeOK, Unexpired
  <2>3. /\ MakeRoom(kept) \subseteq kept
        /\ IsFiniteSet(approvals') /\ Cardinality(approvals') <= MaxPending
    BY <2>1, <2>2, RoomForOne
  <2>4. granted \in Nat /\ granted' \in 0..MaxGrants /\ new \in Approval
    BY <2>1, ApprovalsAssumption DEF StoreInv, TypeOK, Approval
  <2>5. TypeOK'
    BY <2>1, <2>2, <2>3, <2>4 DEF StoreInv, TypeOK
  <2>6. GrantsAreCounted'
    <3>1. \A a \in approvals \cup disk \cup spent : a.grant <= granted /\ a.grant \in Nat
      BY DEF StoreInv, GrantsAreCounted, TypeOK, Approval
    <3>2. QED
      BY <2>1, <2>2, <2>3, <2>4, <3>1 DEF GrantsAreCounted
  <2>7. SpentForGood'
    <3>1. new \notin spent
      BY <2>4 DEF StoreInv, GrantsAreCounted
    <3>2. QED
      BY <2>1, <2>2, <2>3, <3>1 DEF StoreInv, SpentForGood
  <2>8. QED
    BY <2>1, <2>3, <2>5, <2>6, <2>7 DEF StoreInv, RestartChangesNothing
<1>3. QED
  BY <1>1, <1>2

LEMMA StepStoreInv == StoreInv /\ [Next]_approvalVars => StoreInv'
<1> SUFFICES ASSUME StoreInv, [Next]_approvalVars PROVE StoreInv'
  OBVIOUS
<1> USE DEF approvalVars, Unexpired
<1>0. /\ spent \cap approvals = {} /\ spent \cap disk = {} /\ up \in BOOLEAN
      /\ expired \in SUBSET Approval
  BY DEF StoreInv, TypeOK, SpentForGood
<1>1. ASSUME NEW deed \in Deeds, NEW wrote \in BOOLEAN, Grant(deed, wrote) PROVE StoreInv'
  BY <1>1, GrantKeepsStoreInv
<1>2. ASSUME NEW deed \in Deeds, NEW wrote \in BOOLEAN, TakeMiss(deed, wrote) PROVE StoreInv'
  BY <1>0, <1>2, ShrinkKeepsStoreInv DEF TakeMiss
<1>3. ASSUME NEW deed \in Deeds, TakeHit(deed) PROVE StoreInv'
  BY <1>0, <1>3, ShrinkKeepsStoreInv DEF TakeHit, FileAfterTake, Matches
<1>4. ASSUME NEW deed \in Deeds, TakeUnwritten(deed) PROVE StoreInv'
  BY <1>0, <1>4, ShrinkKeepsStoreInv DEF TakeUnwritten
<1>5. CASE PendingCount
  BY <1>0, <1>5, ShrinkKeepsStoreInv DEF PendingCount
<1>6. CASE Die
  BY <1>0, <1>6, ShrinkKeepsStoreInv DEF Die
<1>7. ASSUME NEW wrote \in BOOLEAN, Load(wrote) PROVE StoreInv'
  BY <1>0, <1>7, ShrinkKeepsStoreInv DEF Load
<1>8. CASE Expire
  BY <1>0, <1>8, ShrinkKeepsStoreInv DEF Expire
<1>9. CASE UNCHANGED approvalVars
  BY <1>0, <1>9, ShrinkKeepsStoreInv
<1>10. QED
  BY <1>1, <1>2, <1>3, <1>4, <1>5, <1>6, <1>7, <1>8, <1>9 DEF Next

(* The strengthening holds throughout.                                     *)
THEOREM StoreInvariance == Spec => []StoreInv
BY InitStoreInv, StepStoreInv, PTL DEF Spec

(* What the owner authorized survives any restart                          *)
(* (approval-store.ts:147-156).                                            *)
THEOREM RestartsChangeNothing == Spec => []RestartChangesNothing
BY StoreInvariance, PTL DEF StoreInv

LEMMA StepLeavesForCause ==
  ASSUME StoreInv, StoreInv', [Next]_approvalVars, NEW a \in disk \ disk'
  PROVE  \/ a \in spent'
         \/ a \in expired
         \/ /\ granted' > granted
            /\ Cardinality(Unexpired(disk)) = MaxPending
            /\ a = Oldest(Unexpired(disk))
<1>1. ASSUME NEW deed \in Deeds, NEW wrote \in BOOLEAN, Grant(deed, wrote), a \notin expired
      PROVE  /\ granted' > granted
             /\ Cardinality(Unexpired(disk)) = MaxPending
             /\ a = Oldest(Unexpired(disk))
  <2>1. /\ wrote /\ up /\ disk' = approvals' /\ granted' = granted + 1
        /\ MakeRoom(Unexpired(approvals)) \subseteq disk'
    BY <1>1 DEF Grant
  <2>2. Unexpired(approvals) = Unexpired(disk) /\ a \in Unexpired(disk)
    BY <1>1, <2>1 DEF StoreInv, RestartChangesNothing, Unexpired
  <2>3. Full(Unexpired(disk)) /\ a = Oldest(Unexpired(disk))
    BY <2>1, <2>2 DEF MakeRoom
  <2>4. /\ Cardinality(Unexpired(disk)) <= MaxPending /\ Cardinality(Unexpired(disk)) \in Nat
    BY FewerFit, FS_CardinalityType DEF StoreInv, TypeOK, Unexpired
  <2>5. QED
    BY <2>1, <2>3, <2>4, ApprovalsAssumption DEF Full, StoreInv, TypeOK
<1>2. ASSUME NEW deed \in Deeds, NEW wrote \in BOOLEAN, TakeMiss(deed, wrote) PROVE a \in expired
  BY <1>2 DEF TakeMiss, StoreInv, RestartChangesNothing, Unexpired
<1>3. ASSUME NEW deed \in Deeds, TakeHit(deed) PROVE a \in spent' \/ a \in expired
  BY <1>3 DEF TakeHit, FileAfterTake, Matches, StoreInv, RestartChangesNothing, Unexpired
<1>4. ASSUME \/ \E deed \in Deeds : TakeUnwritten(deed)
             \/ PendingCount \/ Die \/ Expire \/ UNCHANGED approvalVars
      PROVE  FALSE
  BY <1>4 DEF TakeUnwritten, PendingCount, Die, Expire, approvalVars
<1>5. ASSUME NEW wrote \in BOOLEAN, Load(wrote) PROVE a \in expired
  BY <1>5 DEF Load, Unexpired
<1>6. QED
  BY <1>1, <1>2, <1>3, <1>4, <1>5 DEF Next

(* An approval is spent once, and leaves the file only spent, expired or   *)
(* evicted as the oldest of a full list (approval-store.ts:58-64,191-197). *)
THEOREM EveryApprovalIsAccounted == Spec => Accounted
<1>1. StoreInv /\ StoreInv' /\ [Next]_approvalVars =>
        [\A a \in disk \ disk' :
            \/ a \in spent'
            \/ a \in expired
            \/ /\ granted' > granted
               /\ Cardinality(Unexpired(disk)) = MaxPending
               /\ a = Oldest(Unexpired(disk))]_approvalVars
  BY StepLeavesForCause
<1>2. StoreInv => TypeOK /\ SpentForGood
  BY DEF StoreInv
<1>3. QED
  BY <1>1, <1>2, StoreInvariance, PTL DEF Spec, Accounted, LeavesOnlyForCause

-----------------------------------------------------------------------------
(* A call past its lookup has named a page.                                *)
PagesNamed == \A c \in Calls : at[c] \in {"checking"} \cup InFlight => call[c].page \in Pages

(* Only a submitted purchase is charged.                                   *)
ChargedWereSubmitted == \A c \in charged : at[c] \in {"submitted", "reported", "lost"}

(* A purchase about to be submitted, or charged and not reported, is on    *)
(* file, and in the journal of the process while there is one.             *)
MayHaveSubmitted(c) ==
  at[c] \in {"pending", "submitted"} \/ (c \in charged /\ at[c] # "reported")
OnRecord ==
  \A c \in Calls : MayHaveSubmitted(c) =>
     journalFile[c] = "submit-pending" /\ (up => records[c] = "submit-pending")

CheckoutInv ==
  /\ CheckoutTypeOK /\ PagesNamed /\ OnePurchasePerPage /\ GatesDecideOnOwnFacts
  /\ ChargedWereSubmitted /\ OnRecord

-----------------------------------------------------------------------------
LEMMA InitCheckoutInv == CheckoutInit => CheckoutInv
<1> SUFFICES ASSUME CheckoutInit PROVE CheckoutInv
  OBVIOUS
<1>1. Journal!EmptyJournal \in Journal!Journal
  BY DEF Journal!EmptyJournal, Journal!Journal
<1>2. NoCall \in [deed: Deeds \cup {None}, page: Pages \cup {None}, facts: Facts]
      /\ NoGateInputsYet \in Facts
  BY DEF NoCall, NoGateInputsYet, Facts
<1>3. CheckoutTypeOK
  BY <1>1, <1>2 DEF CheckoutInit, CheckoutTypeOK, Journal!JournalInit, Places
<1>4. \A c \in Calls : at[c] = "new" /\ c \notin charged
  BY DEF CheckoutInit
<1>5. QED
  BY <1>3, <1>4 DEF CheckoutInv, PagesNamed, OnePurchasePerPage, GatesDecideOnOwnFacts,
                    ChargedWereSubmitted, OnRecord, MayHaveSubmitted, InFlight, Entered, CheckoutInit

(* A step that moves one call before it opened its page, and leaves pages, *)
(* journal and charges alone.                                              *)
LEMMA EarlySteps ==
  ASSUME CheckoutInv, NEW c \in Calls, at[c] \in {"new", "checking"},
         UNCHANGED <<journalVars, byPage, charged, seam, allowed, up>>,
         NEW place \in {"new", "checking", "refused"}, Goes(c, place), gateInputs' \in Facts,
         NEW named \in [deed: Deeds \cup {None}, page: Pages \cup {None}, facts: Facts],
         call' = [call EXCEPT ![c] = named], place = "checking" => named.page \in Pages,
         paidWith' \in [Calls -> Approval \cup {None}]
  PROVE  CheckoutInv'
<1> USE DEF CheckoutInv, Goes, journalVars
<1>1. at'[c] = place /\ call'[c] = named
      /\ \A d \in Calls : d # c => at'[d] = at[d] /\ call'[d] = call[d]
  BY DEF CheckoutTypeOK
<1>2. CheckoutTypeOK'
  BY DEF CheckoutTypeOK, Places, Entered
<1>3. PagesNamed'
  BY <1>1 DEF PagesNamed, InFlight, Entered
<1>4. OnePurchasePerPage' /\ GatesDecideOnOwnFacts'
  BY <1>1 DEF OnePurchasePerPage, GatesDecideOnOwnFacts, InFlight, Entered
<1>5. ChargedWereSubmitted' /\ OnRecord'
  BY <1>1 DEF ChargedWereSubmitted, OnRecord, MayHaveSubmitted, CheckoutTypeOK
<1>6. QED
  BY <1>2, <1>3, <1>4, <1>5

LEMMA StepEarly ==
  ASSUME StoreInv, CheckoutInv, NEW c \in Calls,
         \/ BeginUnavailable(c) \/ FactsKnown(c)
         \/ \E deed \in Deeds, page \in Pages : BeginIndirect(c, deed, page)
         \/ \E deed \in Deeds, page \in Pages : \E wrote \in BOOLEAN : BeginDirect(c, deed, page, wrote)
  PROVE  CheckoutInv'
<1> DEFINE Call == [deed: Deeds \cup {None}, page: Pages \cup {None}, facts: Facts]
<1>1. call \in [Calls -> Call] /\ call[c] \in Call /\ gateInputs \in Facts
      /\ paidWith \in [Calls -> Approval \cup {None}]
      /\ (call' = call => call' = [call EXCEPT ![c] = call[c]])
      /\ (at[c] = "checking" => call[c].page \in Pages /\ at = [at EXCEPT ![c] = "checking"])
  BY DEF CheckoutInv, CheckoutTypeOK, PagesNamed
<1>2. CASE BeginUnavailable(c)
  <2>1. UNCHANGED <<journalVars, byPage, charged, seam, allowed, up, gateInputs, paidWith, call>>
    BY <1>2 DEF BeginUnavailable, approvalVars
  <2>2. at[c] = "new" /\ Goes(c, "refused")
    BY <1>2 DEF BeginUnavailable
  <2>3. QED
    BY <1>1, <2>1, <2>2, EarlySteps
<1>3. CASE FactsKnown(c)
  <2> DEFINE known == [call[c] EXCEPT !.facts = [@ EXCEPT !.usable = TRUE]]
  <2>1. UNCHANGED <<journalVars, byPage, charged, seam, allowed, up, gateInputs, paidWith>>
    BY <1>3 DEF FactsKnown, approvalVars
  <2>2. at[c] = "checking" /\ at' = at /\ call' = [call EXCEPT ![c] = known]
    BY <1>3 DEF FactsKnown
  <2>3. known \in Call /\ known.page = call[c].page
    BY <1>1 DEF Facts
  <2>4. Goes(c, "checking")
    BY <1>1, <2>2 DEF Goes
  <2>5. QED
    BY <1>1, <2>1, <2>2, <2>3, <2>4, EarlySteps
<1>4. ASSUME NEW deed \in Deeds, NEW page \in Pages, BeginIndirect(c, deed, page)
      PROVE  CheckoutInv'
  <2> DEFINE named == [NoCall EXCEPT !.deed = deed, !.page = page]
  <2>1. UNCHANGED <<journalVars, byPage, charged, seam, allowed, up, gateInputs, paidWith>>
    BY <1>4 DEF BeginIndirect, approvalVars
  <2>2. at[c] = "new" /\ Goes(c, "checking") /\ call' = [call EXCEPT ![c] = named]
    BY <1>4 DEF BeginIndirect
  <2>3. named \in Call /\ named.page \in Pages
    BY DEF NoCall, NoGateInputsYet, Facts
  <2>4. QED
    BY <1>1, <2>1, <2>2, <2>3, EarlySteps
<1>5. ASSUME NEW deed \in Deeds, NEW page \in Pages, NEW wrote \in BOOLEAN,
             BeginDirect(c, deed, page, wrote)
      PROVE  CheckoutInv'
  <2> DEFINE named == [deed |-> deed, page |-> page, facts |-> [direct |-> TRUE, usable |-> FALSE]]
  <2>1. UNCHANGED <<journalVars, byPage, charged, seam, allowed, up, gateInputs>> /\ at[c] = "new"
    BY <1>5 DEF BeginDirect, TakeHit, TakeMiss, TakeUnwritten,
                approvalVars
  <2>2. named \in Call /\ named.page \in Pages
    BY DEF Facts
  <2>0. paidWith' \in [Calls -> Approval \cup {None}]
    <3>1. approvals \in SUBSET Approval
      BY DEF StoreInv, TypeOK
    <3>2. paidWith' = paidWith \/ \E a \in approvals : paidWith' = [paidWith EXCEPT ![c] = a]
      BY <1>5 DEF BeginDirect
    <3>3. QED
      BY <1>1, <3>1, <3>2
  <2>3. \/ Goes(c, "checking") /\ call' = [call EXCEPT ![c] = named]
        \/ Goes(c, "refused") /\ call' = call
    BY <1>5 DEF BeginDirect
  <2>4. CASE Goes(c, "checking") /\ call' = [call EXCEPT ![c] = named]
    BY <1>1, <2>0, <2>1, <2>2, <2>4, EarlySteps
  <2>5. CASE Goes(c, "refused") /\ call' = call
    BY <1>1, <2>0, <2>1, <2>5, EarlySteps
  <2>6. QED
    BY <2>3, <2>4, <2>5
<1>6. QED
  BY <1>2, <1>3, <1>4, <1>5

(* The page was free, so no other call in flight is on it.                 *)
LEMMA StepEnter ==
  ASSUME CheckoutInv, NEW c \in Calls, Enter(c)
  PROVE  CheckoutInv'
<1> USE DEF CheckoutInv, Goes, journalVars, approvalVars
<1>1. /\ at[c] = "checking" /\ UNCHANGED <<call, paidWith, charged, up>>
      /\ records' = records /\ journalFile' = journalFile
      /\ seam' = seam /\ allowed' = allowed /\ gateInputs' = call[c].facts
  BY DEF Enter
<1>2. call[c].facts \in Facts /\ call[c].page \in Pages
  BY <1>1 DEF CheckoutTypeOK, PagesNamed
<1>3. CASE /\ at' = [at EXCEPT ![c] = "refused"] /\ byPage' = byPage
  <2>1. at'[c] = "refused" /\ \A d \in Calls : d # c => at'[d] = at[d]
    BY <1>3 DEF CheckoutTypeOK
  <2>2. CheckoutTypeOK'
    BY <1>1, <1>2, <1>3 DEF CheckoutTypeOK, Places
  <2>3. PagesNamed' /\ OnePurchasePerPage' /\ GatesDecideOnOwnFacts'
    BY <1>1, <1>3, <2>1 DEF PagesNamed, OnePurchasePerPage, GatesDecideOnOwnFacts, InFlight, Entered
  <2>4. ChargedWereSubmitted' /\ OnRecord'
    BY <1>1, <2>1 DEF ChargedWereSubmitted, OnRecord, MayHaveSubmitted, CheckoutTypeOK
  <2>5. QED
    BY <2>2, <2>3, <2>4
<1>4. CASE /\ at' = [at EXCEPT ![c] = "opened"] /\ byPage' = [byPage EXCEPT ![call[c].page] = c]
           /\ byPage[call[c].page] = None
           /\ call[c].facts.direct /\ call[c].facts.usable
  <2>1. at'[c] = "opened" /\ \A d \in Calls : d # c => at'[d] = at[d]
    BY <1>4 DEF CheckoutTypeOK
  <2>2. CheckoutTypeOK'
    BY <1>1, <1>2, <1>4 DEF CheckoutTypeOK, Places, Entered
  <2>3. PagesNamed' /\ GatesDecideOnOwnFacts'
    BY <1>1, <1>2, <1>4, <2>1 DEF PagesNamed, GatesDecideOnOwnFacts, InFlight, Entered
  <2>4. OnePurchasePerPage'
    <3>1. \A d \in Calls : d # c /\ at[d] \in InFlight =>
            call[d].page # call[c].page /\ byPage'[call[d].page] = d
      BY <1>2, <1>4, CheckoutAssumption DEF OnePurchasePerPage, CheckoutTypeOK, PagesNamed
    <3>2. byPage'[call[c].page] = c
      BY <1>2, <1>4 DEF CheckoutTypeOK
    <3>3. QED
      BY <1>1, <2>1, <3>1, <3>2 DEF OnePurchasePerPage
  <2>5. ChargedWereSubmitted' /\ OnRecord'
    BY <1>1, <2>1 DEF ChargedWereSubmitted, OnRecord, MayHaveSubmitted, CheckoutTypeOK
  <2>6. QED
    BY <2>2, <2>3, <2>4, <2>5
<1>5. QED
  BY <1>3, <1>4 DEF Enter, GatesSee, Registry

-----------------------------------------------------------------------------
(* A call in flight that leaves its page free leaves the others' alone.    *)
LEMMA PageFreed ==
  ASSUME CheckoutInv, NEW c \in Calls, at[c] \in InFlight, NEW place \in Places \ InFlight,
         Goes(c, place), call' = call, byPage' = [byPage EXCEPT ![call[c].page] = None]
  PROVE  OnePurchasePerPage'
<1> USE DEF CheckoutInv, OnePurchasePerPage, CheckoutTypeOK, Goes
<1>1. at'[c] = place /\ \A d \in Calls : d # c => at'[d] = at[d]
  OBVIOUS
<1>2. \A d \in Calls : d # c /\ at[d] \in InFlight => call[d].page # call[c].page
  OBVIOUS
<1>3. \A d \in Calls : d # c /\ at[d] \in InFlight => byPage'[call[d].page] = byPage[call[d].page]
  BY <1>2
<1>4. QED
  BY <1>1, <1>3

LEMMA StepAdvance ==
  ASSUME CheckoutInv, NEW c \in Calls, NEW wrote \in BOOLEAN,
         AwaitWindow(c, wrote) \/ SubmitPending(c, wrote)
  PROVE  CheckoutInv'
<1> USE DEF CheckoutInv, approvalVars
<1>1. PICK phase \in {"awaiting-window", "submit-pending"} :
        /\ Journal!Put(c, phase, wrote)
        /\ at[c] = (IF phase = "submit-pending" THEN "windowed" ELSE "opened")
        /\ IF wrote THEN Goes(c, IF phase = "submit-pending" THEN "pending" ELSE "windowed")
                         /\ UNCHANGED byPage
                    ELSE Goes(c, "failed") /\ byPage' = [byPage EXCEPT ![call[c].page] = None]
        /\ UNCHANGED <<approvalVars, call, paidWith, gateInputs, charged, seam, allowed>>
  BY DEF AwaitWindow, SubmitPending, Advance
<1>2. UNCHANGED <<up, call, paidWith, charged, gateInputs>>
      /\ seam' = seam /\ allowed' = allowed /\ c \notin charged
  BY <1>1 DEF ChargedWereSubmitted
<1>3. CASE wrote
  <2> DEFINE place == IF phase = "submit-pending" THEN "pending" ELSE "windowed"
  <2>1. records' = [records EXCEPT ![c] = phase] /\ journalFile' = records' /\ byPage' = byPage
        /\ at' = [at EXCEPT ![c] = place] /\ up
    BY <1>1, <1>3 DEF Journal!Put, Goes, AwaitWindow, SubmitPending, Advance
  <2>2. at'[c] = place /\ records'[c] = phase
        /\ \A d \in Calls : d # c => at'[d] = at[d] /\ records'[d] = records[d]
    BY <2>1 DEF CheckoutTypeOK, Journal!Journal
  <2>3. CheckoutTypeOK'
    BY <1>2, <2>1 DEF CheckoutTypeOK, Places, Entered, Journal!Journal
  <2>4. PagesNamed' /\ OnePurchasePerPage' /\ GatesDecideOnOwnFacts'
    BY <1>1, <1>2, <2>1, <2>2
       DEF PagesNamed, OnePurchasePerPage, GatesDecideOnOwnFacts, InFlight, Entered
  <2>5. ChargedWereSubmitted' /\ OnRecord'
    BY <1>1, <1>2, <2>1, <2>2 DEF ChargedWereSubmitted, OnRecord, MayHaveSubmitted, CheckoutTypeOK
  <2>6. QED
    BY <2>3, <2>4, <2>5
<1>4. CASE ~wrote
  <2>1. records' = records /\ journalFile' = journalFile /\ Goes(c, "failed")
        /\ byPage' = [byPage EXCEPT ![call[c].page] = None]
    BY <1>1, <1>4 DEF Journal!Put
  <2>2. at'[c] = "failed" /\ \A d \in Calls : d # c => at'[d] = at[d]
    BY <2>1 DEF Goes, CheckoutTypeOK
  <2>3. CheckoutTypeOK'
    BY <1>2, <2>1 DEF CheckoutTypeOK, Places, Goes
  <2>4. PagesNamed' /\ GatesDecideOnOwnFacts' /\ ChargedWereSubmitted' /\ OnRecord'
    BY <1>2, <2>1, <2>2
       DEF PagesNamed, GatesDecideOnOwnFacts, InFlight, Entered, ChargedWereSubmitted, OnRecord,
           MayHaveSubmitted, CheckoutTypeOK
  <2>5. OnePurchasePerPage'
    BY <1>1, <1>2, <2>1, PageFreed DEF InFlight, Entered, Places
  <2>6. QED
    BY <2>3, <2>4, <2>5
<1>5. QED
  BY <1>3, <1>4

(* The record was on file before the merchant was asked.                   *)
LEMMA StepSubmit ==
  ASSUME CheckoutInv, NEW c \in Calls, NEW accepted \in BOOLEAN, Submit(c, accepted)
  PROVE  CheckoutInv'
<1> USE DEF CheckoutInv, approvalVars, journalVars
<1>1. /\ at[c] = "pending" /\ at' = [at EXCEPT ![c] = "submitted"]
      /\ charged \subseteq charged' /\ charged' \subseteq charged \cup {c}
      /\ up' = up /\ records' = records /\ journalFile' = journalFile /\ call' = call
      /\ UNCHANGED <<byPage, paidWith, gateInputs, seam, allowed>>
  BY DEF Submit, Goes
<1>2. at'[c] = "submitted" /\ \A d \in Calls : d # c => at'[d] = at[d]
  BY <1>1 DEF CheckoutTypeOK
<1>3. CheckoutTypeOK'
  BY <1>1 DEF CheckoutTypeOK, Places, Entered
<1>4. PagesNamed' /\ OnePurchasePerPage' /\ GatesDecideOnOwnFacts'
  BY <1>1, <1>2 DEF PagesNamed, OnePurchasePerPage, GatesDecideOnOwnFacts, InFlight, Entered
<1>5. ChargedWereSubmitted' /\ OnRecord'
  BY <1>1, <1>2 DEF ChargedWereSubmitted, OnRecord, MayHaveSubmitted, CheckoutTypeOK
<1>6. QED
  BY <1>3, <1>4, <1>5

LEMMA StepReport ==
  ASSUME CheckoutInv, NEW c \in Calls, NEW wrote \in BOOLEAN, Report(c, wrote)
  PROVE  CheckoutInv'
<1> USE DEF CheckoutInv, approvalVars
<1>1. /\ at[c] = "submitted" /\ Goes(c, "reported") /\ up
      /\ records' = [records EXCEPT ![c] = None]
      /\ journalFile' = records' \/ journalFile' = journalFile
      /\ byPage' = [byPage EXCEPT ![call[c].page] = None]
      /\ UNCHANGED <<up, charged, call, paidWith, gateInputs, seam, allowed>>
  BY DEF Report, Journal!Remove
<1>2. at'[c] = "reported"
      /\ \A d \in Calls : d # c => at'[d] = at[d] /\ records'[d] = records[d]
  BY <1>1 DEF CheckoutTypeOK, Goes, Journal!Journal
<1>3. CheckoutTypeOK'
  BY <1>1 DEF CheckoutTypeOK, Goes, Places, Entered, Journal!Journal
<1>4. PagesNamed' /\ GatesDecideOnOwnFacts'
  BY <1>1, <1>2 DEF PagesNamed, GatesDecideOnOwnFacts, InFlight, Entered
<1>5. OnePurchasePerPage'
  BY <1>1, PageFreed DEF InFlight, Entered, Places
<1>6. ChargedWereSubmitted' /\ OnRecord'
  BY <1>1, <1>2 DEF ChargedWereSubmitted, OnRecord, MayHaveSubmitted, CheckoutTypeOK
<1>7. QED
  BY <1>3, <1>4, <1>5, <1>6

(* A crash loses the calls in flight and what was in memory, not the file. *)
LEMMA StepCrash ==
  ASSUME CheckoutInv, Crash
  PROVE  CheckoutInv'
<1> USE DEF CheckoutInv
<1>1. /\ at' = [c \in Calls |-> IF at[c] \in {"checking"} \cup InFlight THEN "lost" ELSE at[c]]
      /\ up' = FALSE /\ records' = Journal!EmptyJournal /\ journalFile' = journalFile
      /\ gateInputs' = NoGateInputsYet /\ byPage' = [p \in Pages |-> None]
      /\ seam' = "unset" /\ UNCHANGED <<call, paidWith, charged, allowed>>
  BY DEF Crash, Die, Journal!Forget
<1>2. \A c \in Calls : /\ at'[c] \in Places \ ({"checking"} \cup InFlight)
                       /\ at'[c] = "reported" <=> at[c] = "reported"
                       /\ at'[c] = at[c] \/ (at[c] \in {"checking"} \cup InFlight /\ at'[c] = "lost")
  BY <1>1 DEF CheckoutTypeOK, Places, InFlight, Entered
<1>3. CheckoutTypeOK'
  <2>1. at' \in [Calls -> Places]
    BY <1>1, <1>2
  <2>2. Journal!EmptyJournal \in Journal!Journal
    BY DEF Journal!EmptyJournal, Journal!Journal
  <2>3. NoGateInputsYet \in Facts
    BY DEF NoGateInputsYet, Facts
  <2>4. QED
    BY <1>1, <2>1, <2>2, <2>3 DEF CheckoutTypeOK
<1>4. PagesNamed' /\ OnePurchasePerPage' /\ GatesDecideOnOwnFacts'
  BY <1>1, <1>2 DEF PagesNamed, OnePurchasePerPage, GatesDecideOnOwnFacts, InFlight, Entered
<1>5. ChargedWereSubmitted'
  BY <1>1, <1>2 DEF ChargedWereSubmitted, CheckoutTypeOK
<1>6. OnRecord'
  BY <1>1, <1>2 DEF OnRecord, MayHaveSubmitted, InFlight, Entered
<1>7. QED
  BY <1>3, <1>4, <1>5, <1>6

(* Starting again, approvals granted or expired, the seam, the gates'      *)
(* other facts: the journal in memory is the file's at most.               *)
LEMMA StepAround ==
  ASSUME CheckoutInv,
         \/ \E deed \in Deeds : \E wrote \in BOOLEAN : Approve(deed, wrote)
         \/ \E wrote \in BOOLEAN : Restart(wrote)
         \/ TimePasses \/ SeamChanges \/ AllowedChanges \/ UNCHANGED vars
  PROVE  CheckoutInv'
<1>1. /\ UNCHANGED <<call, paidWith, at, gateInputs, byPage, charged, journalFile>>
      /\ records' = journalFile \/ (records' = records /\ up' = up)
      /\ seam' \in {"unset", "held", "cleared"} /\ allowed' \in BOOLEAN
  <2>1. ASSUME NEW deed \in Deeds, NEW wrote \in BOOLEAN, Approve(deed, wrote) PROVE <1>1!:
    BY <2>1 DEF Approve, Grant, callVars, journalVars, CheckoutInv, CheckoutTypeOK
  <2>2. ASSUME NEW wrote \in BOOLEAN, Restart(wrote) PROVE <1>1!:
    BY <2>2 DEF Restart, Journal!LoadJournal, Journal!Loaded, callVars, CheckoutInv, CheckoutTypeOK
  <2>3. CASE TimePasses
    BY <2>3 DEF TimePasses, Expire, callVars, journalVars, CheckoutInv, CheckoutTypeOK
  <2>4. CASE SeamChanges
    BY <2>4 DEF SeamChanges, callVars, journalVars, approvalVars, CheckoutInv, CheckoutTypeOK
  <2>5. CASE AllowedChanges
    BY <2>5 DEF AllowedChanges, callVars, journalVars, approvalVars, CheckoutInv, CheckoutTypeOK
  <2>6. CASE UNCHANGED vars
    BY <2>6 DEF vars, callVars, journalVars, approvalVars, CheckoutInv, CheckoutTypeOK
  <2>7. QED
    BY <2>1, <2>2, <2>3, <2>4, <2>5, <2>6
<1>2. CheckoutTypeOK' /\ PagesNamed' /\ OnePurchasePerPage' /\ GatesDecideOnOwnFacts'
      /\ ChargedWereSubmitted' /\ OnRecord'
  BY <1>1 DEF CheckoutInv, CheckoutTypeOK, PagesNamed, OnePurchasePerPage, GatesDecideOnOwnFacts,
              ChargedWereSubmitted, OnRecord, MayHaveSubmitted
<1>3. QED
  BY <1>2 DEF CheckoutInv

-----------------------------------------------------------------------------
(* Every step of the composition is one of the store's or leaves the       *)
(* store alone.                                                            *)
LEMMA StepOfTheStore == [CheckoutNext]_vars => [Next]_approvalVars
<1> SUFFICES ASSUME [CheckoutNext]_vars PROVE Next \/ UNCHANGED approvalVars
  OBVIOUS
<1>1. ASSUME NEW c \in Calls, CallStep(c) PROVE Next \/ UNCHANGED approvalVars
  <2>1. ASSUME NEW deed \in Deeds, NEW page \in Pages, NEW wrote \in BOOLEAN,
               BeginDirect(c, deed, page, wrote)
        PROVE  Next
    BY <2>1, Zenon DEF BeginDirect, Next
  <2>2. ASSUME \A deed \in Deeds, page \in Pages : \A wrote \in BOOLEAN :
                 ~ BeginDirect(c, deed, page, wrote)
        PROVE  UNCHANGED approvalVars
    BY <1>1, <2>2, Zenon
       DEF CallStep, BeginIndirect, BeginUnavailable, FactsKnown, Enter, AwaitWindow,
           SubmitPending, Advance, Report, Submit
  <2>3. QED
    BY <2>1, <2>2
<1>2. ASSUME NEW deed \in Deeds, NEW wrote \in BOOLEAN, Approve(deed, wrote) PROVE Next
  BY <1>2, Zenon DEF Approve, Next
<1>3. TimePasses \/ Crash \/ (\E wrote \in BOOLEAN : Restart(wrote)) => Next
  BY Zenon DEF TimePasses, Crash, Restart, Next
<1>4. SeamChanges \/ AllowedChanges \/ UNCHANGED vars => UNCHANGED approvalVars
  BY Zenon DEF SeamChanges, AllowedChanges, vars, approvalVars
<1>5. QED
  BY <1>1, <1>2, <1>3, <1>4, Zenon DEF CheckoutNext

(* The composition runs the approval store as it is specified on its own.  *)
THEOREM CheckoutRunsTheStore == CheckoutSpec => Spec
<1>1. CheckoutInit => Init
  BY DEF CheckoutInit
<1>2. QED
  BY <1>1, StepOfTheStore, PTL DEF CheckoutSpec, Spec

(* The strengthening holds throughout.                                     *)
THEOREM CheckoutInvariance == CheckoutSpec => []CheckoutInv
<1>1. StoreInv /\ CheckoutInv /\ [CheckoutNext]_vars => CheckoutInv'
  BY StepEarly, StepEnter, StepAdvance, StepSubmit, StepReport, StepCrash, StepAround
     DEF CheckoutNext, CallStep
<1>2. QED
  BY <1>1, InitCheckoutInv, CheckoutRunsTheStore, StoreInvariance, PTL DEF CheckoutSpec

(* However many calls interleave over the one cell, the gates decide each  *)
(* on its own facts (checkout-handlers.ts:305-323).                        *)
THEOREM GatesKeepCallsApart == CheckoutSpec => []GatesDecideOnOwnFacts
BY CheckoutInvariance, PTL DEF CheckoutInv

(* A page runs one purchase at a time, and the registry shared by all      *)
(* calls knows which (checkout-handlers.ts:353-377).                       *)
THEOREM RegistryStaysRight == CheckoutSpec => []RegistryIsRight
<1>1. CheckoutInv => RegistryIsRight
  BY DEF CheckoutInv, RegistryIsRight
<1>2. QED
  BY <1>1, CheckoutInvariance, PTL

(* A purchase that may have been charged and was not reported is in the    *)
(* file a restart reads, whatever was interrupted                          *)
(* (checkout-journal-store.ts:5-14).                                       *)
THEOREM NothingSubmittedUnseen == CheckoutSpec => []NeverSubmittedUnseen
<1>1. CheckoutInv => NeverSubmittedUnseen
  BY DEF CheckoutInv, CheckoutTypeOK, OnRecord, MayHaveSubmitted, NeverSubmittedUnseen
<1>2. QED
  BY <1>1, CheckoutInvariance, PTL

-----------------------------------------------------------------------------
(* A call that is owner-direct spent an approval of what it names, no two  *)
(* the same, and only an owner-direct call is charged.                     *)
PurchaseInv ==
  /\ \A c \in Calls : call[c].facts.direct => paidWith[c] \in spent /\ paidWith[c].deed = call[c].deed
  /\ \A c, d \in Calls : c # d /\ call[c].facts.direct /\ call[d].facts.direct => paidWith[c] # paidWith[d]
  /\ \A c \in charged : call[c].facts.direct

(* A step that spends nothing for a call and claims nothing for one.       *)
LEMMA NothingClaimed ==
  ASSUME charged \subseteq Calls, PurchaseInv, paidWith' = paidWith, spent \subseteq spent',
         \A c \in Calls : call'[c].facts.direct =>
                           call'[c].deed = call[c].deed /\ call[c].facts.direct,
         \A c \in charged' : c \in Calls /\ call'[c].facts.direct
  PROVE  PurchaseInv'
BY DEF PurchaseInv

LEMMA StepPurchaseInv ==
  ASSUME StoreInv, CheckoutInv, CheckoutInv', PurchaseInv, [CheckoutNext]_vars
  PROVE  PurchaseInv'
<1>0. /\ call \in [Calls -> [deed: Deeds \cup {None}, page: Pages \cup {None}, facts: Facts]]
      /\ charged \subseteq Calls /\ paidWith \in [Calls -> Approval \cup {None}]
      /\ \A c \in Calls : at[c] \in {"new", "checking"} => c \notin charged
      /\ \A c \in charged : c \in Calls /\ call[c].facts.direct
  BY DEF CheckoutInv, CheckoutTypeOK, ChargedWereSubmitted, PurchaseInv
<1>1. spent \subseteq spent'
  BY StepOfTheStore
     DEF Next, approvalVars, Grant, TakeHit, TakeUnwritten, TakeMiss, PendingCount, Die, Load, Expire
<1>2. ASSUME NEW c \in Calls, NEW deed \in Deeds, NEW page \in Pages, NEW wrote \in BOOLEAN,
             BeginDirect(c, deed, page, wrote)
      PROVE  PurchaseInv'
  <2>1. at[c] = "new" /\ charged' = charged
    BY <1>2 DEF BeginDirect
  <2>2. CASE UNCHANGED <<call, paidWith>>
    BY <1>0, <1>1, <2>1, <2>2, NothingClaimed
  <2>3. CASE ~ UNCHANGED <<call, paidWith>>
    <3> DEFINE named == [deed |-> deed, page |-> page,
                         facts |-> [direct |-> TRUE, usable |-> FALSE]]
    <3>1. TakeHit(deed) /\ call' = [call EXCEPT ![c] = named]
      BY <1>2, <2>3 DEF BeginDirect
    <3>2. PICK a \in approvals \ approvals' : paidWith' = [paidWith EXCEPT ![c] = a]
      BY <1>2, <2>3 DEF BeginDirect
    <3>3. a.deed = deed /\ a \in spent' /\ a \notin spent
      BY <3>1, <3>2 DEF TakeHit, Matches, Authorizes, StoreInv, SpentForGood
    <3>4. paidWith'[c] = a /\ call'[c] = named
          /\ \A d \in Calls : d # c => paidWith'[d] = paidWith[d] /\ call'[d] = call[d]
      BY <1>0, <3>1, <3>2
    <3>5. QED
      BY <1>0, <1>1, <2>1, <3>3, <3>4 DEF PurchaseInv
  <2>4. QED
    BY <2>2, <2>3
<1>3. ASSUME NEW c \in Calls, NEW deed \in Deeds, NEW page \in Pages, BeginIndirect(c, deed, page)
      PROVE  PurchaseInv'
  <2> DEFINE named == [NoCall EXCEPT !.deed = deed, !.page = page]
  <2>1. at[c] = "new" /\ UNCHANGED <<paidWith, charged>> /\ call' = [call EXCEPT ![c] = named]
    BY <1>3 DEF BeginIndirect
  <2>2. named.facts.direct = FALSE
    BY DEF NoCall, NoGateInputsYet
  <2>3. QED
    BY <1>0, <1>1, <2>1, <2>2, NothingClaimed
<1>4. ASSUME NEW c \in Calls, FactsKnown(c) PROVE PurchaseInv'
  <2>1. UNCHANGED <<paidWith, charged>> /\ call' = [call EXCEPT ![c].facts.usable = TRUE]
    BY <1>4 DEF FactsKnown
  <2>2. \A d \in Calls : call'[d].deed = call[d].deed /\ call'[d].facts.direct = call[d].facts.direct
    BY <1>0, <2>1 DEF Facts
  <2>3. QED
    BY <1>1, <2>1, <2>2 DEF PurchaseInv
<1>5. ASSUME NEW c \in Calls, NEW accepted \in BOOLEAN, Submit(c, accepted) PROVE PurchaseInv'
  <2>1. UNCHANGED <<paidWith, call>> /\ charged' \subseteq charged \cup {c} /\ at[c] = "pending"
    BY <1>5 DEF Submit
  <2>2. call[c].facts.direct
    BY <2>1 DEF CheckoutInv, GatesDecideOnOwnFacts, Entered
  <2>3. QED
    BY <1>1, <2>1, <2>2 DEF PurchaseInv
<1>6. ASSUME UNCHANGED <<call, paidWith, charged>> PROVE PurchaseInv'
  BY <1>1, <1>6 DEF PurchaseInv
<1>7. ASSUME NEW c \in Calls,
             \/ BeginUnavailable(c) \/ Enter(c)
             \/ \E wrote \in BOOLEAN : AwaitWindow(c, wrote) \/ SubmitPending(c, wrote) \/ Report(c, wrote)
      PROVE  PurchaseInv'
  BY <1>6, <1>7, Zenon DEF BeginUnavailable, Enter, AwaitWindow, SubmitPending, Advance, Report
<1>8. ASSUME \/ \E deed \in Deeds : \E wrote \in BOOLEAN : Approve(deed, wrote)
             \/ TimePasses \/ Crash \/ (\E wrote \in BOOLEAN : Restart(wrote))
             \/ SeamChanges \/ AllowedChanges \/ UNCHANGED vars
      PROVE  PurchaseInv'
  BY <1>6, <1>8, Zenon
     DEF Approve, TimePasses, Crash, Restart, SeamChanges, AllowedChanges, vars, callVars
<1>9. QED
  BY <1>2, <1>3, <1>4, <1>5, <1>7, <1>8, Zenon DEF CheckoutNext, CallStep

(* No purchase without an approval of exactly what it names, and none on   *)
(* another's, across crashes and failed writes                             *)
(* (checkout-handlers.ts:551-562).                                         *)
THEOREM PurchasesAreApproved == CheckoutSpec => []EveryPurchaseWasApproved
<1>1. CheckoutInit => PurchaseInv
  BY DEF CheckoutInit, PurchaseInv, NoCall, NoGateInputsYet
<1>2. CheckoutInv /\ PurchaseInv => EveryPurchaseWasApproved
  BY DEF CheckoutInv, CheckoutTypeOK, PurchaseInv, EveryPurchaseWasApproved
<1>3. QED
  BY <1>1, <1>2, StepPurchaseInv, StoreInvariance, CheckoutRunsTheStore, CheckoutInvariance, PTL
     DEF CheckoutSpec
=============================================================================
