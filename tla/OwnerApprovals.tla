--------------------------- MODULE OwnerApprovals ---------------------------
(***************************************************************************)
(* The owner approvals a checkout spends                                   *)
(* (daemon/handlers/payments/approval-store.ts): a bounded list in memory, *)
(* mirrored to a file by every grant and every take.  Both are synchronous *)
(* calls, so each is one step; any write may fail and the process may die  *)
(* between two calls.                                                      *)
(*                                                                         *)
(* An approval is the purchase it names (its deed: merchant, item and      *)
(* amount, which is what the fingerprint compares) and the number of its   *)
(* grant, which tells two approvals of one purchase apart.  Grants are     *)
(* pushed, the rest only drops entries or puts one back where it was, and  *)
(* the file is read as it was written: a list is in grant order always,    *)
(* and is modelled as the set of its approvals, ordered by that number.    *)
(***************************************************************************)
EXTENDS Naturals, FiniteSets

CONSTANTS
  Deeds,       \* purchases an owner may approve
  MaxPending,  \* MAX_PENDING_APPROVALS
  MaxGrants    \* bound of the model: how many approvals are ever granted

ASSUME ApprovalsAssumption == MaxPending \in Nat \ {0} /\ MaxGrants \in Nat

VARIABLES
  up,         \* a daemon process holds the store
  approvals,  \* the list in memory
  disk,       \* the list in the file
  granted,    \* how many approvals were granted so far
  expired,    \* approvals past their five minutes
  spent       \* approvals take handed out to a checkout

approvalVars == <<up, approvals, disk, granted, expired, spent>>

Approval == [deed: Deeds, grant: 1..MaxGrants]

Unexpired(list) == list \ expired

(* The oldest approval makes room for a new one when the list is full.     *)
Full(list) == Cardinality(list) >= MaxPending
Oldest(list) == CHOOSE a \in list : \A b \in list : a.grant <= b.grant
MakeRoomAtTheEnd(list) ==  \* bug: pop for shift
  IF Full(list) THEN list \ {CHOOSE a \in list : \A b \in list : a.grant >= b.grant} ELSE list
MakeRoom(list) == IF Full(list) THEN list \ {Oldest(list)} ELSE list

(* checkOwnerApproval: the same deed, and still in time.                   *)
Authorizes(a, deed) == a.deed = deed /\ a \notin expired
Matches(deed) == {a \in approvals : Authorizes(a, deed)}

Init ==
  /\ up = TRUE
  /\ approvals = {}
  /\ disk = {}
  /\ granted = 0
  /\ expired = {}
  /\ spent = {}

(* What a grant whose write failed leaves: the new approval is popped and  *)
(* the evicted one is unshifted back.                                      *)
RolledBackEvicted(list) == MakeRoom(list)  \* bug: the evicted one stays out
RolledBack(list) == list

(* grant: sweep, make room, append, write.  A grant that could not be      *)
(* written is taken back and the evicted approval returned to its place;   *)
(* the owner is told nothing was approved.                                 *)
Grant(deed, wrote) ==
  /\ up
  /\ granted < MaxGrants
  /\ LET kept == Unexpired(approvals)
     IN IF wrote
        THEN /\ approvals' = MakeRoom(kept) \cup {[deed |-> deed, grant |-> granted + 1]}
             /\ disk' = approvals'
             /\ granted' = granted + 1
        ELSE /\ approvals' = RolledBack(kept)
             /\ UNCHANGED <<disk, granted>>
  /\ UNCHANGED <<up, expired, spent>>

(* What the file holds once take returns.                                  *)
FileAfterTakeUnwritten == disk  \* bug: the removal is not persisted
FileAfterTake == approvals'

(* take: the first approval that authorizes the deed leaves the list, and  *)
(* the file, before the caller has it.                                     *)
TakeHit(deed) ==
  /\ up
  /\ \E a \in Matches(deed) :
        /\ \A b \in Matches(deed) : a.grant <= b.grant
        /\ approvals' = approvals \ {a}
        /\ spent' = spent \cup {a}
  /\ disk' = FileAfterTake
  /\ UNCHANGED <<up, granted, expired>>

(* take, when the removal could not be written: it is put back where it    *)
(* was and the caller gets an error instead of an approval.                *)
TakeUnwritten(deed) ==
  /\ up
  /\ Matches(deed) # {}
  /\ UNCHANGED approvalVars

(* take, when nothing authorizes the deed: the expired are swept out, and  *)
(* the file follows when that dropped any and the write lands.             *)
TakeMiss(deed, wrote) ==
  /\ up
  /\ Matches(deed) = {}
  /\ approvals' = Unexpired(approvals)
  /\ disk' = IF approvals' # approvals /\ wrote THEN approvals' ELSE disk
  /\ UNCHANGED <<up, granted, expired, spent>>

(* pendingCount sweeps memory only.                                        *)
PendingCount ==
  /\ up
  /\ approvals' = Unexpired(approvals)
  /\ UNCHANGED <<up, disk, granted, expired, spent>>

Die ==
  /\ up
  /\ up' = FALSE
  /\ approvals' = {}
  /\ UNCHANGED <<disk, granted, expired, spent>>

(* The constructor: load, sweep, and write when the sweep dropped any; it  *)
(* throws when that write fails, and the process is not up.                *)
Load(wrote) ==
  /\ ~up
  /\ approvals' = Unexpired(disk)
  /\ approvals' = disk \/ wrote
  /\ disk' = approvals'
  /\ up' = TRUE
  /\ UNCHANGED <<granted, expired, spent>>

(* Five minutes pass for the oldest approvals first: every approval has    *)
(* the same time to live, so they expire in grant order.                   *)
Expire ==
  \E n \in 1..granted :
     /\ expired' = expired \cup {a \in Approval : a.grant <= n}
     /\ expired' # expired
     /\ UNCHANGED <<up, approvals, disk, granted, spent>>

Next ==
  \/ \E deed \in Deeds : \E wrote \in BOOLEAN : Grant(deed, wrote) \/ TakeMiss(deed, wrote)
  \/ \E deed \in Deeds : TakeHit(deed) \/ TakeUnwritten(deed)
  \/ PendingCount
  \/ Die
  \/ \E wrote \in BOOLEAN : Load(wrote)
  \/ Expire

Spec == Init /\ [][Next]_approvalVars
-----------------------------------------------------------------------------
(* Type invariant: neither list outgrows the bound on pending approvals.   *)
TypeOK ==
  /\ up \in BOOLEAN
  /\ approvals \in SUBSET Approval /\ Cardinality(approvals) <= MaxPending
  /\ disk \in SUBSET Approval /\ Cardinality(disk) <= MaxPending
  /\ granted \in 0..MaxGrants
  /\ expired \in SUBSET Approval
  /\ spent \in SUBSET Approval

(* An approval is spent once: what take handed out is neither in memory    *)
(* nor in the file a restart would load (approval-store.ts:191-197).       *)
SpentForGood == spent \cap (approvals \cup disk) = {}

(* A restart changes nothing the owner authorized: the approvals that can  *)
(* still be spent are the same in memory and in the file, whatever writes  *)
(* failed (approval-store.ts:147-156).                                     *)
RestartChangesNothing == up => Unexpired(approvals) = Unexpired(disk)

(* An approval leaves the file only by being spent, by expiring, or for a  *)
(* newer grant when the list is full, and then it is the one that would    *)
(* have expired first (approval-store.ts:58-64).                           *)
LeavesOnlyForCause ==
  [][\A a \in disk \ disk' :
        \/ a \in spent'
        \/ a \in expired
        \/ /\ granted' > granted
           /\ Cardinality(Unexpired(disk)) = MaxPending
           /\ a = Oldest(Unexpired(disk))]_approvalVars

(* Every approval is accounted for: spent once, and gone from the file     *)
(* only for a cause (approval-store.ts).                                   *)
Accounted == [](TypeOK /\ SpentForGood) /\ LeavesOnlyForCause
=============================================================================
