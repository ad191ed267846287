--------------------------- MODULE DurableBudget ---------------------------
(***************************************************************************)
(* The daily spending pool of the payments handlers                        *)
(* (daemon/handlers/payments/budget-store.ts): the SDK's BudgetLedger held *)
(* in memory, and the JSON file DurableBudgetLedger writes after each      *)
(* mutation.  Any write may fail and the process may die between any two   *)
(* calls; a call is synchronous code and therefore one step.               *)
(*                                                                         *)
(* Abstractions: every purchase costs one unit, so the pool total is a     *)
(* cardinality and Limit counts purchases; the model follows one day's     *)
(* pool; a reservation's TTL and a record's retention are the sets lapsed  *)
(* and aged, which the clock only adds to (both are absolute timestamps,   *)
(* so they mean the same in memory, on disk and after a restart).          *)
(***************************************************************************)
EXTENDS Naturals, FiniteSets

CONSTANTS
  Purchases,   \* purchase ids, each used by one checkout only
  Limit        \* how many purchases the day's pool has room for

ASSUME BudgetAssumption == /\ IsFiniteSet(Purchases)
                           /\ Limit \in Nat

VARIABLES
  running,         \* a daemon process holds the ledger
  memory,          \* the ledger: spend records and live reservations
  file,            \* what the JSON file holds
  persistPending,  \* a commit's write failed and has not been retried yet
  flow,            \* how far each purchase's checkout has come
  lapsed,          \* purchases whose reservation is past its TTL
  aged,            \* purchases whose spend record is past its retention
  damaged          \* the file was damaged on disk at some point

vars == <<running, memory, file, persistPending, flow, lapsed, aged, damaged>>
clock == <<lapsed, aged>>

Ledger == [spend: SUBSET Purchases, reservations: SUBSET Purchases]
EmptyLedger == [spend |-> {}, reservations |-> {}]

(* "charged": the merchant took the money, the commit has not been made.   *)
(* "orphaned": the process died in that state.                             *)
FlowState == {"new", "reserved", "charged", "settled", "orphaned", "over"}

(* What a ledger holds against the limit, and its unexpired part.          *)
Counted(ledger) == ledger.spend \cup ledger.reservations
Pool(ledger) == Counted(ledger) \ aged

Charged == {p \in Purchases : flow[p] \in {"charged", "settled", "orphaned"}}

(* BudgetLedger.reserve grants only what still fits the day's pool.        *)
FitsBesideSpend == Cardinality(memory.spend \ aged) < Limit  \* bug: holds not counted
Fits == Cardinality(Pool(memory)) < Limit

(* retryPendingPersist: a missed write is tried again, silently, before    *)
(* the call's own work.  retried says that there was one and it landed.    *)
RetryPendingPersist(retried) == retried => persistPending
FileAfterRetry(retried) == IF retried THEN memory ELSE file
PendingAfterRetry(retried) == persistPending /\ ~retried

(* writeToDisk: all of memory reaches the file, or none of it does.        *)
WriteToDisk(wrote, retried) ==
  /\ file' = IF wrote THEN memory' ELSE FileAfterRetry(retried)
  /\ persistPending' = (PendingAfterRetry(retried) /\ ~wrote)

Init ==
  /\ running = TRUE
  /\ memory = EmptyLedger
  /\ file = EmptyLedger
  /\ persistPending = FALSE
  /\ flow = [p \in Purchases |-> "new"]
  /\ lapsed = {}
  /\ aged = {}
  /\ damaged = FALSE

(* What a reservation whose write failed leaves in memory: nothing.        *)
KeptAfterFailedReserve(p) ==  \* bug: no rollback
  IF Fits THEN [memory EXCEPT !.reservations = @ \cup {p}] ELSE memory
AfterFailedReserve(p) == memory

(* reserve: the hold is granted and written; a hold that could not be      *)
(* written is taken back before the caller sees the error.                 *)
Reserve(p, retried, wrote) ==
  /\ running
  /\ flow[p] = "new"
  /\ RetryPendingPersist(retried)
  /\ IF Fits /\ wrote
     THEN /\ memory' = [memory EXCEPT !.reservations = @ \cup {p}]
          /\ flow' = [flow EXCEPT ![p] = "reserved"]
     ELSE /\ memory' = AfterFailedReserve(p)
          /\ flow' = [flow EXCEPT ![p] = "over"]
  /\ WriteToDisk(Fits /\ wrote, retried)
  /\ UNCHANGED <<running, clock, damaged>>

(* The checkout flow submits the order and the merchant charges the card.  *)
Charge(p) ==
  /\ running
  /\ flow[p] = "reserved"
  /\ flow' = [flow EXCEPT ![p] = "charged"]
  /\ UNCHANGED <<running, memory, file, persistPending, clock, damaged>>

(* commit: never throws.  A failed write leaves the record in memory and   *)
(* the write pending.  A reservation swept in the meantime commits nothing. *)
Commit(p, retried, wrote) ==
  /\ running
  /\ flow[p] = "charged"
  /\ RetryPendingPersist(retried)
  /\ flow' = [flow EXCEPT ![p] = "settled"]
  /\ IF p \in memory.reservations
     THEN /\ memory' = [spend |-> memory.spend \cup {p},
                        reservations |-> memory.reservations \ {p}]
          /\ file' = IF wrote THEN memory' ELSE FileAfterRetry(retried)
          /\ persistPending' = ~wrote
     ELSE /\ memory' = memory
          /\ WriteToDisk(FALSE, retried)
  /\ UNCHANGED <<running, clock, damaged>>

(* release: memory forgets the hold whether or not the write lands (a      *)
(* failed write throws to the caller and is not marked as pending).        *)
Release(p, retried, wrote) ==
  /\ running
  /\ flow[p] = "reserved"
  /\ RetryPendingPersist(retried)
  /\ flow' = [flow EXCEPT ![p] = "over"]
  /\ memory' = [memory EXCEPT !.reservations = @ \ {p}]
  /\ WriteToDisk(p \in memory.reservations /\ wrote, retried)
  /\ UNCHANGED <<running, clock, damaged>>

(* The reservations a sweep keeps.                                         *)
LiveInverted == memory.reservations \cap lapsed  \* bug: the comparison is inverted
Live == memory.reservations \ lapsed

(* sweep: drops every reservation past its TTL, whoever it belongs to.     *)
Sweep(retried, wrote) ==
  /\ running
  /\ RetryPendingPersist(retried)
  /\ memory' = [memory EXCEPT !.reservations = Live]
  /\ WriteToDisk(Live # memory.reservations /\ wrote, retried)
  /\ UNCHANGED <<running, flow, clock, damaged>>

(* The process dies: memory goes, and with it every checkout in progress.  *)
Crash ==
  /\ running
  /\ running' = FALSE
  /\ memory' = EmptyLedger
  /\ persistPending' = FALSE
  /\ flow' = [p \in Purchases |-> CASE flow[p] = "reserved" -> "over"
                                    [] flow[p] = "charged" -> "orphaned"
                                    [] OTHER -> flow[p]]
  /\ UNCHANGED <<file, clock, damaged>>

(* The constructor: load the file, then prune the records past retention,  *)
(* writing only when that dropped something.  A failed write throws out of *)
(* the constructor, and there is no daemon.                                *)
Start(wrote) ==
  /\ ~running
  /\ memory' = [file EXCEPT !.spend = @ \ aged]
  /\ memory' = file \/ wrote
  /\ file' = memory'
  /\ running' = TRUE
  /\ UNCHANGED <<persistPending, flow, clock, damaged>>

(* A file damaged on disk is read as what is left of it: the entries that  *)
(* still have the expected shape, or nothing (loadInitialState).  The file *)
(* is only read at a start, so the damage is taken while nothing runs.     *)
DamageFile(left) ==
  /\ ~running
  /\ left.spend \subseteq file.spend
  /\ left.reservations \subseteq file.reservations
  /\ left # file
  /\ file' = left
  /\ damaged' = TRUE
  /\ UNCHANGED <<running, memory, persistPending, flow, clock>>

(* The clock passes a reservation's expiry.                                *)
Lapse(p) ==
  /\ flow[p] # "new" /\ p \notin lapsed
  /\ lapsed' = lapsed \cup {p}
  /\ UNCHANGED <<running, memory, file, persistPending, flow, aged, damaged>>

(* The clock passes the two days a settled record is kept for; its own     *)
(* reservation's four hours are long over by then.                         *)
Age(p) ==
  /\ p \in lapsed \ aged
  /\ flow[p] \in {"settled", "orphaned", "over"}
  /\ aged' = aged \cup {p}
  /\ UNCHANGED <<running, memory, file, persistPending, flow, lapsed, damaged>>

Call(p, retried, wrote) ==
  \/ Reserve(p, retried, wrote)
  \/ Commit(p, retried, wrote)
  \/ Release(p, retried, wrote)

Next ==
  \/ \E p \in Purchases : \E retried, wrote \in BOOLEAN : Call(p, retried, wrote)
  \/ \E retried, wrote \in BOOLEAN : Sweep(retried, wrote)
  \/ \E p \in Purchases : Charge(p) \/ Lapse(p) \/ Age(p)
  \/ Crash
  \/ \E wrote \in BOOLEAN : Start(wrote)
  \/ \E left \in Ledger : DamageFile(left)

Spec == Init /\ [][Next]_vars
-----------------------------------------------------------------------------
(* Type invariant of the ledger, its file and the checkouts.               *)
TypeOK ==
  /\ running \in BOOLEAN
  /\ memory \in Ledger
  /\ file \in Ledger
  /\ persistPending \in BOOLEAN
  /\ flow \in [Purchases -> FlowState]
  /\ lapsed \in SUBSET Purchases
  /\ aged \in SUBSET Purchases
  /\ damaged \in BOOLEAN

(* A purchase the merchant charged keeps counting against the day's limit, *)
(* in memory and in the file a restart would load, through any failed      *)
(* write and any crash, until its reservation's own TTL or the record's    *)
(* retention is over (budget-store.ts:47-58 and the warning at 335-341).   *)
ChargeStaysCounted ==
  \A p \in Charged \ (lapsed \cup aged) :
    \/ damaged
    \/ /\ p \in Counted(file)
       /\ running => p \in Counted(memory)

(* A committed spend is missing from the file only while the missed write  *)
(* is marked to be retried, and then the file still holds its reservation  *)
(* (budget-store.ts:330-345).                                              *)
MissedCommitIsPending ==
  running => \A p \in memory.spend \ file.spend :
                 persistPending /\ p \in file.reservations

(* No hold exists in memory alone: a reserve that could not be written is  *)
(* rolled back, and every later failure only leaves the file holding more  *)
(* (budget-store.ts:262-276).                                              *)
NoHoldOnlyInMemory == running => memory.reservations \subseteq file.reservations

(* Neither the ledger nor what a restart would bring back ever holds more  *)
(* than the day's limit, whatever releases and sweeps failed to reach the  *)
(* file in between.                                                        *)
WithinLimit ==
  /\ Cardinality(Pool(memory)) <= Limit
  /\ Cardinality(Pool(file)) <= Limit

-----------------------------------------------------------------------------
(* What the pool holds as its callers and a restart see it: the ledger of  *)
(* the running process, or the file the next one will load.                *)
counted == IF running THEN Pool(memory) ELSE Pool(file)

Promise == INSTANCE BudgetPromise WITH charged <- Charged, expired <- lapsed

(* Up to damage done to the file from outside, the ledger, its file and    *)
(* its failures implement the pool of BudgetPromise.                       *)
KeepsPromise == Promise!Init /\ [][damaged' \/ Promise!Next]_<<counted, Charged, lapsed>>

(* The ledger keeps its types, knows every write it missed and holds       *)
(* nothing that is not on file (budget-store.ts).                          *)
LedgerIsSound == TypeOK /\ MissedCommitIsPending /\ NoHoldOnlyInMemory
=============================================================================
