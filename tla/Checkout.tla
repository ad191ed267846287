------------------------------ MODULE Checkout ------------------------------
(***************************************************************************)
(* payments.checkout.approve and payments.checkout.begin                   *)
(* (daemon/handlers/payments/checkout-handlers.ts) over the approval store *)
(* and the checkout journal.  A begin call runs synchronously between its  *)
(* awaits, so a step is one such span, and calls interleave at the awaits. *)
(* From the call of beginCheckout on, the steps are the SDK's checkout     *)
(* flow, as far as this repository states its order: the page is opened in *)
(* the service's registry, each phase is journalled, submit-pending before *)
(* the merchant is asked, and the record is removed at the end.            *)
(***************************************************************************)
EXTENDS OwnerApprovals

CONSTANTS
  Calls,  \* begin calls; each is also the id of the purchase it opens
  Pages,  \* browser pages a purchase can run on
  None

ASSUME CheckoutAssumption == None \notin Calls

VARIABLES
  records, journalFile,  \* the journal; the approval store has its own
  seam,        \* the holder of the browser composition's checkout seam
  allowed,     \* payments are enabled here and this node is the leader
  call,        \* what each begin call named, and what it found out
  paidWith,    \* the approval each call spent
  at,          \* where each call is
  gateInputs,  \* the cell the service's gates() reads
  byPage,      \* the service's registry: the purchase open on each page
  charged      \* purchases the merchant took the money for

journalVars == <<records, journalFile>>
callVars == <<call, paidWith, at, gateInputs, byPage, charged>>
vars == <<approvalVars, journalVars, callVars, seam, allowed>>

Journal == INSTANCE CheckoutJournal WITH
             Purchases <- Calls, Phases <- {"awaiting-window", "submit-pending"}

(* A call before its facts are known, past the gates, and when it is over. *)
Entered == {"opened", "windowed", "pending", "submitted", "reported"}
InFlight == Entered \ {"reported"}
Places == {"new", "checking"} \cup Entered \cup {"refused", "failed", "lost"}

Facts == [direct: BOOLEAN, usable: BOOLEAN]
NoGateInputsYet == [direct |-> FALSE, usable |-> FALSE]
NoCall == [deed |-> None, page |-> None, facts |-> NoGateInputsYet]

CheckoutInit ==
  /\ Init
  /\ Journal!JournalInit
  /\ seam = "unset"
  /\ allowed = TRUE
  /\ call = [c \in Calls |-> NoCall]
  /\ paidWith = [c \in Calls |-> None]
  /\ at = [c \in Calls |-> "new"]
  /\ gateInputs = NoGateInputsYet
  /\ byPage = [p \in Pages |-> None]
  /\ charged = {}

Goes(c, place) == at' = [at EXCEPT ![c] = place]

(* payments.checkout.approve, behind the confirmation gate: a human names  *)
(* one purchase.                                                           *)
Approve(deed, wrote) ==
  /\ Grant(deed, wrote)
  /\ UNCHANGED <<journalVars, callVars, seam, allowed>>

(* begin, up to its await: refuse without a browser; an owner-direct call  *)
(* spends the approval of exactly what it names, or is refused.            *)
BeginDirect(c, deed, page, wrote) ==
  /\ at[c] = "new" /\ seam = "held"
  /\ \/ /\ TakeHit(deed)
        /\ \E a \in approvals \ approvals' : paidWith' = [paidWith EXCEPT ![c] = a]
        /\ call' = [call EXCEPT ![c] = [deed |-> deed, page |-> page,
                                        facts |-> [direct |-> TRUE, usable |-> FALSE]]]
        /\ Goes(c, "checking")
     \/ /\ TakeMiss(deed, wrote) \/ TakeUnwritten(deed)
        /\ Goes(c, "refused")
        /\ UNCHANGED <<call, paidWith>>
  /\ UNCHANGED <<journalVars, gateInputs, byPage, charged, seam, allowed>>

(* A call that never claimed to be owner-direct is not asked for one.      *)
BeginIndirect(c, deed, page) ==
  /\ up /\ at[c] = "new" /\ seam = "held"
  /\ call' = [call EXCEPT ![c] = [NoCall EXCEPT !.deed = deed, !.page = page]]
  /\ Goes(c, "checking")
  /\ UNCHANGED <<approvalVars, journalVars, paidWith, gateInputs, byPage, charged, seam, allowed>>

BeginUnavailable(c) ==
  /\ up /\ at[c] = "new" /\ seam # "held"
  /\ Goes(c, "refused")
  /\ UNCHANGED <<approvalVars, journalVars, call, paidWith, gateInputs, byPage, charged, seam, allowed>>

(* The card and the address have been looked up and are both usable; a     *)
(* call that goes on without this step found one that is not.              *)
FactsKnown(c) ==
  /\ up /\ at[c] = "checking"
  /\ ~call[c].facts.usable
  /\ call' = [call EXCEPT ![c].facts.usable = TRUE]
  /\ UNCHANGED <<approvalVars, journalVars, paidWith, at, gateInputs, byPage, charged, seam, allowed>>

(* What gates() reads when this call reaches it, in the same span in which *)
(* the call wrote the cell.                                                *)
GatesSeeBeforeWrite(c) == gateInputs  \* bug: the cell is written after beginCheckout
GatesSee(c) == call[c].facts

(* The registry of the service this call is handed, one for all calls.     *)
FreshRegistry == [p \in Pages |-> None]  \* bug: a service for every call
Registry == byPage

(* begin, from its await to beginCheckout's first: write the cell, pass    *)
(* the gates, open the page; a page that already runs a purchase refuses.  *)
Enter(c) ==
  /\ up /\ at[c] = "checking"
  /\ gateInputs' = call[c].facts
  /\ IF /\ allowed
        /\ GatesSee(c).direct /\ GatesSee(c).usable
        /\ Registry[call[c].page] = None
     THEN /\ byPage' = [byPage EXCEPT ![call[c].page] = c]
          /\ Goes(c, "opened")
     ELSE /\ Goes(c, "refused")
          /\ UNCHANGED byPage
  /\ UNCHANGED <<approvalVars, journalVars, call, paidWith, charged, seam, allowed>>

(* The flow writes a phase to the journal and goes on; a phase that cannot *)
(* be written fails the call before anything was submitted.                *)
Advance(c, from, phase, to, wrote) ==
  /\ up /\ at[c] = from
  /\ Journal!Put(c, phase, wrote)
  /\ IF wrote THEN Goes(c, to) /\ UNCHANGED byPage
              ELSE Goes(c, "failed") /\ byPage' = [byPage EXCEPT ![call[c].page] = None]
  /\ UNCHANGED <<approvalVars, call, paidWith, gateInputs, charged, seam, allowed>>

AwaitWindow(c, wrote) == Advance(c, "opened", "awaiting-window", "windowed", wrote)
SubmitPending(c, wrote) == Advance(c, "windowed", "submit-pending", "pending", wrote)

(* The merchant is asked, and takes the money or declines.                 *)
Submit(c, accepted) ==
  /\ up /\ at[c] = "pending"
  /\ charged' = IF accepted THEN charged \cup {c} ELSE charged
  /\ Goes(c, "submitted")
  /\ UNCHANGED <<approvalVars, journalVars, call, paidWith, gateInputs, byPage, seam, allowed>>

(* The result is reported, the record removed and the page free again.     *)
Report(c, wrote) ==
  /\ up /\ at[c] = "submitted"
  /\ Journal!Remove(c, wrote)
  /\ byPage' = [byPage EXCEPT ![call[c].page] = None]
  /\ Goes(c, "reported")
  /\ UNCHANGED <<approvalVars, call, paidWith, gateInputs, charged, seam, allowed>>

Crash ==
  /\ Die
  /\ Journal!Forget
  /\ at' = [c \in Calls |-> IF at[c] \in {"checking"} \cup InFlight THEN "lost" ELSE at[c]]
  /\ gateInputs' = NoGateInputsYet
  /\ byPage' = [p \in Pages |-> None]
  /\ seam' = "unset"
  /\ UNCHANGED <<call, paidWith, charged, allowed>>

Restart(wrote) ==
  /\ Load(wrote)
  /\ Journal!LoadJournal
  /\ UNCHANGED <<callVars, seam, allowed>>

(* The browser composition fills the holder once in a process, and clears  *)
(* it when the browser is disposed of.                                     *)
SeamChanges ==
  /\ up
  /\ \/ seam = "unset" /\ seam' = "held"
     \/ seam = "held" /\ seam' = "cleared"
  /\ UNCHANGED <<approvalVars, journalVars, callVars, allowed>>

AllowedChanges ==
  /\ allowed' = ~allowed
  /\ UNCHANGED <<approvalVars, journalVars, callVars, seam>>

TimePasses ==
  /\ Expire
  /\ UNCHANGED <<journalVars, callVars, seam, allowed>>

CallStep(c) ==
  \/ \E deed \in Deeds, page \in Pages : BeginIndirect(c, deed, page)
  \/ \E deed \in Deeds, page \in Pages : \E wrote \in BOOLEAN : BeginDirect(c, deed, page, wrote)
  \/ BeginUnavailable(c)
  \/ FactsKnown(c)
  \/ Enter(c)
  \/ \E wrote \in BOOLEAN : AwaitWindow(c, wrote) \/ SubmitPending(c, wrote) \/ Report(c, wrote)
  \/ \E accepted \in BOOLEAN : Submit(c, accepted)

CheckoutNext ==
  \/ \E c \in Calls : CallStep(c)
  \/ \E deed \in Deeds : \E wrote \in BOOLEAN : Approve(deed, wrote)
  \/ TimePasses
  \/ Crash
  \/ \E wrote \in BOOLEAN : Restart(wrote)
  \/ SeamChanges
  \/ AllowedChanges

CheckoutSpec == CheckoutInit /\ [][CheckoutNext]_vars
-----------------------------------------------------------------------------
(* Type invariant of the calls and what they share; the approvals have     *)
(* their own in OwnerApprovals.                                            *)
CheckoutTypeOK ==
  /\ records \in Journal!Journal
  /\ journalFile \in Journal!Journal
  /\ call \in [Calls -> [deed: Deeds \cup {None}, page: Pages \cup {None}, facts: Facts]]
  /\ paidWith \in [Calls -> Approval \cup {None}]
  /\ at \in [Calls -> Places]
  /\ seam \in {"unset", "held", "cleared"} /\ allowed \in BOOLEAN
  /\ gateInputs \in Facts
  /\ byPage \in [Pages -> Calls \cup {None}]
  /\ charged \in SUBSET Calls

(* Every purchase that went through spent an approval of exactly what it   *)
(* names, and no two spent the same one, across crashes and failed writes  *)
(* (checkout-handlers.ts:551-562).                                         *)
EveryPurchaseWasApproved ==
  /\ \A c \in charged :
        /\ paidWith[c] \in spent
        /\ paidWith[c].deed = call[c].deed
  /\ \A c, d \in charged : c # d => paidWith[c] # paidWith[d]

(* The gates decide each call on that call's own facts although the cell   *)
(* they read is shared by all of them (checkout-handlers.ts:305-323).      *)
GatesDecideOnOwnFacts ==
  \A c \in Calls : at[c] \in Entered => call[c].facts.direct /\ call[c].facts.usable

(* A page runs one purchase at a time, and the registry knows which: a     *)
(* fillCard for the page finds it (checkout-handlers.ts:353-377).          *)
OnePurchasePerPage ==
  \A c \in Calls : at[c] \in InFlight => byPage[call[c].page] = c

(* A purchase the merchant may have charged and whose outcome was never    *)
(* reported is in the file a restart reads, marked as possibly submitted   *)
(* (checkout-journal-store.ts:5-14).                                       *)
NeverSubmittedUnseen ==
  \A c \in charged : at[c] # "reported" => journalFile[c] = "submit-pending"

(* The registry and the calls in flight agree, over records of the types   *)
(* they should have (checkout-handlers.ts:353-377).                        *)
RegistryIsRight == CheckoutTypeOK /\ OnePurchasePerPage
=============================================================================
