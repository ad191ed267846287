--------------------------- MODULE PaymentsVerbs ---------------------------
(***************************************************************************)
(* The payments verbs (daemon/handlers/payments/register.ts): a            *)
(* registration lets the SDK attach its handlers once its recovery sweep   *)
(* has run, then puts the daemon's own over five of them, and may be torn  *)
(* down at any point of it.  A second registration may use the catalog.    *)
(*                                                                         *)
(* Behind payments.purchases.list is the purchase ledger                   *)
(* (payments/purchase-ledger.ts), one file read and rewritten whole.       *)
(*                                                                         *)
(* A slot of the catalog is absent, bare (a descriptor with no handler),   *)
(* or names the registration whose handler it holds and which it is.       *)
(***************************************************************************)
EXTENDS Naturals, FiniteSets, Sequences, SequencesExt

CONSTANTS
  Regs,         \* registrations over one catalog
  Days,
  MaxPurchases, \* bound of the model: purchases ever recorded
  PageLimit     \* MAX_PURCHASE_LIST_LIMIT

VARIABLES
  slot,      \* the catalog's slot of each verb
  reg,       \* the registrations
  purchases, \* the rows of the ledger's file; torn, it reads as none
  since,     \* the purchases recorded since the file was last torn
  recorded,  \* purchases ever recorded
  page       \* the last answer of payments.purchases.list

vars == <<slot, reg, purchases, since, recorded, page>>

(* budget.status, cards.list and cards.delete stay the SDK's, the others   *)
(* become the daemon's, and the SDK's catalog has no approve.              *)
SdkOnly == {"sdk"}
Replaced == {"create", "list", "checkout"}
Own == {"approve"}
Verbs == SdkOnly \cup Replaced \cup Own
Absent == [who |-> "nobody", what |-> "absent"]
Bare == [who |-> "nobody", what |-> "bare"]
HandlerOf(r, what) == [who |-> r, what |-> what]
Purchase == [n : 1..MaxPurchases, day : Days]
NoPage == [rows |-> {}, total |-> 0]

Init ==
  /\ slot = [v \in Verbs |-> IF v \in Own THEN Absent ELSE Bare]
  /\ reg = [r \in Regs |-> [sdk |-> "none", local |-> "none", torn |-> FALSE,
                            found |-> {}, lone |-> TRUE]]
  /\ purchases = <<>>
  /\ since = <<>>
  /\ recorded = 0
  /\ page = NoPage

-----------------------------------------------------------------------------
(* registerPaymentsMethods, up to its return: the descriptors that are     *)
(* there are kept for the teardown.  `lone' is the model's note of whether *)
(* another registration was made while this one was.                       *)
InUse(r) == reg[r].sdk # "none" /\ ~(reg[r].torn /\ reg[r].local # "waiting")
Register(r) ==
  /\ reg[r].sdk = "none"
  /\ LET others == {o \in Regs : InUse(o)}
     IN reg' = [o \in Regs |->
          IF o = r THEN [sdk |-> "sweeping", local |-> "waiting", torn |-> FALSE,
                         found |-> {v \in Verbs : slot[v] # Absent}, lone |-> others = {}]
          ELSE [reg[o] EXCEPT !.lone = @ /\ o \notin others]]
  /\ UNCHANGED <<slot, purchases, since, recorded, page>>

(* registerPaymentsGatewayMethods, in the SDK, after its sweep.            *)
SdkAttaches(r) ==
  /\ reg[r].sdk = "sweeping"
  /\ reg' = [reg EXCEPT ![r].sdk = "attached"]
  /\ slot' = [v \in Verbs |-> IF v \in Own THEN slot[v] ELSE HandlerOf(r, "sdk")]
  /\ UNCHANGED <<purchases, since, recorded, page>>

(* `ready' rejects; the composition logs it and goes on.                   *)
SdkAttachFails(r) ==
  /\ reg[r].sdk = "sweeping"
  /\ reg' = [reg EXCEPT ![r].sdk = "failed", ![r].local = "rejected"]
  /\ UNCHANGED <<slot, purchases, since, recorded, page>>

Restored(table, r) == [v \in Verbs |-> IF v \in reg[r].found THEN Bare ELSE table[v]]

Chained(r) == reg[r].sdk = "attached"
NeverTorn(r) == FALSE  \* bug: the flag is not looked at
Torn(r) == reg[r].torn

(* The continuation: torn down meanwhile, it takes the SDK's handlers off  *)
(* again; otherwise the approve descriptor and the five handlers go on.    *)
AttachLocal(r) ==
  /\ reg[r].local = "waiting" /\ Chained(r)
  /\ IF Torn(r)
     THEN slot' = Restored(slot, r) /\ reg' = [reg EXCEPT ![r].local = "skipped"]
     ELSE /\ slot' = [v \in Verbs |-> IF v \in SdkOnly THEN slot[v] ELSE HandlerOf(r, "local")]
          /\ reg' = [reg EXCEPT ![r].local = "attached"]
  /\ UNCHANGED <<purchases, since, recorded, page>>

(* unregister: the local handlers' teardown takes their descriptors with   *)
(* them, whoever's they are by now, and the kept ones are put back.        *)
Unregister(r) ==
  /\ reg[r].sdk # "none" /\ ~reg[r].torn
  /\ reg' = [reg EXCEPT ![r].torn = TRUE]
  /\ LET removed == IF reg[r].local = "attached"
                    THEN [v \in Verbs |-> IF v \in SdkOnly THEN slot[v] ELSE Absent]
                    ELSE slot
     IN slot' = Restored(removed, r)
  /\ UNCHANGED <<purchases, since, recorded, page>>

-----------------------------------------------------------------------------
(* DaemonPurchaseLedger.record, whose write replaces the file; a failed    *)
(* write changes nothing.                                                  *)
Appended(rows, row) == Append(rows, row)
Record(day) ==
  /\ recorded < MaxPurchases
  /\ recorded' = recorded + 1
  /\ LET row == [n |-> recorded + 1, day |-> day]
     IN /\ purchases' = Appended(purchases, row)
        /\ since' = Append(since, row)
  /\ UNCHANGED <<slot, reg, page>>

(* The file is torn: it reads as empty, and the next record writes it so.  *)
Tear ==
  /\ purchases # <<>>
  /\ purchases' = <<>>
  /\ since' = <<>>
  /\ UNCHANGED <<slot, reg, recorded, page>>

(* payments.purchases.list through the daemon's handler: the newest, at    *)
(* most the limit, of one day or of all; the total counts all of those.    *)
List(days, limit) ==
  /\ slot["list"].what = "local"
  /\ LET matching == {row \in ToSet(purchases) : row.day \in days}
         newer(row) == {other \in matching : other.n > row.n}
     IN page' = [rows |-> {row \in matching : Cardinality(newer(row)) < limit},
                 total |-> Cardinality(matching)]
  /\ UNCHANGED <<slot, reg, purchases, since, recorded>>

Settles(r) == SdkAttaches(r) \/ SdkAttachFails(r) \/ AttachLocal(r)

Next ==
  \/ \E r \in Regs : Register(r) \/ Settles(r) \/ Unregister(r)
  \/ \E day \in Days : Record(day)
  \/ \E days \in {Days} \cup {{day} : day \in Days}, limit \in 1..PageLimit : List(days, limit)
  \/ Tear

Spec == Init /\ [][Next]_vars
-----------------------------------------------------------------------------
(* Type invariant.                                                         *)
TypeOK ==
  /\ slot \in [Verbs -> [who : Regs \cup {"nobody"}, what : {"absent", "bare", "sdk", "local"}]]
  /\ reg \in [Regs -> [sdk : {"none", "sweeping", "attached", "failed"},
                       local : {"none", "waiting", "attached", "skipped", "rejected"},
                       torn : BOOLEAN, found : SUBSET Verbs, lone : BOOLEAN]]
  /\ purchases \in Seq(Purchase) /\ since \in Seq(Purchase)
  /\ recorded \in 0..MaxPurchases
  /\ page.rows \subseteq Purchase

(* Once every registration is torn down and has settled no handler of one  *)
(* is left on the catalog, wherever the teardown met the deferred attach   *)
(* (register.ts:574-604).                                                  *)
NothingServedAfterTeardown ==
  (\A r \in Regs : reg[r].sdk # "none" => reg[r].torn /\ reg[r].local # "waiting") =>
     \A v \in Verbs : slot[v].who = "nobody"

(* A registration that became ready, with no other over its catalog,       *)
(* serves every verb itself, the replaced ones by the daemon's handlers:   *)
(* the SDK's never land on top of them (register.ts:452-456).              *)
ReadyServesItsOwn ==
  \A r \in Regs :
     reg[r].lone /\ reg[r].local = "attached" /\ ~reg[r].torn =>
       \A v \in Verbs : slot[v] = HandlerOf(r, IF v \in SdkOnly THEN "sdk" ELSE "local")

(* Every purchase recorded since the file was last torn is in it, in its   *)
(* order, so a listing with room for it shows it                           *)
(* (purchase-ledger.ts:83-91).                                             *)
RecordedSinceTheTear ==
  Len(since) <= Len(purchases)
  /\ SubSeq(purchases, Len(purchases) - Len(since) + 1, Len(purchases)) = since
VerbsStayTrue == NothingServedAfterTeardown /\ ReadyServesItsOwn /\ RecordedSinceTheTear
=============================================================================
