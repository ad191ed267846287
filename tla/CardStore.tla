----------------------------- MODULE CardStore -----------------------------
(***************************************************************************)
(* The payment cards (daemon/handlers/payments/card-store.ts): a metadata  *)
(* row per card in one JSON file, rewritten whole by synchronous code, and *)
(* the card's material in the secret tier, one key per field, set and      *)
(* deleted by asynchronous calls.  create and remove await each field, so  *)
(* calls interleave there; any secret call or file write may fail, and the *)
(* process may die at any await.  Card ids are random and never reused.    *)
(*                                                                         *)
(* The order in which a call goes through the fields is left open.         *)
(***************************************************************************)
CONSTANTS
  Cards,
  Fields,    \* CARD_MATERIAL_FIELDS
  Cvv,       \* the field payments.cvvHandling may keep out of the store
  Removals,  \* calls of remove
  None

ASSUME CardsAssumption == Cvv \in Fields /\ None \notin Cards

VARIABLES
  rows,      \* the cards that have a row in the metadata file
  damaged,   \* the file exists and does not parse
  secrets,   \* fields of each card in the secret tier
  creating,  \* where the create of each card is
  wanted,    \* fields each create set out to store
  written,   \* fields each create stored, and has not cleared again
  removing,  \* where each remove is
  target,    \* the card it is about
  listed,    \* the rows it found
  todo,      \* fields it has still to clear
  tangled    \* cards of calls that ran while a remove did

createVars == <<creating, wanted, written>>
removeVars == <<removing, target, listed, todo>>
vars == <<rows, damaged, secrets, createVars, removeVars, tangled>>

CreateAt == {"new", "putting", "unwinding", "created", "refused", "failed", "lost"}
RemoveAt == {"new", "clearing", "removed", "refused", "failed", "lost"}

Creating == {c \in Cards : creating[c] \in {"putting", "unwinding"}}
Removing == {r \in Removals : removing[r] = "clearing"}

Init ==
  /\ rows = {}
  /\ damaged = FALSE
  /\ secrets = [c \in Cards |-> {}]
  /\ creating = [c \in Cards |-> "new"]
  /\ wanted = [c \in Cards |-> {}]
  /\ written = [c \in Cards |-> {}]
  /\ removing = [r \in Removals |-> "new"]
  /\ target = [r \in Removals |-> None]
  /\ listed = [r \in Removals |-> {}]
  /\ todo = [r \in Removals |-> {}]
  /\ tangled = {}

-----------------------------------------------------------------------------
(* readOrRaise: a damaged file is refused, a missing one has no cards.     *)
DamagedReadsAsEmpty(result) == result = IF damaged THEN {} ELSE rows  \* bug: torn is empty
ReadOrRaise(result) == ~damaged /\ result = rows

(* The fields a create is going to store: without the CVV when the owner   *)
(* said it must not be kept.                                               *)
ToStore == {Fields, Fields \ {Cvv}}

(* create, up to its first await: the row goes first.                      *)
Create(c) ==
  /\ creating[c] = "new"
  /\ \E existing \in SUBSET Cards, fields \in ToStore :
        /\ ReadOrRaise(existing)
        /\ rows' = existing \cup {c}
        /\ damaged' = FALSE
        /\ wanted' = [wanted EXCEPT ![c] = fields]
  /\ creating' = [creating EXCEPT ![c] = "putting"]
  /\ tangled' = IF Removing = {} THEN tangled ELSE tangled \cup {c}
  /\ UNCHANGED <<secrets, written, removeVars>>

CreateRefused(c) ==
  /\ creating[c] = "new"
  /\ creating' = [creating EXCEPT ![c] = "refused"]
  /\ UNCHANGED <<rows, damaged, secrets, wanted, written, removeVars, tangled>>

PutField(c, field) ==
  /\ creating[c] = "putting"
  /\ field \in wanted[c] \ written[c]
  /\ secrets' = [secrets EXCEPT ![c] = @ \cup {field}]
  /\ written' = [written EXCEPT ![c] = @ \cup {field}]
  /\ creating' = [creating EXCEPT ![c] = IF written'[c] = wanted[c] THEN "created" ELSE @]
  /\ UNCHANGED <<rows, damaged, wanted, removeVars, tangled>>

PutFails(c) ==
  /\ creating[c] = "putting"
  /\ creating' = [creating EXCEPT ![c] = "unwinding"]
  /\ UNCHANGED <<rows, damaged, secrets, wanted, written, removeVars, tangled>>

(* clearFields: a delete that fails is passed over.                        *)
ClearField(c, field, cleared) ==
  /\ creating[c] = "unwinding"
  /\ field \in written[c]
  /\ written' = [written EXCEPT ![c] = @ \ {field}]
  /\ secrets' = IF cleared THEN [secrets EXCEPT ![c] = @ \ {field}] ELSE secrets
  /\ UNCHANGED <<rows, damaged, creating, wanted, removeVars, tangled>>

(* dropRow, once the fields are through, best effort, and the create       *)
(* reports its failure.                                                    *)
DropRow(c, wrote) ==
  /\ creating[c] = "unwinding"
  /\ written[c] = {}
  /\ rows' = IF damaged \/ ~wrote THEN rows ELSE rows \ {c}
  /\ creating' = [creating EXCEPT ![c] = "failed"]
  /\ UNCHANGED <<damaged, secrets, wanted, written, removeVars, tangled>>

-----------------------------------------------------------------------------
(* remove, up to its first await: the rows it will leave are decided here. *)
Remove(r, c) ==
  /\ removing[r] = "new"
  /\ creating[c] # "new"
  /\ \E cards \in SUBSET Cards :
        /\ ReadOrRaise(cards)
        /\ listed' = [listed EXCEPT ![r] = cards]
        /\ target' = [target EXCEPT ![r] = c]
  /\ todo' = [todo EXCEPT ![r] = Fields]
  /\ removing' = [removing EXCEPT ![r] = "clearing"]
  /\ tangled' = LET others == Creating \cup {target[s] : s \in Removing}
                IN IF others = {} THEN tangled ELSE tangled \cup others \cup {c}
  /\ UNCHANGED <<rows, damaged, secrets, createVars>>

RemoveRefused(r) ==
  /\ removing[r] = "new"
  /\ damaged
  /\ removing' = [removing EXCEPT ![r] = "refused"]
  /\ UNCHANGED <<rows, damaged, secrets, createVars, target, listed, todo, tangled>>

RemoveField(r, field) ==
  /\ removing[r] = "clearing"
  /\ field \in todo[r]
  /\ secrets' = [secrets EXCEPT ![target[r]] = @ \ {field}]
  /\ todo' = [todo EXCEPT ![r] = @ \ {field}]
  /\ UNCHANGED <<rows, damaged, createVars, removing, target, listed, tangled>>

(* A get or a delete that fails, or the final write, fails the remove.     *)
RemoveFails(r) ==
  /\ removing[r] = "clearing"
  /\ removing' = [removing EXCEPT ![r] = "failed"]
  /\ UNCHANGED <<rows, damaged, secrets, createVars, target, listed, todo, tangled>>

(* What must have been cleared before remove rewrites the file.            *)
NothingLeftFirst(r) == {}  \* bug: the row goes before the material
LeftToClear(r) == todo[r]

(* The row goes last, with the rows as they were when the call began.      *)
DropTarget(r) ==
  /\ removing[r] = "clearing"
  /\ LeftToClear(r) = {}
  /\ rows' = IF target[r] \in listed[r] THEN listed[r] \ {target[r]} ELSE rows
  /\ removing' = [removing EXCEPT ![r] = "removed"]
  /\ UNCHANGED <<damaged, secrets, createVars, target, listed, todo, tangled>>

-----------------------------------------------------------------------------
(* The process dies; the file and the secret tier stay as they are.        *)
Crash ==
  /\ Creating # {} \/ Removing # {}
  /\ creating' = [c \in Cards |-> IF c \in Creating THEN "lost" ELSE creating[c]]
  /\ removing' = [r \in Removals |-> IF r \in Removing THEN "lost" ELSE removing[r]]
  /\ UNCHANGED <<rows, damaged, secrets, wanted, written, target, listed, todo, tangled>>

(* The file goes bad between calls, and an operator repairs it.            *)
FileChanges ==
  /\ Creating = {} /\ Removing = {}
  /\ damaged' = ~damaged
  /\ UNCHANGED <<rows, secrets, createVars, removeVars, tangled>>

CreateStep(c) ==
  \/ Create(c) \/ CreateRefused(c)
  \/ \E field \in Fields : PutField(c, field)
  \/ PutFails(c)
  \/ \E field \in Fields : \E cleared \in BOOLEAN : ClearField(c, field, cleared)
  \/ \E wrote \in BOOLEAN : DropRow(c, wrote)

RemoveStep(r) ==
  \/ \E c \in Cards : Remove(r, c)
  \/ RemoveRefused(r) \/ RemoveFails(r) \/ DropTarget(r)
  \/ \E field \in Fields : RemoveField(r, field)

Next ==
  \/ \E c \in Cards : CreateStep(c)
  \/ \E r \in Removals : RemoveStep(r)
  \/ Crash
  \/ FileChanges

Spec == Init /\ [][Next]_vars
-----------------------------------------------------------------------------
(* Type invariant.                                                         *)
TypeOK ==
  /\ rows \in SUBSET Cards
  /\ damaged \in BOOLEAN
  /\ secrets \in [Cards -> SUBSET Fields]
  /\ creating \in [Cards -> CreateAt]
  /\ wanted \in [Cards -> SUBSET Fields]
  /\ written \in [Cards -> SUBSET Fields]
  /\ removing \in [Removals -> RemoveAt]
  /\ target \in [Removals -> Cards \cup {None}]
  /\ listed \in [Removals -> SUBSET Cards]
  /\ todo \in [Removals -> SUBSET Fields]
  /\ tangled \in SUBSET Cards

(* A card no other call overlapped never leaves key material behind that   *)
(* no row points at, through a crash at any await, a failed remove and a   *)
(* damaged file; only an unwinding create that could not clear a field it  *)
(* had stored does (card-store.ts:328-341, 393-401).                       *)
LoneCallsStrandNothing ==
  \A c \in Cards \ tangled :
     secrets[c] # {} => c \in rows \/ creating[c] = "failed"

(* A card that was reported created, and nobody asked to remove, is listed *)
(* with all the material it was to have, whatever happens to other cards.  *)
LoneCreateIsComplete ==
  \A c \in Cards \ tangled :
     creating[c] = "created" /\ (\A r \in Removals : target[r] # c)
       => c \in rows /\ secrets[c] = wanted[c]

(* A remove that reported success left neither row nor material.           *)
LoneRemoveIsFinal ==
  \A r \in Removals :
     removing[r] = "removed" /\ target[r] \notin tangled
       => target[r] \notin rows /\ secrets[target[r]] = {}

(* The material of a created card never lies where no row points at it     *)
(* (card-store.ts:393-396).  A create that overlaps a remove, of any card, *)
(* loses its row to it.                                                    *)
NeverMaterialWithoutRow ==
  \A c \in Cards : creating[c] = "created" /\ secrets[c] # {} => c \in rows

(* A card that no other call overlapped is whole, over rows and material   *)
(* of the types they should have (card-store.ts).                          *)
CardsAreWhole == TypeOK /\ LoneCreateIsComplete
=============================================================================
