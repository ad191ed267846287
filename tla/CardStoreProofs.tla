-------------------------- MODULE CardStoreProofs --------------------------
(***************************************************************************)
(* Proofs about CardStore, for any cards, fields and removals.  A remove   *)
(* writes the rows it read before its awaits, so the argument is that the  *)
(* two agree on every card no other call overlapped (RowsAgree), and that  *)
(* every call in flight beside a remove is marked as overlapped.           *)
(***************************************************************************)
EXTENDS CardStore, TLAPS

(* Up to the cards that overlapped another call, what a remove is going to *)
(* write is what the file holds.                                           *)

RowsAgree == \A r \in Removing : \A c \in Cards \ tangled : c \in rows <=> c \in listed[r]

(* Calls that run while a remove does are marked.                          *)
RemovesTangle == \A r, s \in Removing : r # s => target[r] \in tangled
CreatesTangle == Removing # {} => Creating \subseteq tangled

(* A create in flight has its row, and knows what it stored.               *)
RowWhileCreating == \A c \in Creating \ tangled : c \in rows
StoredIsWritten ==
  \A c \in Cards \ tangled :
     creating[c] = "putting" => secrets[c] = written[c] /\ written[c] \subseteq wanted[c]

NewIsBlank ==
  \A c \in Cards : creating[c] = "new" => secrets[c] = {} /\ written[c] = {}

(* A remove in flight has cleared the fields it has been through.          *)
ClearedByRemove ==
  \A r \in Removing : target[r] \notin tangled => secrets[target[r]] \subseteq todo[r]

(* A remove that began is about a card whose create had begun.             *)
TargetsKnown ==
  \A r \in Removals :
     IF removing[r] \in {"new", "refused"}
     THEN target[r] = None
     ELSE target[r] \in Cards /\ creating[target[r]] # "new"

(* And a card that is gone has no create in flight.                        *)
RemovedIsSettled ==
  \A r \in Removals :
     removing[r] = "removed" /\ target[r] \notin tangled => target[r] \notin Creating

CardInv ==
  /\ TypeOK
  /\ RowsAgree /\ RemovesTangle /\ CreatesTangle
  /\ RowWhileCreating /\ StoredIsWritten /\ NewIsBlank /\ ClearedByRemove
  /\ TargetsKnown /\ RemovedIsSettled
  /\ LoneCallsStrandNothing /\ LoneCreateIsComplete /\ LoneRemoveIsFinal

-----------------------------------------------------------------------------
LEMMA InitCardInv == Init => CardInv
<1> SUFFICES ASSUME Init PROVE CardInv
  OBVIOUS
<1> USE DEF Init
<1>1. TypeOK
  BY DEF TypeOK, CreateAt, RemoveAt
<1>2. Creating = {} /\ Removing = {}
  BY DEF Creating, Removing
<1>3. RowsAgree /\ RemovesTangle /\ CreatesTangle /\ RowWhileCreating /\ ClearedByRemove
  BY <1>2 DEF RowsAgree, RemovesTangle, CreatesTangle, RowWhileCreating,
              ClearedByRemove
<1>4. StoredIsWritten /\ TargetsKnown /\ RemovedIsSettled
  BY DEF StoredIsWritten, TargetsKnown, RemovedIsSettled
<1>7. NewIsBlank
  BY DEF NewIsBlank
<1>5. LoneCallsStrandNothing /\ LoneCreateIsComplete /\ LoneRemoveIsFinal
  BY DEF LoneCallsStrandNothing, LoneCreateIsComplete, LoneRemoveIsFinal
<1>6. QED
  BY <1>1, <1>3, <1>4, <1>5, <1>7 DEF CardInv

-----------------------------------------------------------------------------
(* A create gets its row, and is marked when a remove is in flight.        *)
LEMMA CreatePreserves ==
  ASSUME CardInv, NEW c \in Cards, Create(c)
  PROVE  CardInv'
<1> USE DEF CardInv, TypeOK, CreateAt, RemoveAt, createVars, removeVars
<1>1. PICK fields \in SUBSET Fields :
        /\ rows' = rows \cup {c}
        /\ damaged' = FALSE
        /\ wanted' = [wanted EXCEPT ![c] = fields]
  BY DEF Create, ReadOrRaise, ToStore
<1>2. /\ creating[c] = "new"
      /\ creating' = [creating EXCEPT ![c] = "putting"]
      /\ tangled' = IF Removing = {} THEN tangled ELSE tangled \cup {c}
      /\ UNCHANGED <<secrets, written, removeVars>>
  BY DEF Create
<1>3. TypeOK'
  BY <1>1, <1>2
<1>4. RowsAgree' /\ RemovesTangle' /\ CreatesTangle' /\ RowWhileCreating'
  BY <1>1, <1>2
     DEF RowsAgree, RemovesTangle, CreatesTangle, RowWhileCreating, Creating,
         Removing
<1>5. StoredIsWritten' /\ NewIsBlank' /\ ClearedByRemove' /\ TargetsKnown' /\ RemovedIsSettled'
  BY <1>1, <1>2
     DEF StoredIsWritten, NewIsBlank, ClearedByRemove, TargetsKnown,
         RemovedIsSettled, CreatesTangle, Creating, Removing
<1>6. LoneCallsStrandNothing' /\ LoneCreateIsComplete' /\ LoneRemoveIsFinal'
  BY <1>1, <1>2
     DEF LoneCallsStrandNothing, LoneCreateIsComplete, LoneRemoveIsFinal,
         RowsAgree, RemovesTangle, CreatesTangle, RowWhileCreating,
         StoredIsWritten, NewIsBlank, ClearedByRemove, TargetsKnown,
         RemovedIsSettled, Creating, Removing
<1>7. QED
  BY <1>3, <1>4, <1>5, <1>6

(* Fields are stored while the row is there.                               *)
LEMMA PutFieldPreserves ==
  ASSUME CardInv, NEW c \in Cards, NEW field \in Fields, PutField(c, field)
  PROVE  CardInv'
<1> USE DEF CardInv, TypeOK, CreateAt, RemoveAt, createVars, removeVars,
            Creating, Removing, PutField
<1>1. TypeOK'
  OBVIOUS
<1>2. RowsAgree' /\ RemovesTangle' /\ CreatesTangle' /\ RowWhileCreating'
  BY DEF RowsAgree, RemovesTangle, CreatesTangle, RowWhileCreating
<1>3. StoredIsWritten' /\ NewIsBlank'
  BY DEF StoredIsWritten, NewIsBlank, CreatesTangle, TargetsKnown
<1>4. ClearedByRemove' /\ TargetsKnown' /\ RemovedIsSettled'
  BY DEF ClearedByRemove, TargetsKnown, RemovedIsSettled, CreatesTangle
<1>5. LoneCallsStrandNothing'
  BY DEF LoneCallsStrandNothing, RowWhileCreating, RowsAgree, ClearedByRemove
<1>6. LoneCreateIsComplete'
  BY DEF LoneCreateIsComplete, RowsAgree, RowWhileCreating, StoredIsWritten,
         TargetsKnown
<1>7. LoneRemoveIsFinal'
  BY DEF LoneRemoveIsFinal, RowsAgree, RemovedIsSettled, RemovesTangle,
         ClearedByRemove, TargetsKnown
<1>8. QED
  BY <1>1, <1>2, <1>3, <1>4, <1>5, <1>6, <1>7

(* A create that stops early.                                              *)
LEMMA UnwindPreserves ==
  ASSUME CardInv, NEW c \in Cards, CreateRefused(c) \/ PutFails(c)
  PROVE  CardInv'
<1> USE DEF CardInv, TypeOK, CreateAt, RemoveAt, createVars, removeVars,
            Creating, Removing, CreateRefused, PutFails
<1>1. TypeOK'
  OBVIOUS
<1>2. RowsAgree' /\ RemovesTangle' /\ CreatesTangle' /\ RowWhileCreating'
  BY DEF RowsAgree, RemovesTangle, CreatesTangle, RowWhileCreating
<1>3. StoredIsWritten' /\ NewIsBlank'
  BY DEF StoredIsWritten, NewIsBlank, CreatesTangle, TargetsKnown
<1>4. ClearedByRemove' /\ TargetsKnown' /\ RemovedIsSettled'
  BY DEF ClearedByRemove, TargetsKnown, RemovedIsSettled, CreatesTangle
<1>5. LoneCallsStrandNothing'
  BY DEF LoneCallsStrandNothing, RowWhileCreating, RowsAgree, ClearedByRemove
<1>6. LoneCreateIsComplete'
  BY DEF LoneCreateIsComplete, RowsAgree, RowWhileCreating, StoredIsWritten,
         TargetsKnown
<1>7. LoneRemoveIsFinal'
  BY DEF LoneRemoveIsFinal, RowsAgree, RemovedIsSettled, RemovesTangle,
         ClearedByRemove, TargetsKnown
<1>8. QED
  BY <1>1, <1>2, <1>3, <1>4, <1>5, <1>6, <1>7

(* An unwinding create clears a field, or fails to.                        *)
LEMMA ClearFieldPreserves ==
  ASSUME CardInv, NEW c \in Cards, NEW field \in Fields, NEW cleared \in BOOLEAN, ClearField(c, field, cleared)
  PROVE  CardInv'
<1> USE DEF CardInv, TypeOK, CreateAt, RemoveAt, createVars, removeVars,
            Creating, Removing, ClearField
<1>1. TypeOK'
  OBVIOUS
<1>2. RowsAgree' /\ RemovesTangle' /\ CreatesTangle' /\ RowWhileCreating'
  BY DEF RowsAgree, RemovesTangle, CreatesTangle, RowWhileCreating
<1>3. StoredIsWritten' /\ NewIsBlank'
  BY DEF StoredIsWritten, NewIsBlank, CreatesTangle, TargetsKnown
<1>4. ClearedByRemove' /\ TargetsKnown' /\ RemovedIsSettled'
  BY DEF ClearedByRemove, TargetsKnown, RemovedIsSettled, CreatesTangle
<1>5. LoneCallsStrandNothing'
  BY DEF LoneCallsStrandNothing, RowWhileCreating, RowsAgree, ClearedByRemove
<1>6. LoneCreateIsComplete'
  BY DEF LoneCreateIsComplete, RowsAgree, RowWhileCreating, StoredIsWritten,
         TargetsKnown
<1>7. LoneRemoveIsFinal'
  BY DEF LoneRemoveIsFinal, RowsAgree, RemovedIsSettled, RemovesTangle,
         ClearedByRemove, TargetsKnown
<1>8. QED
  BY <1>1, <1>2, <1>3, <1>4, <1>5, <1>6, <1>7

(* An unwinding create takes its own row out.                              *)
LEMMA DropRowPreserves ==
  ASSUME CardInv, NEW c \in Cards, NEW wrote \in BOOLEAN, DropRow(c, wrote)
  PROVE  CardInv'
<1> USE DEF CardInv, TypeOK, CreateAt, RemoveAt, createVars, removeVars,
            Creating, Removing, DropRow
<1>1. TypeOK'
  OBVIOUS
<1>2. RowsAgree' /\ RemovesTangle' /\ CreatesTangle' /\ RowWhileCreating'
  BY DEF RowsAgree, RemovesTangle, CreatesTangle, RowWhileCreating
<1>3. StoredIsWritten' /\ NewIsBlank'
  BY DEF StoredIsWritten, NewIsBlank, CreatesTangle, TargetsKnown
<1>4. ClearedByRemove' /\ TargetsKnown' /\ RemovedIsSettled'
  BY DEF ClearedByRemove, TargetsKnown, RemovedIsSettled, CreatesTangle
<1>5. LoneCallsStrandNothing'
  BY DEF LoneCallsStrandNothing, RowWhileCreating, RowsAgree, ClearedByRemove
<1>6. LoneCreateIsComplete'
  BY DEF LoneCreateIsComplete, RowsAgree, RowWhileCreating, StoredIsWritten,
         TargetsKnown
<1>7. LoneRemoveIsFinal'
  BY DEF LoneRemoveIsFinal, RowsAgree, RemovedIsSettled, RemovesTangle,
         ClearedByRemove, TargetsKnown
<1>8. QED
  BY <1>1, <1>2, <1>3, <1>4, <1>5, <1>6, <1>7

(* A remove reads the rows, and marks what it overlaps.                    *)
LEMMA RemovePreserves ==
  ASSUME CardInv, NEW r \in Removals, NEW c \in Cards, Remove(r, c)
  PROVE  CardInv'
<1> DEFINE others == Creating \cup {target[s] : s \in Removing}
<1> USE DEF CardInv, TypeOK, createVars
<1>1. /\ removing[r] = "new" /\ creating[c] # "new"
      /\ listed' = [listed EXCEPT ![r] = rows]
      /\ target' = [target EXCEPT ![r] = c]
      /\ todo' = [todo EXCEPT ![r] = Fields]
      /\ removing' = [removing EXCEPT ![r] = "clearing"]
      /\ UNCHANGED <<rows, damaged, secrets, createVars>>
  BY DEF Remove, ReadOrRaise
<1>2. tangled' = IF others = {} THEN tangled ELSE tangled \cup others \cup {c}
  BY Zenon DEF Remove
<1>3. \A s \in Removing : target[s] \in Cards
  BY DEF Removing, TargetsKnown
<1>4. /\ Creating' = Creating /\ Removing' = Removing \cup {r} /\ r \notin Removing
      /\ \A s \in Removing : target'[s] = target[s] /\ listed'[s] = listed[s]
      /\ target'[r] = c /\ listed'[r] = rows
  BY <1>1 DEF Creating, Removing
<1>5. /\ tangled \subseteq tangled' /\ tangled' \subseteq Cards
      /\ Creating \subseteq tangled'
      /\ \A s \in Removing : target[s] \in tangled' /\ c \in tangled'
      /\ c \in Creating => c \in tangled'
  BY <1>2, <1>3 DEF Creating
<1>6. TypeOK'
  BY <1>1, <1>5 DEF CreateAt, RemoveAt
<1>7. RowsAgree' /\ RemovesTangle' /\ CreatesTangle' /\ RowWhileCreating'
  BY <1>1, <1>4, <1>5 DEF RowsAgree, RemovesTangle, CreatesTangle, RowWhileCreating
<1>8. StoredIsWritten' /\ NewIsBlank' /\ TargetsKnown'
  BY <1>1, <1>5 DEF StoredIsWritten, NewIsBlank, TargetsKnown
<1>9. ClearedByRemove' /\ RemovedIsSettled'
  BY <1>1, <1>4, <1>5 DEF ClearedByRemove, RemovedIsSettled
<1>10. LoneCallsStrandNothing'
  BY <1>1, <1>5 DEF LoneCallsStrandNothing
<1>11. LoneCreateIsComplete'
  <2> SUFFICES ASSUME NEW d \in Cards, d \notin tangled', creating[d] = "created",
                      \A s \in Removals : target'[s] # d
               PROVE  d \in rows /\ secrets[d] = wanted[d]
    BY <1>1 DEF LoneCreateIsComplete
  <2>1. \A s \in Removals : target[s] # d \/ s = r
    BY <1>1
  <2>2. target[r] # d
    BY <1>1, CardsAssumption DEF TargetsKnown
  <2>3. QED
    BY <1>5, <2>1, <2>2 DEF LoneCreateIsComplete
<1>12. LoneRemoveIsFinal'
  BY <1>1, <1>5 DEF LoneRemoveIsFinal, RemoveAt
<1>13. QED
  BY <1>6, <1>7, <1>8, <1>9, <1>10, <1>11, <1>12

(* A remove that stops early.                                              *)
LEMMA RemoveEndsPreserves ==
  ASSUME CardInv, NEW r \in Removals, RemoveRefused(r) \/ RemoveFails(r)
  PROVE  CardInv'
<1> USE DEF CardInv, TypeOK, CreateAt, RemoveAt, createVars, removeVars,
            Creating, Removing, RemoveRefused, RemoveFails
<1>1. TypeOK'
  OBVIOUS
<1>2. RowsAgree' /\ RemovesTangle' /\ CreatesTangle' /\ RowWhileCreating'
  BY DEF RowsAgree, RemovesTangle, CreatesTangle, RowWhileCreating
<1>3. StoredIsWritten' /\ NewIsBlank'
  BY DEF StoredIsWritten, NewIsBlank, CreatesTangle, TargetsKnown
<1>4. ClearedByRemove' /\ TargetsKnown' /\ RemovedIsSettled'
  BY DEF ClearedByRemove, TargetsKnown, RemovedIsSettled, CreatesTangle
<1>5. LoneCallsStrandNothing'
  BY DEF LoneCallsStrandNothing, RowWhileCreating, RowsAgree, ClearedByRemove
<1>6. LoneCreateIsComplete'
  BY DEF LoneCreateIsComplete, RowsAgree, RowWhileCreating, StoredIsWritten,
         TargetsKnown
<1>7. LoneRemoveIsFinal'
  BY DEF LoneRemoveIsFinal, RowsAgree, RemovedIsSettled, RemovesTangle,
         ClearedByRemove, TargetsKnown
<1>8. QED
  BY <1>1, <1>2, <1>3, <1>4, <1>5, <1>6, <1>7

(* A remove clears a field of a card that has no create in flight.         *)
LEMMA RemoveFieldPreserves ==
  ASSUME CardInv, NEW r \in Removals, NEW field \in Fields, RemoveField(r, field)
  PROVE  CardInv'
<1> USE DEF CardInv, TypeOK, CreateAt, RemoveAt, createVars, removeVars,
            Creating, Removing, RemoveField
<1>1. TypeOK'
  OBVIOUS
<1>2. RowsAgree' /\ RemovesTangle' /\ CreatesTangle' /\ RowWhileCreating'
  BY DEF RowsAgree, RemovesTangle, CreatesTangle, RowWhileCreating
<1>3. StoredIsWritten' /\ NewIsBlank'
  BY DEF StoredIsWritten, NewIsBlank, CreatesTangle, TargetsKnown
<1>4. ClearedByRemove' /\ TargetsKnown' /\ RemovedIsSettled'
  BY DEF ClearedByRemove, TargetsKnown, RemovedIsSettled, CreatesTangle
<1>5. LoneCallsStrandNothing'
  BY DEF LoneCallsStrandNothing, RowWhileCreating, RowsAgree, ClearedByRemove
<1>6. LoneCreateIsComplete'
  BY DEF LoneCreateIsComplete, RowsAgree, RowWhileCreating, StoredIsWritten,
         TargetsKnown
<1>7. LoneRemoveIsFinal'
  BY DEF LoneRemoveIsFinal, RowsAgree, RemovedIsSettled, RemovesTangle,
         ClearedByRemove, TargetsKnown
<1>8. QED
  BY <1>1, <1>2, <1>3, <1>4, <1>5, <1>6, <1>7

(* A remove writes the rows it read, and they agree with the file.         *)
LEMMA DropTargetPreserves ==
  ASSUME CardInv, NEW r \in Removals, DropTarget(r)
  PROVE  CardInv'
<1> USE DEF CardInv, TypeOK, CreateAt, RemoveAt, createVars, removeVars,
            Creating, Removing, DropTarget, LeftToClear
<1>1. TypeOK'
  OBVIOUS
<1>2. RowsAgree' /\ RemovesTangle' /\ CreatesTangle' /\ RowWhileCreating'
  BY DEF RowsAgree, RemovesTangle, CreatesTangle, RowWhileCreating
<1>3. StoredIsWritten' /\ NewIsBlank'
  BY DEF StoredIsWritten, NewIsBlank, CreatesTangle, TargetsKnown
<1>4. ClearedByRemove' /\ TargetsKnown' /\ RemovedIsSettled'
  BY DEF ClearedByRemove, TargetsKnown, RemovedIsSettled, CreatesTangle
<1>5. LoneCallsStrandNothing'
  BY DEF LoneCallsStrandNothing, RowWhileCreating, RowsAgree, ClearedByRemove
<1>6. LoneCreateIsComplete'
  BY DEF LoneCreateIsComplete, RowsAgree, RowWhileCreating, StoredIsWritten,
         TargetsKnown
<1>7. LoneRemoveIsFinal'
  BY DEF LoneRemoveIsFinal, RowsAgree, RemovedIsSettled, RemovesTangle,
         ClearedByRemove, TargetsKnown
<1>8. QED
  BY <1>1, <1>2, <1>3, <1>4, <1>5, <1>6, <1>7

(* A crash leaves rows and material as they are.                           *)
LEMMA CrashPreserves ==
  ASSUME CardInv, Crash
  PROVE  CardInv'
<1> USE DEF CardInv, TypeOK, CreateAt, RemoveAt, createVars, removeVars,
            Creating, Removing, Crash
<1>1. TypeOK'
  OBVIOUS
<1>2. RowsAgree' /\ RemovesTangle' /\ CreatesTangle' /\ RowWhileCreating'
  BY DEF RowsAgree, RemovesTangle, CreatesTangle, RowWhileCreating
<1>3. StoredIsWritten' /\ NewIsBlank'
  BY DEF StoredIsWritten, NewIsBlank, CreatesTangle, TargetsKnown
<1>4. ClearedByRemove' /\ TargetsKnown' /\ RemovedIsSettled'
  BY DEF ClearedByRemove, TargetsKnown, RemovedIsSettled, CreatesTangle
<1>5. LoneCallsStrandNothing'
  BY DEF LoneCallsStrandNothing, RowWhileCreating, RowsAgree, ClearedByRemove
<1>6. LoneCreateIsComplete'
  BY DEF LoneCreateIsComplete, RowsAgree, RowWhileCreating, StoredIsWritten,
         TargetsKnown
<1>7. LoneRemoveIsFinal'
  BY DEF LoneRemoveIsFinal, RowsAgree, RemovedIsSettled, RemovesTangle,
         ClearedByRemove, TargetsKnown
<1>8. QED
  BY <1>1, <1>2, <1>3, <1>4, <1>5, <1>6, <1>7

(* Damage to the file, its repair, and stuttering.                         *)
LEMMA OtherwisePreserves ==
  ASSUME CardInv, FileChanges \/ UNCHANGED vars
  PROVE  CardInv'
<1> USE DEF CardInv, TypeOK, CreateAt, RemoveAt, createVars, removeVars,
            Creating, Removing, FileChanges, vars
<1>1. TypeOK'
  OBVIOUS
<1>2. RowsAgree' /\ RemovesTangle' /\ CreatesTangle' /\ RowWhileCreating'
  BY DEF RowsAgree, RemovesTangle, CreatesTangle, RowWhileCreating
<1>3. StoredIsWritten' /\ NewIsBlank'
  BY DEF StoredIsWritten, NewIsBlank, CreatesTangle, TargetsKnown
<1>4. ClearedByRemove' /\ TargetsKnown' /\ RemovedIsSettled'
  BY DEF ClearedByRemove, TargetsKnown, RemovedIsSettled, CreatesTangle
<1>5. LoneCallsStrandNothing'
  BY DEF LoneCallsStrandNothing, RowWhileCreating, RowsAgree, ClearedByRemove
<1>6. LoneCreateIsComplete'
  BY DEF LoneCreateIsComplete, RowsAgree, RowWhileCreating, StoredIsWritten,
         TargetsKnown
<1>7. LoneRemoveIsFinal'
  BY DEF LoneRemoveIsFinal, RowsAgree, RemovedIsSettled, RemovesTangle,
         ClearedByRemove, TargetsKnown
<1>8. QED
  BY <1>1, <1>2, <1>3, <1>4, <1>5, <1>6, <1>7

-----------------------------------------------------------------------------
(* The card store keeps its invariant.                                     *)
THEOREM CardInvariance == Spec => []CardInv
<1>1. CardInv /\ [Next]_vars => CardInv'
  BY CreatePreserves, PutFieldPreserves, UnwindPreserves, ClearFieldPreserves,
     DropRowPreserves, RemovePreserves, RemoveEndsPreserves, RemoveFieldPreserves,
     DropTargetPreserves, CrashPreserves, OtherwisePreserves
     DEF Next, CreateStep, RemoveStep
<1>2. QED
  BY InitCardInv, <1>1, PTL DEF Spec

(* The file, the secret tier and the calls keep their types.               *)
THEOREM CardTypeCorrect == Spec => []TypeOK
<1>1. CardInv => TypeOK
  BY DEF CardInv
<1>2. QED
  BY CardInvariance, <1>1, PTL

(* A card no call overlapped never leaves material without a row.          *)
THEOREM NothingIsStranded == Spec => []LoneCallsStrandNothing
<1>1. CardInv => LoneCallsStrandNothing
  BY DEF CardInv
<1>2. QED
  BY CardInvariance, <1>1, PTL

(* A created card keeps its row and its material.                          *)
THEOREM CreatedStaysComplete == Spec => []LoneCreateIsComplete
<1>1. CardInv => LoneCreateIsComplete
  BY DEF CardInv
<1>2. QED
  BY CardInvariance, <1>1, PTL

(* A removed card stays removed.                                           *)
THEOREM RemovedStaysRemoved == Spec => []LoneRemoveIsFinal
<1>1. CardInv => LoneRemoveIsFinal
  BY DEF CardInv
<1>2. QED
  BY CardInvariance, <1>1, PTL

(* A card that no other call overlapped is whole, over rows and material   *)
(* of the types they should have (card-store.ts).                          *)
THEOREM CardsStayWhole == Spec => []CardsAreWhole
BY CardTypeCorrect, CreatedStaysComplete, PTL DEF CardsAreWhole
=============================================================================
