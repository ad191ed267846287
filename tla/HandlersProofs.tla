--------------------------- MODULE HandlersProofs ---------------------------
(***************************************************************************)
(* What the handler families promise, for every number of calls, drafts,   *)
(* routes, providers, tags, items and registrations.  The families share   *)
(* no variable, so each has an inductive invariant of its own, and a step  *)
(* of the composition is a step of a family or leaves it alone.            *)
(***************************************************************************)
EXTENDS Handlers, SequenceTheorems, FiniteSetTheorems, WellFoundedInduction, TLAPS

(* Every step is one of each family's, or leaves it alone.                 *)
LEMMA EachFamilySteps ==
  ASSUME [Next]_vars
  PROVE  /\ Mirror!Next \/ UNCHANGED Mirror!vars
         /\ Routing!Next \/ UNCHANGED Routing!vars
         /\ Remote!Next \/ UNCHANGED Remote!vars
         /\ Pages!Next \/ UNCHANGED Pages!vars
         /\ TagsOf!Next \/ UNCHANGED TagsOf!vars
         /\ Scores!Next \/ UNCHANGED Scores!vars
         /\ Verbs!Next \/ UNCHANGED Verbs!vars
<1> USE DEF vars, dVars, rVars, xVars, pVars, tVars, sVars, vVars
<1>1. Mirror!Next \/ UNCHANGED Mirror!vars
  BY Zenon DEF Next, Mirror!vars, Mirror!keyVars
<1>2. Routing!Next \/ UNCHANGED Routing!vars
  BY Zenon DEF Next, Routing!vars
<1>3. Remote!Next \/ UNCHANGED Remote!vars
  BY Zenon DEF Next, Remote!vars, Remote!diskVars
<1>4. Pages!Next \/ UNCHANGED Pages!vars
  BY Zenon DEF Next, Pages!vars
<1>5. TagsOf!Next \/ UNCHANGED TagsOf!vars
  BY Zenon DEF Next, TagsOf!vars
<1>6. Scores!Next \/ UNCHANGED Scores!vars
  BY Zenon DEF Next, Scores!vars
<1>7. Verbs!Next \/ UNCHANGED Verbs!vars
  BY Zenon DEF Next, Verbs!vars
<1>8. QED
  BY <1>1, <1>2, <1>3, <1>4, <1>5, <1>6, <1>7

-----------------------------------------------------------------------------
(* Beside a run that is alone no other is open.                            *)
AloneMeansAlone ==
  \A r \in Runs : sRun[r].alone =>
     /\ sRun[r].at # "idle"
     /\ \A o \in Runs : o # r => sRun[o].at = "idle"

(* A run alone has loaded every score the file holds.                      *)
LoadedAll ==
  \A r \in Runs : sRun[r].alone /\ sRun[r].at = "saving" =>
     \A i \in Items : sFile[i] # None => sRun[r].rows[i] # None

ScoresInv == Scores!TypeOK /\ AloneMeansAlone /\ LoadedAll

-----------------------------------------------------------------------------
(* What a run may be, as TypeOK has it.                                    *)
RunState == [at : {"idle", "opening", "saving"}, rows : Scores!Table, alone : BOOLEAN]

LEMMA IdleIsARun ==
  /\ Scores!Idle \in RunState /\ ~Scores!Idle.alone /\ Scores!Idle.at = "idle"
  /\ Scores!NoRows \in Scores!Table
<1>1. Scores!NoRows \in Scores!Table
  BY DEF Scores!NoRows, Scores!Table
<1>2. QED
  BY <1>1 DEF Scores!Idle, RunState

LEMMA InitScoresInv == Scores!Init => ScoresInv
<1> SUFFICES ASSUME Scores!Init PROVE ScoresInv
  OBVIOUS
<1>1. sRun \in [Runs -> RunState]
  BY IdleIsARun DEF Scores!Init
<1>2. Scores!TypeOK
  BY <1>1, IdleIsARun DEF Scores!Init, Scores!TypeOK, RunState
<1>3. AloneMeansAlone /\ LoadedAll
  BY IdleIsARun DEF Scores!Init, AloneMeansAlone, LoadedAll
<1>4. QED
  BY <1>2, <1>3 DEF ScoresInv

LEMMA StepScoresInv ==
  ASSUME ScoresInv, Scores!Next \/ UNCHANGED Scores!vars
  PROVE  ScoresInv'
<1> USE DEF ScoresInv, Scores!TypeOK, AloneMeansAlone, LoadedAll, Scores!Table
<1>1. ASSUME NEW r \in Runs, NEW i \in Items, NEW spam \in Levels, NEW priority \in Levels,
             Scores!Score(r, i, spam, priority)
      PROVE  ScoresInv'
  <2> DEFINE others == \E o \in Runs : sRun[o].at # "idle"
             new == [Scores!Idle EXCEPT !.at = "opening", !.alone = ~others,
                                 !.rows = [Scores!NoRows EXCEPT ![i] = Scores!Label(spam, priority)]]
             touched(o) == [sRun[o] EXCEPT !.alone = FALSE]
  <2>1. sRun' = [o \in Runs |-> IF o = r THEN new ELSE touched(o)] /\ sRun[r].at = "idle"
    BY <1>1 DEF Scores!Score
  <2>2. [Scores!NoRows EXCEPT ![i] = Scores!Label(spam, priority)] \in Scores!Table
    BY DEF Scores!Label, Scores!Labels, Scores!NoRows
  <2>3. new \in RunState /\ new.at = "opening" /\ (new.alone <=> ~others)
    BY <2>2 DEF Scores!Idle, RunState
  <2>4. \A o \in Runs : /\ sRun[o] \in RunState /\ touched(o) \in RunState
                       /\ ~touched(o).alone /\ touched(o).at = sRun[o].at
    BY DEF RunState
  <2>5. sRun' \in [Runs -> RunState]
    BY <2>1, <2>3, <2>4
  <2>6. Scores!TypeOK'
    BY <1>1, <2>5 DEF Scores!Score, RunState
  <2>7. sRun'[r] = new /\ \A o \in Runs : o # r => ~sRun'[o].alone /\ sRun'[o].at = sRun[o].at
    BY <2>1, <2>4
  <2>8. new.alone => \A o \in Runs : o # r => sRun'[o].at = "idle"
    BY <2>3, <2>7
  <2>9. AloneMeansAlone'
    <3>1. sRun'[r].at # "idle" /\ (sRun'[r].alone => new.alone)
      BY <2>3, <2>7
    <3>2. QED
      BY <2>7, <2>8, <3>1
  <2>10. LoadedAll'
    BY <2>3, <2>7
  <2>11. QED
    BY <2>6, <2>9, <2>10
<1>2. ASSUME NEW r \in Runs, Scores!Persist(r) PROVE ScoresInv'
  <2> DEFINE merged == [i \in Items |-> IF sRun[r].rows[i] = None THEN sFile[i] ELSE sRun[r].rows[i]]
  <2>1. merged \in Scores!Table
    <3>1. sRun[r].rows \in Scores!Table /\ sFile \in Scores!Table
      BY DEF RunState
    <3>2. \A i \in Items : merged[i] \in Scores!Labels \cup {None}
      BY <3>1
    <3>3. QED
      BY <3>2
  <2>2. sRun' = [sRun EXCEPT ![r] = [@ EXCEPT !.at = "saving", !.rows = merged]]
    BY <1>2 DEF Scores!Persist, Scores!Loaded
  <2>3. sRun[r].at = "opening" /\ sFile' = sFile
    BY <1>2 DEF Scores!Persist
  <2>4. Scores!TypeOK'
    <3>1. sRun[r] \in RunState
      BY DEF RunState
    <3>2. [sRun[r] EXCEPT !.at = "saving", !.rows = merged] \in RunState
      BY <2>1, <3>1 DEF RunState
    <3>3. sRun' \in [Runs -> RunState]
      BY <2>2, <3>2 DEF RunState
    <3>4. QED
      BY <1>2, <3>3 DEF Scores!Persist, RunState
  <2>5. AloneMeansAlone'
    BY <2>2, <2>3
  <2>6. sRun'[r].rows = merged /\ \A o \in Runs : o # r => sRun'[o] = sRun[o]
    BY <2>2
  <2>7. LoadedAll'
    BY <2>3, <2>6
  <2>8. QED
    BY <2>4, <2>5, <2>7
<1>3. ASSUME NEW r \in Runs, Scores!SaveRun(r) PROVE ScoresInv'
  BY <1>3, IdleIsARun DEF Scores!SaveRun, RunState
<1>4. ASSUME NEW r \in Runs, Scores!RunFails(r) PROVE ScoresInv'
  BY <1>4, IdleIsARun DEF Scores!RunFails, RunState
<1>5. ASSUME NEW c \in Calls, Scores!List(c) PROVE ScoresInv'
  BY <1>5 DEF Scores!List
<1>6. CASE Scores!StoreOpens
  BY <1>6 DEF Scores!StoreOpens, Scores!Answered
<1>7. CASE Scores!OpenFails
  BY <1>7 DEF Scores!OpenFails, Scores!Answered, Scores!Forgotten
<1>8. CASE Scores!Dispose
  BY <1>8 DEF Scores!Dispose
<1>9. CASE UNCHANGED Scores!vars
  BY <1>9 DEF Scores!vars
<1>10. QED
  BY <1>1, <1>2, <1>3, <1>4, <1>5, <1>6, <1>7, <1>8, <1>9 DEF Scores!Next

(* A run alone loses no score (triage/pipeline.ts:160-177).                *)
LEMMA StepKeepsScores ==
  ASSUME ScoresInv, Scores!Next, sFile' # sFile,
         NEW r \in Runs, sRun[r].alone, NEW i \in Items, sFile[i] # None
  PROVE  sFile'[i] # None
<1>1. PICK s \in Runs : Scores!SaveRun(s)
  BY DEF Scores!Next, Scores!Score, Scores!Persist, Scores!RunFails, Scores!List,
         Scores!StoreOpens, Scores!OpenFails, Scores!Dispose
<1>2. s = r
  BY <1>1 DEF Scores!SaveRun, ScoresInv, AloneMeansAlone
<1>3. QED
  BY <1>1, <1>2 DEF Scores!SaveRun, ScoresInv, LoadedAll

(* A triage run that no other overlaps loses no score the file had, for    *)
(* any items, runs and levels of a signal (triage/pipeline.ts:160-177).    *)
THEOREM LoneRunsKeepScores == Spec => LoneRunKeepsScores
<1>1. Init => ScoresInv
  BY InitScoresInv DEF Init
<1>2. ScoresInv /\ [Next]_vars => ScoresInv'
  BY EachFamilySteps, StepScoresInv
<1>3. ScoresInv /\ [Next]_vars =>
        [\A r \in Runs : sRun[r].alone /\ sFile' # sFile /\ sRun'[r].at = "idle" =>
           \A i \in Items : sFile[i] # None => sFile'[i] # None]_(Scores!vars)
  <2> SUFFICES ASSUME ScoresInv, [Next]_vars, sFile' # sFile,
                      NEW r \in Runs, sRun[r].alone, NEW i \in Items, sFile[i] # None
               PROVE  sFile'[i] # None
    OBVIOUS
  <2>1. Scores!Next
    BY EachFamilySteps DEF Scores!vars
  <2>2. QED
    BY <2>1, StepKeepsScores
<1>4. QED
  BY <1>1, <1>2, <1>3, PTL DEF Spec, LoneRunKeepsScores, Scores!LoneRunKeepsScores

-----------------------------------------------------------------------------
(* Drafts.  One load of the key is under way in a process, it generates a  *)
(* key only while the tier has none, and a row is written only once it is  *)
(* there.                                                                  *)
OneLoad == \A c \in Calls : dLoad[c].at # "none" => dCipher = c
KeyIsStored ==
  \A c \in Calls :
     /\ dLoad[c].at = "putting" => dTier = 0 /\ dLoad[c].key # 0
     /\ dLoad[c].at = "ready" => dTier # 0 /\ dLoad[c].key = dTier
MintedOnce ==
  /\ dMinted <= dRestarts + 1
  /\ (\A c \in Calls : dLoad[c].at \in {"none", "resolving"}) => dMinted <= dRestarts
Named ==
  \A c \in Calls :
     /\ dCall[c].at # "idle" => dCall[c].draft \in Drafts /\ dCall[c].created \in Stamps
     /\ dCall[c].at = "keying" => dCall[c].via \in Calls
Sealed(table) == \A d \in Drafts : table[d] # None => dTier # 0 /\ table[d].key = dTier
AllSealed ==
  /\ Sealed(dRows) /\ Sealed(dFile)
  /\ \A c \in Calls : dCall[c].at = "renaming" => Sealed(dCall[c].data)

DraftsInv == Mirror!TypeOK /\ OneLoad /\ KeyIsStored /\ MintedOnce /\ Named /\ AllSealed

-----------------------------------------------------------------------------
DraftCall == [at: {"idle", "opening", "keying", "saving", "renaming"},
              kind: Mirror!Kinds, draft: Drafts \cup {None},
              created: Stamps \cup {None}, via: Calls \cup {None}, data: Mirror!Table]
DraftLoad == [at: {"none", "resolving", "putting", "ready", "failed"}, key: Mirror!Keys]

LEMMA NothingYet ==
  /\ MaxRestarts \in Nat /\ 0 \in Mirror!Keys
  /\ Mirror!NoRows \in Mirror!Table /\ \A d \in Drafts : Mirror!NoRows[d] = None
  /\ Mirror!Idle \in DraftCall /\ Mirror!Idle.at = "idle"
  /\ Mirror!NoLoad \in DraftLoad /\ Mirror!NoLoad.at = "none"
<1>1. MaxRestarts \in Nat /\ 0 \in Mirror!Keys
  BY HandlersAssumption DEF Mirror!Keys
<1>2. Mirror!NoRows \in Mirror!Table /\ \A d \in Drafts : Mirror!NoRows[d] = None
  BY DEF Mirror!NoRows, Mirror!Table
<1>3. QED
  BY <1>1, <1>2 DEF Mirror!Idle, DraftCall, Mirror!NoLoad, DraftLoad, Mirror!Kinds

LEMMA InitDraftsInv == Mirror!Init => DraftsInv
<1> SUFFICES ASSUME Mirror!Init PROVE DraftsInv
  OBVIOUS
<1>1. /\ dLoad = [c \in Calls |-> Mirror!NoLoad] /\ dCall = [c \in Calls |-> Mirror!Idle]
      /\ dLoad \in [Calls -> DraftLoad] /\ dCall \in [Calls -> DraftCall]
  BY NothingYet DEF Mirror!Init
<1>2. Mirror!TypeOK
  BY <1>1, NothingYet DEF Mirror!Init, Mirror!TypeOK, DraftLoad, DraftCall
<1>3. QED
  BY <1>1, <1>2, NothingYet
     DEF Mirror!Init, DraftsInv, OneLoad, KeyIsStored, MintedOnce, Named, AllSealed, Sealed

Resolving == [at |-> "resolving", key |-> 0]

(* A step of one call, which may begin the load of the key, over rows and  *)
(* a file that stay sealed.                                                *)
LEMMA OneCallMoves ==
  ASSUME DraftsInv, NEW c \in Calls, NEW to \in DraftCall, dCall' = [dCall EXCEPT ![c] = to],
         to.at # "idle" => to.draft \in Drafts /\ to.created \in Stamps,
         to.at = "keying" => to.via \in Calls, to.at = "renaming" => Sealed(to.data),
         dOpening' \in {"none", "pending", "open", "rejected", "closed"},
         dRows' \in Mirror!Table, dFile' \in Mirror!Table, Sealed(dRows'), Sealed(dFile'),
         UNCHANGED <<dTier, dMinted, dRestarts>>,
         \/ UNCHANGED <<dCipher, dLoad>>
         \/ dCipher = None /\ dCipher' = c /\ dLoad' = [dLoad EXCEPT ![c] = Resolving]
  PROVE  DraftsInv'
<1>1. dCall'[c] = to /\ \A d \in Calls : d # c => dCall'[d] = dCall[d]
  BY DEF DraftsInv, Mirror!TypeOK
<1>2. dCall \in [Calls -> DraftCall]
  BY DEF DraftsInv, Mirror!TypeOK, DraftCall
<1>3. dCall' \in [Calls -> DraftCall]
  BY <1>2
<1>0. dLoad' \in [Calls -> DraftLoad] /\ dCipher' \in Calls \cup {None}
  BY NothingYet DEF DraftsInv, Mirror!TypeOK, DraftLoad, Resolving
<1>4. Mirror!TypeOK'
  BY <1>0, <1>3 DEF DraftsInv, Mirror!TypeOK, DraftCall, DraftLoad
<1>5. Named'
  BY <1>1 DEF DraftsInv, Named
<1>6. AllSealed'
  BY <1>1 DEF DraftsInv, AllSealed, Sealed
<1>7. OneLoad' /\ KeyIsStored' /\ MintedOnce'
  <2>1. dCipher = None => \A d \in Calls : dLoad[d].at = "none"
    BY HandlersAssumption DEF DraftsInv, OneLoad
  <2>2. \A d \in Calls : \/ dLoad'[d] = dLoad[d]
                         \/ d = c /\ dCipher = None /\ dLoad'[d] = Resolving
    BY DEF DraftsInv, Mirror!TypeOK
  <2>3. OneLoad'
    BY <2>1, <2>2 DEF DraftsInv, OneLoad, Resolving
  <2>4. KeyIsStored'
    BY <2>2 DEF DraftsInv, KeyIsStored, Resolving
  <2>5. MintedOnce'
    BY <2>1, <2>2 DEF DraftsInv, MintedOnce, Resolving
  <2>6. QED
    BY <2>3, <2>4, <2>5
<1>8. QED
  BY <1>4, <1>5, <1>6, <1>7 DEF DraftsInv

LEMMA StepOfADraftCall ==
  ASSUME DraftsInv, NEW c \in Calls,
         \/ \E kind \in Mirror!Kinds, d \in Drafts, t \in Stamps : Mirror!Invoke(c, kind, d, t)
         \/ Mirror!InitRejected(c) \/ Mirror!Refused(c) \/ Mirror!Look(c) \/ Mirror!KeyRejected(c)
         \/ Mirror!ReadRow(c) \/ Mirror!Write(c) \/ Mirror!Delete(c)
         \/ Mirror!Export(c) \/ Mirror!Rename(c) \/ Mirror!SaveFails(c)
  PROVE  DraftsInv'
<1> DEFINE was == dCall[c]
<1>0. /\ was \in DraftCall /\ dRows \in Mirror!Table /\ dFile \in Mirror!Table
      /\ dOpening \in {"none", "pending", "open", "rejected", "closed"}
      /\ Sealed(dRows) /\ Sealed(dFile) /\ (was.at = "renaming" => Sealed(was.data))
      /\ was.at # "idle" => was.draft \in Drafts /\ was.created \in Stamps
      /\ was.at = "keying" => was.via \in Calls
  BY DEF DraftsInv, Mirror!TypeOK, DraftCall, AllSealed, Named
<1> USE DEF Mirror!keyVars
<1>1. ASSUME NEW kind \in Mirror!Kinds, NEW d \in Drafts, NEW t \in Stamps,
             Mirror!Invoke(c, kind, d, t)
      PROVE  DraftsInv'
  <2> DEFINE to == [Mirror!Idle EXCEPT !.at = "opening", !.kind = kind, !.draft = d, !.created = t]
  <2>1. to \in DraftCall /\ to.at = "opening" /\ to.draft = d /\ to.created = t
    BY NothingYet DEF DraftCall
  <2>2. dCall' = [dCall EXCEPT ![c] = to]
    BY <1>1 DEF Mirror!Invoke
  <2>3. UNCHANGED <<dRows, dFile, dTier, dMinted, dRestarts, dCipher, dLoad>>
        /\ dOpening' \in {"pending", dOpening}
    BY <1>1 DEF Mirror!Invoke
  <2>4. QED
    BY <1>0, <2>1, <2>2, <2>3, OneCallMoves DEF Sealed
<1>2. ASSUME dCall' = [dCall EXCEPT ![c] = Mirror!Idle],
             UNCHANGED <<dOpening, dRows, dTier, dMinted, dRestarts, dCipher, dLoad>>,
             dFile' = dFile \/ (was.at = "renaming" /\ dFile' = was.data)
      PROVE  DraftsInv'
  <2>1. dFile' \in Mirror!Table /\ Sealed(dFile')
    BY <1>0, <1>2 DEF DraftCall
  <2>2. QED
    BY <1>0, <1>2, <2>1, NothingYet, OneCallMoves DEF Sealed
<1>3. CASE Mirror!InitRejected(c) \/ Mirror!Refused(c) \/ Mirror!Look(c) \/ Mirror!KeyRejected(c)
           \/ Mirror!SaveFails(c) \/ Mirror!Rename(c)
  BY <1>2, <1>3, Zenon
     DEF Mirror!InitRejected, Mirror!Refused, Mirror!Look, Mirror!KeyRejected, Mirror!SaveFails,
         Mirror!Rename, Mirror!Answer
<1>4. ASSUME NEW to \in DraftCall, dCall' = [dCall EXCEPT ![c] = to], was.at # "idle",
             to.draft = was.draft, to.created = was.created, to.at \in {"saving", "renaming"},
             to.at = "renaming" => to.data = dRows,
             UNCHANGED <<dOpening, dFile, dTier, dMinted, dRestarts, dCipher, dLoad>>,
             dRows' \in Mirror!Table, Sealed(dRows')
      PROVE  DraftsInv'
  BY <1>0, <1>4, OneCallMoves DEF Sealed
<1>5. CASE Mirror!Export(c)
  <2> DEFINE to == [was EXCEPT !.at = "renaming", !.data = dRows]
  <2>1. dCall' = [dCall EXCEPT ![c] = [@ EXCEPT !.at = "renaming", !.data = dRows]]
        /\ was.at = "saving"
        /\ UNCHANGED <<dOpening, dRows, dFile, dTier, dMinted, dRestarts, dCipher, dLoad>>
    BY <1>5 DEF Mirror!Export
  <2>2. dCall' = [dCall EXCEPT ![c] = to]
    BY <2>1, Zenon
  <2>3. to \in DraftCall /\ to.at = "renaming" /\ to.data = dRows /\ to.draft = was.draft
        /\ to.created = was.created
    BY <1>0 DEF DraftCall
  <2>4. QED
    BY <1>0, <1>4, <2>1, <2>2, <2>3 DEF Sealed
<1>6. ASSUME dCall' = [dCall EXCEPT ![c].at = "saving"], was.at # "idle",
             UNCHANGED <<dOpening, dFile, dTier, dMinted, dRestarts, dCipher, dLoad>>,
             dRows' \in Mirror!Table, Sealed(dRows')
      PROVE  DraftsInv'
  <2> DEFINE to == [was EXCEPT !.at = "saving"]
  <2>1. to \in DraftCall /\ to.at = "saving" /\ to.draft = was.draft /\ to.created = was.created
    BY <1>0 DEF DraftCall
  <2>2. dCall' = [dCall EXCEPT ![c] = to]
    BY <1>6, Zenon
  <2>3. QED
    BY <1>4, <1>6, <2>1, <2>2
<1>7. CASE Mirror!Write(c)
  <2>1. was.at = "keying" /\ dLoad[was.via].at = "ready" /\ was.draft \in Drafts
        /\ was.created \in Stamps /\ was.via \in Calls
        /\ UNCHANGED <<dOpening, dFile, dTier, dMinted, dRestarts, dCipher, dLoad>>
    BY <1>0, <1>7 DEF Mirror!Write
  <2>2. CASE dOpening = "open"
    <3> DEFINE fresh == [key |-> dLoad[was.via].key, created |-> was.created]
               row == Mirror!Upserted(dRows[was.draft], fresh)
    <3>1. dRows' = [dRows EXCEPT ![was.draft] = row] /\ dCall' = [dCall EXCEPT ![c].at = "saving"]
      BY <1>7, <2>2 DEF Mirror!Write, Mirror!Goes
    <3>2. dTier # 0 /\ fresh.key = dTier /\ fresh \in Mirror!Row
      BY <2>1 DEF DraftsInv, KeyIsStored, Mirror!TypeOK, Mirror!Row
    <3>3. row.key = dTier /\ row \in Mirror!Row
      BY <1>0, <2>1, <3>2 DEF Mirror!Upserted, Mirror!Row, Mirror!Table
    <3>4. dRows' \in Mirror!Table /\ Sealed(dRows')
      BY <1>0, <2>1, <3>1, <3>2, <3>3 DEF Mirror!Table, Sealed
    <3>5. QED
      BY <1>6, <2>1, <3>1, <3>4
  <2>3. CASE dOpening # "open"
    BY <1>2, <1>7, <2>3 DEF Mirror!Write, Mirror!Answer
  <2>4. QED
    BY <2>2, <2>3
<1>8. CASE Mirror!Delete(c)
  <2>1. was.at = "opening" /\ was.draft \in Drafts
        /\ UNCHANGED <<dOpening, dFile, dTier, dMinted, dRestarts, dCipher, dLoad>>
    BY <1>0, <1>8 DEF Mirror!Delete, Mirror!Ready
  <2>2. CASE dRows[was.draft] = None
    BY <1>2, <1>8, <2>2 DEF Mirror!Delete, Mirror!Answer
  <2>3. CASE dRows[was.draft] # None
    <3>1. dRows' = [dRows EXCEPT ![was.draft] = None] /\ dCall' = [dCall EXCEPT ![c].at = "saving"]
      BY <1>8, <2>3 DEF Mirror!Delete, Mirror!Goes
    <3>2. dRows' \in Mirror!Table /\ Sealed(dRows')
      BY <1>0, <2>1, <3>1 DEF Mirror!Table, Sealed
    <3>3. QED
      BY <1>6, <2>1, <3>1, <3>2
  <2>4. QED
    BY <2>2, <2>3
<1>9. CASE Mirror!ReadRow(c)
  <2> DEFINE row == dRows[was.draft]
             created == IF row = None THEN was.created ELSE row.created
             via == IF Mirror!MustLoad THEN c ELSE dCipher
             to == [was EXCEPT !.at = "keying", !.created = created, !.via = via]
  <2>1. /\ was.at = "opening" /\ was.draft \in Drafts /\ was.created \in Stamps
        /\ UNCHANGED <<dOpening, dRows, dFile, dTier, dMinted, dRestarts>>
        /\ dCall' = [dCall EXCEPT ![c].at = "keying",
                       ![c].created = IF row = None THEN @ ELSE row.created, ![c].via = via]
        /\ \/ UNCHANGED <<dCipher, dLoad>> /\ dCipher # None
           \/ dCipher = None /\ dCipher' = c /\ dLoad' = [dLoad EXCEPT ![c] = Resolving]
    BY <1>0, <1>9 DEF Mirror!ReadRow, Mirror!Ready, Mirror!MustLoad, Resolving
  <2>2. created \in Stamps /\ via \in Calls
    BY <1>0, <2>1 DEF Mirror!Table, Mirror!Row, Mirror!MustLoad, DraftsInv, Mirror!TypeOK
  <2>3. to \in DraftCall /\ to.at = "keying" /\ to.draft \in Drafts /\ to.created \in Stamps
        /\ to.via \in Calls
    BY <1>0, <2>1, <2>2 DEF DraftCall
  <2>4. dCall' = [dCall EXCEPT ![c] = to]
    BY <2>1, Zenon
  <2>5. /\ Sealed(dRows') /\ Sealed(dFile') /\ dRows' \in Mirror!Table /\ dFile' \in Mirror!Table
    BY <1>0, <2>1 DEF Sealed
  <2> HIDE DEF to
  <2>6. QED
    BY <1>0, <2>1, <2>3, <2>4, <2>5, OneCallMoves
<1>10. QED
  BY <1>1, <1>3, <1>5, <1>7, <1>8, <1>9

(* The load of the key: the tier has one, or the only load there is makes  *)
(* and stores one; before that nothing was sealed.                         *)
LEMMA StepOfTheKey ==
  ASSUME DraftsInv, NEW c \in Calls, Mirror!KeyStep(c)
  PROVE  DraftsInv'
<1> USE DEF DraftsInv
<1>1. /\ dLoad[c].at \in {"resolving", "putting"} /\ dCipher = c
      /\ UNCHANGED <<dOpening, dRows, dFile, dCipher, dCall, dRestarts>>
      /\ \A d \in Calls : d # c => dLoad[d].at = "none"
  BY DEF Mirror!KeyStep, Mirror!Resolve, Mirror!Put, Mirror!LoadFails, OneLoad
<1>2. dLoad[c] \in DraftLoad /\ dLoad \in [Calls -> DraftLoad]
  BY DEF Mirror!TypeOK, DraftLoad
<1>3. ASSUME NEW to \in DraftLoad, dLoad' = [dLoad EXCEPT ![c] = to],
             to.at \in {"putting", "ready", "failed"}, dTier' \in Mirror!Keys,
             dMinted' \in Mirror!Keys, dMinted' <= dRestarts + 1,
             to.at = "putting" => dTier' = 0 /\ to.key # 0,
             to.at = "ready" => dTier' # 0 /\ to.key = dTier',
             dTier' = dTier \/ dTier = 0
      PROVE  DraftsInv'
  <2>1. dLoad'[c] = to /\ \A d \in Calls : d # c => dLoad'[d] = dLoad[d]
    BY <1>2, <1>3
  <2>2. Mirror!TypeOK'
    BY <1>1, <1>2, <1>3 DEF Mirror!TypeOK, DraftLoad
  <2>3. OneLoad' /\ KeyIsStored' /\ MintedOnce'
    BY <1>1, <1>3, <2>1 DEF OneLoad, KeyIsStored, MintedOnce
  <2>4. Named'
    BY <1>1 DEF Named
  <2>5. AllSealed'
    BY <1>1, <1>3 DEF AllSealed, Sealed
  <2>6. QED
    BY <2>2, <2>3, <2>4, <2>5
<1>4. CASE Mirror!Resolve(c)
  <2>1. dMinted <= dRestarts /\ dMinted \in Mirror!Keys /\ dTier \in Mirror!Keys
        /\ dRestarts \in 0..MaxRestarts
    BY <1>1, <1>4 DEF Mirror!Resolve, MintedOnce, Mirror!TypeOK
  <2>2. CASE dTier # 0
    <3> DEFINE to == [at |-> "ready", key |-> dTier]
    <3>1. dLoad' = [dLoad EXCEPT ![c] = to] /\ dTier' = dTier /\ dMinted' = dMinted
      BY <1>4, <2>2 DEF Mirror!Resolve
    <3>2. to \in DraftLoad
      BY <2>1 DEF DraftLoad
    <3>3. dMinted' \in Mirror!Keys /\ dTier' \in Mirror!Keys /\ dMinted' <= dRestarts + 1
      BY <2>1, <3>1, NothingYet DEF Mirror!Keys
    <3>4. to.at = "ready" /\ to.key = dTier' /\ dTier' # 0
      BY <2>2, <3>1
    <3> HIDE DEF to
    <3>5. QED
      BY <1>3, <3>1, <3>2, <3>3, <3>4
  <2>3. CASE dTier = 0
    <3> DEFINE to == [at |-> "putting", key |-> dMinted + 1]
    <3>1. dLoad' = [dLoad EXCEPT ![c] = to] /\ dTier' = dTier /\ dMinted' = dMinted + 1
      BY <1>4, <2>3 DEF Mirror!Resolve
    <3>2. to \in DraftLoad /\ dMinted + 1 \in Mirror!Keys /\ dMinted + 1 # 0
          /\ dMinted + 1 <= dRestarts + 1
      BY <2>1, NothingYet DEF DraftLoad, Mirror!Keys
    <3>3. QED
      BY <1>3, <2>1, <2>3, <3>1, <3>2
  <2>4. QED
    BY <2>2, <2>3
<1>5. CASE Mirror!Put(c)
  <2> DEFINE to == [dLoad[c] EXCEPT !.at = "ready"]
  <2>1. dLoad[c].at = "putting" /\ dTier = 0 /\ dLoad[c].key # 0 /\ dLoad[c].key \in Mirror!Keys
    BY <1>2, <1>5 DEF Mirror!Put, KeyIsStored, DraftLoad
  <2>2. dLoad' = [dLoad EXCEPT ![c].at = "ready"] /\ dTier' = dLoad[c].key /\ dMinted' = dMinted
    BY <1>5 DEF Mirror!Put, Mirror!Stored
  <2>3. to \in DraftLoad /\ to.at = "ready" /\ to.key = dLoad[c].key
    BY <1>2 DEF DraftLoad
  <2>4. dLoad' = [dLoad EXCEPT ![c] = to]
    BY <2>2, Zenon
  <2>5. dMinted' \in Mirror!Keys /\ dMinted' <= dRestarts + 1
    BY <2>2 DEF MintedOnce, Mirror!TypeOK
  <2>6. QED
    BY <1>3, <2>1, <2>2, <2>3, <2>4, <2>5
<1>6. CASE Mirror!LoadFails(c)
  <2> DEFINE to == [dLoad[c] EXCEPT !.at = "failed"]
  <2>1. dLoad' = [dLoad EXCEPT ![c].at = "failed"] /\ dMinted' = dMinted
        /\ (dTier' = dTier \/ (dLoad[c].at = "putting" /\ dTier' = dLoad[c].key))
    BY <1>6 DEF Mirror!LoadFails
  <2>2. to \in DraftLoad /\ to.at = "failed"
    BY <1>2 DEF DraftLoad
  <2>3. dLoad' = [dLoad EXCEPT ![c] = to]
    BY <2>1, Zenon
  <2>4. dTier' \in Mirror!Keys /\ (dTier' = dTier \/ dTier = 0)
    BY <1>2, <2>1 DEF KeyIsStored, DraftLoad, Mirror!TypeOK
  <2>5. dMinted' \in Mirror!Keys /\ dMinted' <= dRestarts + 1
    BY <2>1 DEF MintedOnce, Mirror!TypeOK
  <2>6. QED
    BY <1>3, <2>2, <2>3, <2>4, <2>5
<1>7. QED
  BY <1>4, <1>5, <1>6 DEF Mirror!KeyStep

LEMMA StepDraftsInv ==
  ASSUME DraftsInv, Mirror!Next \/ UNCHANGED Mirror!vars
  PROVE  DraftsInv'
<1> USE DEF Mirror!keyVars
<1>1. ASSUME UNCHANGED <<dFile, dTier, dMinted, dCipher, dLoad, dCall, dRestarts>>,
             dOpening' \in {"none", "pending", "open", "rejected", "closed"},
             dRows' \in {dRows, dFile, Mirror!NoRows}
      PROVE  DraftsInv'
  <2>1. Mirror!TypeOK'
    BY <1>1, NothingYet DEF DraftsInv, Mirror!TypeOK
  <2>2. AllSealed'
    BY <1>1, NothingYet DEF DraftsInv, AllSealed, Sealed
  <2>3. OneLoad' /\ KeyIsStored' /\ MintedOnce' /\ Named'
    BY <1>1 DEF DraftsInv, OneLoad, KeyIsStored, MintedOnce, Named
  <2>4. QED
    BY <2>1, <2>2, <2>3 DEF DraftsInv
<1>2. CASE Mirror!Opens \/ Mirror!OpenFails \/ Mirror!Close \/ UNCHANGED Mirror!vars
  <2>1. UNCHANGED <<dFile, dTier, dMinted, dCipher, dLoad, dCall, dRestarts>>
        /\ dOpening' \in {"open", "rejected", "closed", dOpening}
        /\ dRows' \in {dRows, dFile, Mirror!NoRows}
    BY <1>2 DEF Mirror!Opens, Mirror!OpenFails, Mirror!Close, Mirror!vars
  <2>2. QED
    BY <1>1, <2>1 DEF DraftsInv, Mirror!TypeOK
<1>3. CASE Mirror!Restart
  <2>1. /\ dRestarts' = dRestarts + 1 /\ dRestarts < MaxRestarts /\ dOpening' = "none"
        /\ dRows' = Mirror!NoRows /\ dCipher' = None /\ UNCHANGED <<dFile, dTier, dMinted>>
        /\ dLoad' = [c \in Calls |-> Mirror!NoLoad] /\ dCall' = [c \in Calls |-> Mirror!Idle]
    BY <1>3 DEF Mirror!Restart
  <2>2. dLoad' \in [Calls -> DraftLoad] /\ dCall' \in [Calls -> DraftCall]
        /\ dRestarts' \in 0..MaxRestarts
    BY <2>1, NothingYet DEF DraftsInv, Mirror!TypeOK
  <2>3. Mirror!TypeOK'
    BY <2>1, <2>2, NothingYet DEF DraftsInv, Mirror!TypeOK, DraftLoad, DraftCall
  <2>4. OneLoad' /\ KeyIsStored' /\ Named' /\ AllSealed'
    BY <2>1, NothingYet DEF DraftsInv, OneLoad, KeyIsStored, Named, AllSealed, Sealed
  <2>5. MintedOnce'
    BY <2>1, NothingYet DEF DraftsInv, Mirror!TypeOK, MintedOnce, Mirror!Keys
  <2>6. QED
    BY <2>3, <2>4, <2>5 DEF DraftsInv
<1>4. ASSUME NEW c \in Calls, Mirror!Step(c) PROVE DraftsInv'
  BY <1>4, StepOfADraftCall DEF Mirror!Step
<1>5. QED
  BY <1>2, <1>3, <1>4, StepOfADraftCall, StepOfTheKey DEF Mirror!Next

LEMMA StepKeepsCreatedAt ==
  ASSUME DraftsInv, Mirror!Next, dOpening = "open", dOpening' = "open",
         NEW d \in Drafts, dRows[d] # None, dRows'[d] # None
  PROVE  dRows'[d].created = dRows[d].created
<1>1. CASE dRows' = dRows
  BY <1>1
<1>2. ASSUME NEW c \in Calls, Mirror!Write(c), dRows' # dRows
      PROVE  dRows'[d].created = dRows[d].created
  <2> DEFINE fresh == [key |-> dLoad[dCall[c].via].key, created |-> dCall[c].created]
  <2>1. dRows' = [dRows EXCEPT ![dCall[c].draft] = Mirror!Upserted(@, fresh)]
    BY <1>2 DEF Mirror!Write
  <2>2. dRows \in [Drafts -> Mirror!Row \cup {None}]
    BY DEF DraftsInv, Mirror!TypeOK, Mirror!Table
  <2>3. dRows'[d] = dRows[d] \/ dRows'[d] = [fresh EXCEPT !.created = dRows[d].created]
    BY <2>1, <2>2 DEF Mirror!Upserted
  <2>4. QED
    BY <2>3
<1>3. ASSUME NEW c \in Calls, Mirror!Delete(c), dRows' # dRows
      PROVE  dRows'[d].created = dRows[d].created
  <2>1. dRows' = [dRows EXCEPT ![dCall[c].draft] = None]
    BY <1>3 DEF Mirror!Delete
  <2>2. QED
    BY <2>1 DEF DraftsInv, Mirror!TypeOK, Mirror!Table
<1>4. QED
  <2>1. ASSUME NEW c \in Calls, Mirror!Step(c), dRows' # dRows
        PROVE  Mirror!Write(c) \/ Mirror!Delete(c)
    BY <2>1 DEF Mirror!Step, Mirror!InitRejected, Mirror!Refused, Mirror!Look, Mirror!KeyRejected,
                Mirror!ReadRow, Mirror!Export, Mirror!Rename, Mirror!SaveFails
  <2>2. QED
    BY <1>1, <1>2, <1>3, <2>1
       DEF Mirror!Next, Mirror!Invoke, Mirror!KeyStep, Mirror!Resolve, Mirror!Put, Mirror!LoadFails,
           Mirror!Opens, Mirror!OpenFails, Mirror!Close, Mirror!Restart

(* Every body, in memory, on file or on its way there, is sealed with the  *)
(* key on record (credentials.ts, drafts/draft-store.ts).                  *)
THEOREM DraftsAreSealed == Spec => []DraftsInv
<1>1. Init => DraftsInv
  BY InitDraftsInv DEF Init
<1>2. DraftsInv /\ [Next]_vars => DraftsInv'
  BY EachFamilySteps, StepDraftsInv
<1>3. QED
  BY <1>1, <1>2, PTL DEF Spec

(* Every body stays readable under the key a later process finds, and a    *)
(* draft keeps its createdAt, however saves, deletes, failed loads and     *)
(* restarts interleave (drafts/draft-store.ts, credentials.ts).            *)
THEOREM DraftsStayKept == Spec => DraftsAreKept
<1>1. DraftsInv => Mirror!BodiesReadable
  BY DEF DraftsInv, AllSealed, Sealed, Mirror!BodiesReadable, Mirror!Readable
<1>2. DraftsInv /\ [Next]_vars =>
        [dOpening = "open" /\ dOpening' = "open" =>
           \A d \in Drafts : dRows[d] # None /\ dRows'[d] # None
              => dRows'[d].created = dRows[d].created]_(Mirror!vars)
  BY EachFamilySteps, StepKeepsCreatedAt
<1>3. QED
  BY <1>1, <1>2, DraftsAreSealed, PTL DEF Spec, DraftsAreKept, Mirror!CreatedAtStays

-----------------------------------------------------------------------------
(* Routing.  A table holds one assignment of each channel.                 *)
OnePerChannel(table) == \A r, q \in table : Routing!SameChannel(r, q) => r = q

RoutesInv == Routing!TypeOK /\ OnePerChannel(rRoutes) /\ OnePerChannel(rOnFile)

RoutingCall == [at: {"idle", "saving"}, id: 0..MaxAssigned]

LEMMA RoutingIdle ==
  MaxAssigned \in Nat /\ Routing!Idle \in RoutingCall /\ \A id \in 1..MaxAssigned :
    [at |-> "saving", id |-> id] \in RoutingCall
BY HandlersAssumption DEF Routing!Idle, RoutingCall

(* Two channel ids are the same only when surface and route are.           *)
LEMMA ChannelsAreTold ==
  ASSUME NEW s1, NEW r1, NEW s2, NEW r2,
         Routing!BuildChannelId(s1, r1) = Routing!BuildChannelId(s2, r2)
  PROVE  s1 = s2 /\ r1 = r2
<1>1. Len(<<s1>>) = 1 /\ Len(<<s2>>) = 1 /\ Len(<<s1, r1>>) = 2 /\ Len(<<s2, r2>>) = 2
      /\ <<s1>>[1] = s1 /\ <<s2>>[1] = s2 /\ <<s1, r1>>[1] = s1 /\ <<s2, r2>>[1] = s2
      /\ <<s1, r1>>[2] = r1 /\ <<s2, r2>>[2] = r2
  OBVIOUS
<1>2. CASE r1 = None
  BY <1>1, <1>2 DEF Routing!BuildChannelId
<1>3. CASE r1 # None
  BY <1>1, <1>3 DEF Routing!BuildChannelId
<1>4. QED
  BY <1>2, <1>3

LEMMA ChannelParts ==
  ASSUME NEW channelId \in Routing!ChannelIds, ~Routing!Refused(channelId)
  PROVE  channelId[1] \in Surfaces /\ Routing!RouteOf(channelId) \in RouteIds \cup {None}
<1>1. CASE channelId \in {<<s>> : s \in Surfaces \cup {Blank}}
  <2>1. PICK s \in Surfaces \cup {Blank} : channelId = <<s>>
    BY <1>1
  <2>2. Len(channelId) = 1 /\ channelId[1] = s
    BY <2>1
  <2>3. QED
    BY <2>2 DEF Routing!Refused, Routing!RouteOf
<1>2. CASE channelId \in {<<s, r>> : s \in Surfaces, r \in RouteIds \cup {Blank}}
  <2>1. PICK s \in Surfaces, r \in RouteIds \cup {Blank} : channelId = <<s, r>>
    BY <1>2
  <2>2. channelId[1] = s /\ channelId[2] = r /\ Len(channelId) # 1
    BY <2>1
  <2>3. QED
    BY <2>2 DEF Routing!RouteOf
<1>3. QED
  BY <1>1, <1>2 DEF Routing!ChannelIds

LEMMA InitRoutesInv == Routing!Init => RoutesInv
<1> SUFFICES ASSUME Routing!Init PROVE RoutesInv
  OBVIOUS
<1>1. rCall \in [Callers -> RoutingCall]
  BY RoutingIdle DEF Routing!Init
<1>2. QED
  BY <1>1, RoutingIdle DEF Routing!Init, RoutesInv, Routing!TypeOK, OnePerChannel, RoutingCall

(* An assign changes the profile of the channel's assignment, or adds one  *)
(* of a channel that has none.                                             *)
LEMMA AssignIsOfOneChannel ==
  ASSUME RoutesInv, NEW c \in Callers, NEW channelId \in Routing!ChannelIds,
         NEW profile \in Profiles, Routing!Assign(c, channelId, profile)
  PROVE  \E new \in Routing!Routes, old \in SUBSET rRoutes :
           /\ rRoutes' = (rRoutes \ old) \cup {new}
           /\ \A r \in rRoutes : Routing!SameChannel(r, new) => r \in old
           /\ \A r \in old : Routing!SameChannel(r, new) /\ r.id = new.id
           /\ rNextId' \in 1..(MaxAssigned + 1)
           /\ rCall' = [rCall EXCEPT ![c] = [at |-> "saving", id |-> new.id]]
           /\ UNCHANGED <<rOpening, rOnFile>>
<1> DEFINE surface == channelId[1]
           route == Routing!RouteOf(channelId)
           existing == {r \in rRoutes : Routing!BuildChannelId(r.surface, r.route)
                                          = Routing!BuildChannelId(surface, route)}
<1>1. surface \in Surfaces /\ route \in RouteIds \cup {None}
  BY ChannelParts DEF Routing!Assign
<1>2. existing = {r \in rRoutes : r.surface = surface /\ r.route = route}
  BY ChannelsAreTold
<1>3. rRoutes \in SUBSET Routing!Routes /\ rNextId \in 1..(MaxAssigned + 1) /\ MaxAssigned \in Nat
  BY RoutingIdle DEF RoutesInv, Routing!TypeOK
<1>4. CASE existing # {}
  <2>1. PICK r \in existing :
               /\ rRoutes' = (rRoutes \ {r}) \cup {Routing!Updated(r, profile)}
               /\ Routing!Saving(c, Routing!Updated(r, profile).id)
               /\ rNextId' = IF Routing!Updated(r, profile).id = r.id THEN rNextId ELSE rNextId + 1
    BY <1>4 DEF Routing!Assign
  <2> DEFINE new == Routing!Updated(r, profile)
  <2>2. r \in Routing!Routes /\ r \in rRoutes /\ r.surface = surface /\ r.route = route
    BY <1>2, <1>3
  <2>3. new \in Routing!Routes /\ new.surface = surface /\ new.route = route /\ new.id = r.id
    BY <2>2 DEF Routing!Updated, Routing!Routes
  <2>4. \A q \in rRoutes : Routing!SameChannel(q, new) => q = r
    BY <2>2, <2>3 DEF RoutesInv, OnePerChannel, Routing!SameChannel
  <2>5. /\ rNextId' = rNextId
        /\ rCall' = [rCall EXCEPT ![c] = [at |-> "saving", id |-> new.id]]
        /\ UNCHANGED <<rOpening, rOnFile>> /\ rRoutes' = (rRoutes \ {r}) \cup {new}
    BY <2>1, <2>3 DEF Routing!Assign, Routing!Saving
  <2> HIDE DEF new
  <2>6. \A q \in {r} : Routing!SameChannel(q, new) /\ q.id = new.id
    BY <2>2, <2>3 DEF Routing!SameChannel
  <2>7. {r} \in SUBSET rRoutes
    BY <2>2
  <2>8. \A q \in rRoutes : Routing!SameChannel(q, new) => q \in {r}
    BY <2>4
  <2>9. rNextId' \in 1..(MaxAssigned + 1)
    BY <1>3, <2>5
  <2>10. QED
    BY <2>3, <2>5, <2>6, <2>7, <2>8, <2>9
<1>5. CASE existing = {}
  <2> DEFINE new == [id |-> rNextId, surface |-> surface, route |-> route, profile |-> profile]
  <2>1. /\ rNextId <= MaxAssigned /\ rRoutes' = rRoutes \cup {new}
        /\ Routing!Saving(c, rNextId) /\ rNextId' = rNextId + 1 /\ UNCHANGED <<rOpening, rOnFile>>
    BY <1>5 DEF Routing!Assign
  <2>2. new \in Routing!Routes
    BY <1>1, <1>3, <2>1 DEF Routing!Routes
  <2>3. \A r \in rRoutes : ~Routing!SameChannel(r, new)
    BY <1>2, <1>5 DEF Routing!SameChannel
  <2>4. rCall' = [rCall EXCEPT ![c] = [at |-> "saving", id |-> new.id]]
    BY <2>1 DEF Routing!Saving
  <2>5. rNextId' \in 1..(MaxAssigned + 1) /\ rRoutes' = (rRoutes \ {}) \cup {new}
    BY <1>3, <2>1
  <2> HIDE DEF new
  <2>6. {} \in SUBSET rRoutes /\ UNCHANGED <<rOpening, rOnFile>>
    BY <2>1
  <2>7. QED
    BY <2>2, <2>3, <2>4, <2>5, <2>6
<1>6. QED
  BY <1>4, <1>5

LEMMA StepRoutesInv ==
  ASSUME RoutesInv, Routing!Next \/ UNCHANGED Routing!vars
  PROVE  RoutesInv'
<1>0. /\ rRoutes \in SUBSET Routing!Routes /\ rOnFile \in SUBSET Routing!Routes
      /\ rCall \in [Callers -> RoutingCall]
  BY DEF RoutesInv, Routing!TypeOK, RoutingCall
<1>1. ASSUME NEW c \in Callers, NEW channelId \in Routing!ChannelIds, NEW profile \in Profiles,
             Routing!Assign(c, channelId, profile)
      PROVE  RoutesInv'
  <2>1. PICK new \in Routing!Routes, old \in SUBSET rRoutes :
           /\ rRoutes' = (rRoutes \ old) \cup {new}
           /\ \A r \in rRoutes : Routing!SameChannel(r, new) => r \in old
           /\ \A r \in old : Routing!SameChannel(r, new) /\ r.id = new.id
           /\ rNextId' \in 1..(MaxAssigned + 1)
           /\ rCall' = [rCall EXCEPT ![c] = [at |-> "saving", id |-> new.id]]
           /\ UNCHANGED <<rOpening, rOnFile>>
    BY <1>1, AssignIsOfOneChannel
  <2>2. [at |-> "saving", id |-> new.id] \in RoutingCall
    BY RoutingIdle DEF Routing!Routes
  <2>3. rCall' \in [Callers -> RoutingCall]
    BY <1>0, <2>1, <2>2
  <2>4. OnePerChannel(rRoutes')
    BY <2>1 DEF RoutesInv, OnePerChannel, Routing!SameChannel
  <2>5. rRoutes' \in SUBSET Routing!Routes
    BY <1>0, <2>1
  <2>6. QED
    BY <2>1, <2>3, <2>4, <2>5 DEF RoutesInv, Routing!TypeOK, OnePerChannel, RoutingCall
<1>2. ASSUME NEW c \in Callers, NEW id \in 1..MaxAssigned, Routing!Delete(c, id)
      PROVE  RoutesInv'
  <2>1. rCall' \in [Callers -> RoutingCall]
    BY <1>0, <1>2, RoutingIdle DEF Routing!Delete, Routing!Saving
  <2>2. QED
    BY <1>2, <2>1 DEF Routing!Delete, RoutesInv, Routing!TypeOK, OnePerChannel, RoutingCall
<1>3. ASSUME NEW c \in Callers, Routing!Settles(c)
      PROVE  RoutesInv'
  <2>1. rCall' \in [Callers -> RoutingCall]
    BY <1>0, <1>3, RoutingIdle DEF Routing!Settles
  <2>2. QED
    BY <1>3, <2>1 DEF Routing!Settles, RoutesInv, Routing!TypeOK, OnePerChannel, RoutingCall
<1>4. CASE Routing!Close \/ Routing!Restart
  <2>1. rCall' \in [Callers -> RoutingCall]
    BY <1>4, RoutingIdle DEF Routing!Close, Routing!Restart
  <2>2. rOnFile' \in {rOnFile, rRoutes}
    BY <1>4 DEF Routing!Close, Routing!Restart, Routing!InFlightLands
  <2>3. OnePerChannel(rOnFile') /\ rOnFile' \in SUBSET Routing!Routes
    BY <1>0, <2>2 DEF RoutesInv
  <2>4. QED
    BY <1>4, <2>1, <2>3
       DEF Routing!Close, Routing!Restart, RoutesInv, Routing!TypeOK, OnePerChannel, RoutingCall
<1>5. CASE Routing!Invoke \/ Routing!Opens \/ UNCHANGED Routing!vars
  BY <1>5 DEF Routing!Invoke, Routing!Opens, Routing!vars, RoutesInv, Routing!TypeOK, OnePerChannel
<1>6. QED
  BY <1>1, <1>2, <1>3, <1>4, <1>5 DEF Routing!Next

(* The assignment that says most about a channel is the one of the first   *)
(* rule that matches.                                                      *)
LEMMA OneMatchDecides ==
  ASSUME NEW rows, NEW r \in rows, rows = {r}
  PROVE  Routing!AProfile(rows) = r.profile
BY DEF Routing!AProfile

LEMMA MostSpecificDecides ==
  ASSUME RoutesInv, NEW surface \in Surfaces, NEW route \in RouteIds \cup {None}
  PROVE  {r.profile : r \in Routing!MostSpecific(surface, route)} =
           {Routing!ResolveProfile(surface, route)} \ {None}
<1> DEFINE exact == {r \in rRoutes : Routing!Exact(r, surface, route)}
           surfaceOnly == {r \in rRoutes : Routing!SurfaceOnly(r, surface)}
           wildcard == {r \in rRoutes : Routing!Wildcard(r)}
           most == Routing!MostSpecific(surface, route)
           covering == Routing!Covering(surface, route)
<1>1. \A rows : rows \in {exact, surfaceOnly, wildcard} => \A r \in rows : rows = {r}
  BY DEF RoutesInv, OnePerChannel, Routing!SameChannel, Routing!Exact, Routing!SurfaceOnly,
         Routing!Wildcard
<1>2. covering = exact \cup surfaceOnly \cup wildcard
  BY DEF Routing!Covering, Routing!Exact, Routing!SurfaceOnly, Routing!Wildcard
<1>3. /\ \A r \in exact : Routing!Weight(r) = IF surface # Any THEN 3 ELSE 2
      /\ \A r \in surfaceOnly : Routing!Weight(r) = IF surface # Any THEN 1 ELSE 0
      /\ \A r \in wildcard : Routing!Weight(r) = 0
      /\ surface = Any => surfaceOnly = wildcard
  BY DEF Routing!Weight, Routing!Exact, Routing!SurfaceOnly, Routing!Wildcard
<1>4. most = IF exact # {} THEN exact ELSE IF surfaceOnly # {} THEN surfaceOnly ELSE wildcard
  <2> HIDE DEF exact, surfaceOnly, wildcard
  <2>1. most = {r \in covering : \A q \in covering : Routing!Weight(q) <= Routing!Weight(r)}
    BY DEF Routing!MostSpecific
  <2>2. CASE exact # {}
    BY <1>2, <1>3, <2>1, <2>2
  <2>3. CASE exact = {} /\ surfaceOnly # {}
    BY <1>2, <1>3, <2>1, <2>3
  <2>4. CASE exact = {} /\ surfaceOnly = {}
    BY <1>2, <1>3, <2>1, <2>4
  <2>5. QED
    BY <2>2, <2>3, <2>4
<1>5. Routing!ResolveProfile(surface, route) =
        IF exact # {} THEN Routing!AProfile(exact)
        ELSE IF surfaceOnly # {} THEN Routing!AProfile(surfaceOnly)
        ELSE IF wildcard # {} THEN Routing!AProfile(wildcard) ELSE None
  BY DEF Routing!ResolveProfile
<1>6. \A r \in rRoutes : r.profile # None
  BY HandlersAssumption DEF RoutesInv, Routing!TypeOK, Routing!Routes
<1>7. most = {} => Routing!ResolveProfile(surface, route) = None
  BY <1>4, <1>5
<1>8. ASSUME NEW r \in most
      PROVE  most = {r} /\ Routing!ResolveProfile(surface, route) = r.profile /\ r \in rRoutes
  <2>1. most \in {exact, surfaceOnly, wildcard} /\ most # {}
    BY <1>4, <1>8
  <2>2. most = {r}
    BY <1>1, <1>8, <2>1
  <2>3. Routing!ResolveProfile(surface, route) = Routing!AProfile(most)
    BY <1>4, <1>5, <2>1
  <2>4. most \subseteq rRoutes
    BY <2>1
  <2>5. QED
    BY <1>8, <2>2, <2>3, <2>4, OneMatchDecides
<1>9. QED
  <2> DEFINE named == {r.profile : r \in most}
             resolved == Routing!ResolveProfile(surface, route)
  <2> HIDE DEF most, resolved
  <2>1. CASE most = {}
    <3>1. named = {} /\ resolved = None
      BY <1>7, <2>1 DEF resolved
    <3>2. QED
      BY <3>1 DEF most, resolved
  <2>2. CASE most # {}
    <3>1. PICK r \in most : TRUE
      BY <2>2
    <3>2. most = {r} /\ resolved = r.profile /\ r.profile # None
      BY <1>6, <1>8 DEF resolved
    <3>3. named = {r.profile}
      BY <3>2
    <3>4. QED
      BY <3>2, <3>3 DEF most, resolved
  <2>3. QED
    BY <2>1, <2>2

LEMMA StepKeepsIds ==
  ASSUME RoutesInv, Routing!Next, rOpening = "open", rOpening' = "open",
         NEW r \in rRoutes, NEW q \in rRoutes', Routing!SameChannel(r, q)
  PROVE  r.id = q.id
<1>1. \A p \in rRoutes : Routing!SameChannel(r, p) => p = r
  BY DEF RoutesInv, OnePerChannel
<1>2. ASSUME NEW c \in Callers, NEW channelId \in Routing!ChannelIds, NEW profile \in Profiles,
             Routing!Assign(c, channelId, profile)
      PROVE  r.id = q.id
  <2>1. PICK new \in Routing!Routes, old \in SUBSET rRoutes :
           /\ rRoutes' = (rRoutes \ old) \cup {new}
           /\ \A p \in rRoutes : Routing!SameChannel(p, new) => p \in old
           /\ \A p \in old : Routing!SameChannel(p, new) /\ p.id = new.id
    BY <1>2, AssignIsOfOneChannel
  <2>2. QED
    BY <1>1, <2>1
<1>3. QED
  BY <1>1, <1>2 DEF Routing!Next, Routing!Invoke, Routing!Opens, Routing!Close, Routing!Restart,
                    Routing!Delete, Routing!Settles

(* An inbound message gets the profile of the most specific assignment,    *)
(* whatever was assigned, deleted and loaded, and an assignment keeps its  *)
(* id until it is deleted (routing-resolver.ts:7-16, route-store.ts:262).  *)
THEOREM RoutesStayKept == Spec => RoutesAreKept
<1>1. Init => RoutesInv
  BY InitRoutesInv DEF Init
<1>2. RoutesInv /\ [Next]_vars => RoutesInv'
  BY EachFamilySteps, StepRoutesInv
<1>3. RoutesInv => Routing!ResolvesMostSpecific
  BY MostSpecificDecides DEF Routing!ResolvesMostSpecific
<1>4. RoutesInv /\ [Next]_vars =>
        [rOpening = "open" /\ rOpening' = "open" =>
           \A r \in rRoutes, q \in rRoutes' : Routing!SameChannel(r, q) => r.id = q.id]_(Routing!vars)
  BY EachFamilySteps, StepKeepsIds
<1>5. QED
  BY <1>1, <1>2, <1>3, <1>4, PTL DEF Spec, RoutesAreKept, Routing!IdsAreStable

-----------------------------------------------------------------------------
(* Tags.  A call under way was confirmed, has tags left to apply, and is   *)
(* at a step of its surface's own protocol.                                *)
TagCall == [at : {"idle", "credential", "imap", "reading", "writing", "reacting"},
            surface : TagsOf!TagSurfaces, confirmed : BOOLEAN, left : SUBSET Tags,
            done : SUBSET Tags, seen : SUBSET (Tags \cup {Foreign}),
            answer : {"none", "skipped", "refused", "failed", "applied"}]
TagConnection == [phase : TagsOf!Phases, completed : BOOLEAN, attempt : 0..MaxAttempts]
TagMarks == [TagsOf!TagSurfaces -> SUBSET (Tags \cup {Foreign})]

OnItsWay(record) ==
  record.at # "idle" =>
    /\ record.confirmed /\ record.left # {} /\ record.surface # "other"
    /\ record.at = "imap" => record.surface = "imap"
    /\ record.at = "reacting" => record.surface \in {"slack", "discord"}
    /\ record.at \in {"reading", "writing"} => record.surface = "thread"
DoneIsThere(record, table) == record.surface # "thread" => record.done \subseteq table[record.surface]
(* Once the store was acknowledged its flag is on the message.             *)
StoreIsThere(record, connection, table) ==
  record.at = "imap" /\ (connection.phase = "logout" \/ connection.completed) =>
    (CHOOSE tag \in record.left : TRUE) \in table["imap"]

TagsInv ==
  /\ TagsOf!TypeOK
  /\ \A c \in Calls : /\ OnItsWay(tCall[c])
                      /\ DoneIsThere(tCall[c], tMarks)
                      /\ StoreIsThere(tCall[c], tImap[c], tMarks)

LEMMA NoTagsYet ==
  /\ TagsOf!Idle \in TagCall /\ TagsOf!Idle.at = "idle" /\ TagsOf!Idle.done = {}
  /\ TagsOf!NoConnection \in TagConnection /\ ~TagsOf!NoConnection.completed
  /\ TagsOf!NoConnection.phase = "greeting"
  /\ [TagsOf!NoConnection EXCEPT !.attempt = 1] \in TagConnection
<1>1. TagsOf!Idle \in TagCall /\ TagsOf!Idle.at = "idle" /\ TagsOf!Idle.done = {}
  BY DEF TagsOf!Idle, TagCall, TagsOf!TagSurfaces
<1>2. 0 \in 0..MaxAttempts /\ 1 \in 0..MaxAttempts
  BY HandlersAssumption
<1>3. QED
  BY <1>1, <1>2 DEF TagsOf!NoConnection, TagConnection, TagsOf!Phases

LEMMA TagsTyped ==
  TagsOf!TypeOK <=> /\ tMarks \in TagMarks /\ tCall \in [Calls -> TagCall]
                    /\ tImap \in [Calls -> TagConnection]
BY DEF TagsOf!TypeOK, TagMarks, TagCall, TagConnection

LEMMA InitTagsInv == TagsOf!Init => TagsInv
<1> SUFFICES ASSUME TagsOf!Init PROVE TagsInv
  OBVIOUS
<1>1. tMarks \in TagMarks
  BY DEF TagsOf!Init, TagMarks
<1>2. tCall \in [Calls -> TagCall] /\ tImap \in [Calls -> TagConnection]
  BY NoTagsYet DEF TagsOf!Init
<1>3. \A c \in Calls : tCall[c] = TagsOf!Idle
  BY DEF TagsOf!Init
<1>4. QED
  BY <1>1, <1>2, <1>3, NoTagsYet, TagsTyped DEF TagsInv, OnItsWay, DoneIsThere, StoreIsThere

(* A step of one call takes no flag or reaction off.                       *)
LEMMA OneTaggingMoves ==
  ASSUME TagsInv, NEW c \in Calls, NEW to \in TagCall, NEW connection \in TagConnection,
         tCall' = [tCall EXCEPT ![c] = to], tImap' = [tImap EXCEPT ![c] = connection],
         tMarks' \in TagMarks,
         \A s \in TagsOf!TagSurfaces \ {"thread"} : tMarks[s] \subseteq tMarks'[s],
         OnItsWay(to), DoneIsThere(to, tMarks'), StoreIsThere(to, connection, tMarks')
  PROVE  TagsInv'
<1>1. /\ tCall \in [Calls -> TagCall] /\ tImap \in [Calls -> TagConnection]
      /\ tMarks \in TagMarks
  BY TagsTyped DEF TagsInv
<1>2. /\ tCall' \in [Calls -> TagCall] /\ tImap' \in [Calls -> TagConnection]
      /\ tCall'[c] = to /\ tImap'[c] = connection
      /\ \A d \in Calls : d # c => tCall'[d] = tCall[d] /\ tImap'[d] = tImap[d]
  BY <1>1
<1>3. TagsOf!TypeOK'
  BY <1>2 DEF TagsOf!TypeOK, TagMarks, TagCall, TagConnection
<1>4. ASSUME NEW d \in Calls
      PROVE  OnItsWay(tCall'[d]) /\ DoneIsThere(tCall'[d], tMarks')
             /\ StoreIsThere(tCall'[d], tImap'[d], tMarks')
  <2>1. CASE d = c
    BY <1>2, <2>1
  <2>2. CASE d # c
    <3>1. /\ OnItsWay(tCall[d]) /\ DoneIsThere(tCall[d], tMarks)
          /\ StoreIsThere(tCall[d], tImap[d], tMarks)
          /\ tCall[d] \in TagCall /\ tCall'[d] = tCall[d] /\ tImap'[d] = tImap[d]
      BY <1>1, <1>2, <2>2 DEF TagsInv
    <3>2. tCall[d].surface \in TagsOf!TagSurfaces /\ "imap" \in TagsOf!TagSurfaces \ {"thread"}
      BY <3>1 DEF TagCall, TagsOf!TagSurfaces
    <3>3. DoneIsThere(tCall[d], tMarks')
      BY <3>1, <3>2 DEF DoneIsThere
    <3>4. StoreIsThere(tCall[d], tImap[d], tMarks')
      BY <3>1, <3>2 DEF StoreIsThere
    <3>5. QED
      BY <3>1, <3>3, <3>4
  <2>3. QED
    BY <2>1, <2>2
<1>5. QED
  BY <1>3, <1>4 DEF TagsInv

(* A step that changes no marks.                                           *)
LEMMA OneTaggingMovesAlone ==
  ASSUME TagsInv, NEW c \in Calls, NEW to \in TagCall, NEW connection \in TagConnection,
         tCall' = [tCall EXCEPT ![c] = to], tImap' = [tImap EXCEPT ![c] = connection],
         tMarks' = tMarks, OnItsWay(to), DoneIsThere(to, tMarks), StoreIsThere(to, connection, tMarks)
  PROVE  TagsInv'
<1>1. tMarks \in TagMarks
  BY TagsTyped DEF TagsInv
<1>2. QED
  BY <1>1, OneTaggingMoves

LEMMA StepTagsInv ==
  ASSUME TagsInv, TagsOf!Next \/ UNCHANGED TagsOf!vars
  PROVE  TagsInv'
<1>0. /\ tCall \in [Calls -> TagCall] /\ tImap \in [Calls -> TagConnection]
      /\ tMarks \in TagMarks
  BY TagsTyped DEF TagsInv
<1>a. ASSUME NEW c \in Calls
      PROVE  /\ tCall[c] \in TagCall /\ tImap[c] \in TagConnection
             /\ tCall[c].surface \in TagsOf!TagSurfaces
             /\ tImap = [tImap EXCEPT ![c] = tImap[c]] /\ tCall = [tCall EXCEPT ![c] = tCall[c]]
             /\ OnItsWay(tCall[c]) /\ DoneIsThere(tCall[c], tMarks)
             /\ StoreIsThere(tCall[c], tImap[c], tMarks)
             /\ tCall[c].at # "idle" => TagsOf!Tag(c) \in tCall[c].left /\ TagsOf!Tag(c) \in Tags
  <2>1. tCall[c] \in TagCall
    BY <1>0
  <2>2. QED
    BY <1>0, <2>1 DEF TagsInv, TagCall, TagsOf!Tag, OnItsWay
(* A call is answered, perhaps after a mark was added.                     *)
<1>b. ASSUME NEW c \in Calls, NEW answer \in {"skipped", "refused", "failed"},
             TagsOf!Answer(c, answer), tImap' = tImap, tMarks' \in TagMarks,
             \A s \in TagsOf!TagSurfaces \ {"thread"} : tMarks[s] \subseteq tMarks'[s]
      PROVE  TagsInv'
  <2> DEFINE to == [tCall[c] EXCEPT !.at = "idle", !.answer = answer]
  <2>1. tCall' = [tCall EXCEPT ![c] = to]
    BY <1>b, Zenon DEF TagsOf!Answer
  <2>2. to \in TagCall /\ to.at = "idle" /\ to.surface = tCall[c].surface /\ to.done = tCall[c].done
    BY <1>a DEF TagCall
  <2>3. OnItsWay(to) /\ DoneIsThere(to, tMarks') /\ StoreIsThere(to, tImap[c], tMarks')
    BY <1>a, <1>b, <2>2 DEF OnItsWay, DoneIsThere, StoreIsThere
  <2> HIDE DEF to
  <2>4. tImap' = [tImap EXCEPT ![c] = tImap[c]] /\ tImap[c] \in TagConnection
    BY <1>a, <1>b
  <2>5. QED
    BY <1>b, <2>1, <2>2, <2>3, <2>4, OneTaggingMoves
(* Tags that are there by now count as applied.                            *)
<1>c. ASSUME NEW c \in Calls, NEW tags \in SUBSET tCall[c].left, tCall[c].at # "idle",
             TagsOf!Applied(c, tags), NEW connection \in TagConnection,
             tImap' = [tImap EXCEPT ![c] = connection], tMarks' \in TagMarks,
             \A s \in TagsOf!TagSurfaces \ {"thread"} : tMarks[s] \subseteq tMarks'[s],
             tCall[c].surface # "thread" => tags \subseteq tMarks'[tCall[c].surface],
             tCall[c].at = "imap" => connection.phase = "greeting" /\ ~connection.completed
      PROVE  TagsInv'
  <2> DEFINE left == tCall[c].left \ tags
             to == [tCall[c] EXCEPT !.left = left, !.done = tCall[c].done \cup tags,
                                    !.at = IF left = {} THEN "idle" ELSE tCall[c].at,
                                    !.answer = IF left = {} THEN "applied" ELSE tCall[c].answer]
  <2>1. tCall' = [tCall EXCEPT ![c] = to]
    BY <1>c, Zenon DEF TagsOf!Applied
  <2>2. /\ to \in TagCall /\ to.surface = tCall[c].surface /\ to.done = tCall[c].done \cup tags
        /\ to.confirmed = tCall[c].confirmed /\ to.left = left
        /\ to.at = (IF left = {} THEN "idle" ELSE tCall[c].at)
    BY <1>a, <1>c DEF TagCall
  <2>3. OnItsWay(to)
    BY <1>a, <2>2 DEF OnItsWay
  <2>4. DoneIsThere(to, tMarks')
    BY <1>a, <1>c, <2>2 DEF DoneIsThere
  <2>5. StoreIsThere(to, connection, tMarks')
    BY <1>c, <2>2 DEF StoreIsThere
  <2> HIDE DEF to
  <2>6. QED
    BY <1>c, <2>1, <2>2, <2>3, <2>4, <2>5, OneTaggingMoves
(* Adding its tag to the marks of a call's surface.                        *)
<1>d. ASSUME NEW c \in Calls, tCall[c].at # "idle",
             NEW s \in TagsOf!TagSurfaces, tMarks' = [tMarks EXCEPT ![s] = @ \cup {TagsOf!Tag(c)}]
      PROVE  /\ tMarks' \in TagMarks /\ TagsOf!Tag(c) \in tMarks'[s]
             /\ \A o \in TagsOf!TagSurfaces \ {"thread"} : tMarks[o] \subseteq tMarks'[o]
  BY <1>0, <1>a, <1>d DEF TagMarks
<1>e. ASSUME NEW c \in Calls, tCall[c].at # "idle",
             tMarks' = [tMarks EXCEPT !["thread"] = tCall[c].seen \cup tCall[c].left]
      PROVE  /\ tMarks' \in TagMarks
             /\ \A o \in TagsOf!TagSurfaces \ {"thread"} : tMarks[o] \subseteq tMarks'[o]
  <2>1. tCall[c].seen \cup tCall[c].left \in SUBSET (Tags \cup {Foreign})
    BY <1>a DEF TagCall
  <2>2. QED
    BY <1>0, <1>e, <2>1 DEF TagMarks
<1>1. ASSUME NEW c \in Calls, NEW s \in TagsOf!TagSurfaces, NEW tags \in SUBSET Tags,
             NEW enabled \in BOOLEAN, NEW confirmed \in BOOLEAN,
             TagsOf!Apply(c, s, tags, enabled, confirmed)
      PROVE  TagsInv'
  <2> DEFINE asked == [TagsOf!Idle EXCEPT !.surface = s, !.confirmed = confirmed, !.left = tags]
             answer == IF ~enabled THEN "skipped" ELSE IF TagsOf!Refuses(confirmed) THEN "refused"
                       ELSE IF s = "other" \/ tags = {} THEN "skipped" ELSE "none"
             to == IF answer = "none" THEN [asked EXCEPT !.at = "credential"]
                   ELSE [TagsOf!Idle EXCEPT !.answer = answer]
  <2>1. tCall' = [tCall EXCEPT ![c] = to]
        /\ tImap' = [tImap EXCEPT ![c] = TagsOf!NoConnection] /\ tMarks' = tMarks
    BY <1>1, Zenon DEF TagsOf!Apply
  <2>2. /\ to \in TagCall /\ to.done = {} /\ to.at \in {"idle", "credential"}
        /\ OnItsWay(to)
    <3>1. CASE answer = "none"
      <4>1. to = [asked EXCEPT !.at = "credential"] /\ confirmed /\ s # "other" /\ tags # {}
        BY <3>1 DEF TagsOf!Refuses
      <4>2. to \in TagCall /\ to.done = {} /\ to.at = "credential" /\ to.confirmed
            /\ to.left # {} /\ to.surface # "other"
        BY <4>1, NoTagsYet DEF TagCall
      <4> HIDE DEF to
      <4>3. QED
        BY <4>2 DEF OnItsWay
    <3>2. CASE answer # "none"
      <4>1. to = [TagsOf!Idle EXCEPT !.answer = answer] /\ answer \in {"skipped", "refused"}
        BY <3>2
      <4>2. to \in TagCall /\ to.done = {} /\ to.at = "idle"
        BY <4>1, NoTagsYet DEF TagCall
      <4> HIDE DEF to
      <4>3. QED
        BY <4>2 DEF OnItsWay
    <3>3. QED
      BY <3>1, <3>2
  <2>3. DoneIsThere(to, tMarks) /\ StoreIsThere(to, TagsOf!NoConnection, tMarks)
    BY <2>2 DEF DoneIsThere, StoreIsThere
  <2> HIDE DEF to
  <2>4. QED
    BY <2>1, <2>2, <2>3, NoTagsYet, OneTaggingMovesAlone
<1>2. ASSUME NEW c \in Calls, TagsOf!NoCredential(c) PROVE TagsInv'
  BY <1>0, <1>2, <1>b DEF TagsOf!NoCredential
<1>3. ASSUME NEW c \in Calls, TagsOf!Begin(c) PROVE TagsInv'
  <2> DEFINE place == CASE tCall[c].surface = "imap" -> "imap"
                        [] tCall[c].surface = "thread" -> "reading"
                        [] OTHER -> "reacting"
             to == [tCall[c] EXCEPT !.at = place]
             connection == [TagsOf!NoConnection EXCEPT !.attempt = 1]
  <2>1. tCall[c].at = "credential" /\ tCall' = [tCall EXCEPT ![c] = to]
        /\ tImap' = [tImap EXCEPT ![c] = connection] /\ tMarks' = tMarks
    BY <1>3, Zenon DEF TagsOf!Begin
  <2>2. place \in {"imap", "reading", "reacting"}
        /\ (place = "imap" => tCall[c].surface = "imap")
        /\ (place = "reading" => tCall[c].surface = "thread")
        /\ (place = "reacting" => tCall[c].surface \notin {"imap", "thread"})
    OBVIOUS
  <2> HIDE DEF place
  <2>3. /\ to \in TagCall /\ to.at = place /\ to.surface = tCall[c].surface
        /\ to.done = tCall[c].done /\ to.left = tCall[c].left /\ to.confirmed = tCall[c].confirmed
    BY <1>a, <2>2 DEF TagCall
  <2>4. OnItsWay(to)
    BY <1>a, <2>1, <2>2, <2>3 DEF OnItsWay, TagsOf!TagSurfaces
  <2>5. connection \in TagConnection /\ connection.phase = "greeting" /\ ~connection.completed
    BY NoTagsYet DEF TagsOf!NoConnection
  <2>6. DoneIsThere(to, tMarks) /\ StoreIsThere(to, connection, tMarks)
    BY <1>a, <2>3, <2>5 DEF DoneIsThere, StoreIsThere
  <2> HIDE DEF to, connection
  <2>7. QED
    BY <2>1, <2>3, <2>4, <2>5, <2>6, OneTaggingMovesAlone
<1>4. ASSUME NEW c \in Calls, TagsOf!React(c) PROVE TagsInv'
  <2>1. /\ tCall[c].at = "reacting" /\ tImap' = [tImap EXCEPT ![c] = tImap[c]]
        /\ TagsOf!Applied(c, {TagsOf!Tag(c)}) /\ {TagsOf!Tag(c)} \in SUBSET tCall[c].left
        /\ tMarks' = [tMarks EXCEPT ![tCall[c].surface] = @ \cup {TagsOf!Tag(c)}]
    BY <1>4, <1>a DEF TagsOf!React
  <2>2. /\ tMarks' \in TagMarks /\ TagsOf!Tag(c) \in tMarks'[tCall[c].surface]
        /\ \A o \in TagsOf!TagSurfaces \ {"thread"} : tMarks[o] \subseteq tMarks'[o]
    BY <1>a, <1>d, <2>1
  <2>3. tCall[c].at # "idle" /\ tCall[c].at # "imap" /\ tImap[c] \in TagConnection
        /\ {TagsOf!Tag(c)} \subseteq tMarks'[tCall[c].surface]
    BY <1>a, <2>1, <2>2
  <2>4. QED
    BY <1>c, <2>1, <2>2, <2>3
<1>5. ASSUME NEW c \in Calls, TagsOf!RequestFails(c) PROVE TagsInv'
  <2>1. tCall[c].at # "idle" /\ tImap' = tImap /\ TagsOf!Answer(c, "failed")
    BY <1>5 DEF TagsOf!RequestFails
  <2>2. tMarks' \in TagMarks /\ \A s \in TagsOf!TagSurfaces \ {"thread"} : tMarks[s] \subseteq tMarks'[s]
    <3>1. CASE tMarks' = tMarks
      BY <1>0, <3>1
    <3>2. CASE tMarks' = [tMarks EXCEPT ![tCall[c].surface] = @ \cup {TagsOf!Tag(c)}]
      BY <1>a, <1>d, <2>1, <3>2
    <3>3. CASE tMarks' = [tMarks EXCEPT !["thread"] = tCall[c].seen \cup tCall[c].left]
      BY <1>e, <2>1, <3>3
    <3>4. QED
      BY <1>5, <3>1, <3>2, <3>3 DEF TagsOf!RequestFails
  <2>3. QED
    BY <1>b, <2>1, <2>2
<1>6. ASSUME NEW c \in Calls, TagsOf!ReadThread(c) PROVE TagsInv'
  <2> DEFINE to == [tCall[c] EXCEPT !.at = "writing", !.seen = tMarks["thread"]]
  <2>1. tCall[c].at = "reading" /\ tCall' = [tCall EXCEPT ![c] = to]
        /\ tImap' = [tImap EXCEPT ![c] = tImap[c]] /\ tMarks' = tMarks
    <3>1. tCall[c].at = "reading" /\ UNCHANGED <<tImap, tMarks>>
      BY <1>6 DEF TagsOf!ReadThread
    <3>2. tCall' = [tCall EXCEPT ![c] = to]
      BY <1>6, Zenon DEF TagsOf!ReadThread
    <3>3. QED
      BY <1>a, <3>1, <3>2
  <2>2. /\ to \in TagCall /\ to.at = "writing" /\ to.surface = tCall[c].surface
        /\ to.done = tCall[c].done /\ to.left = tCall[c].left /\ to.confirmed = tCall[c].confirmed
    BY <1>0, <1>a DEF TagCall, TagMarks, TagsOf!TagSurfaces
  <2>3. OnItsWay(to) /\ DoneIsThere(to, tMarks) /\ StoreIsThere(to, tImap[c], tMarks)
    BY <1>a, <2>1, <2>2 DEF OnItsWay, DoneIsThere, StoreIsThere
  <2> HIDE DEF to
  <2>4. QED
    BY <1>a, <2>1, <2>2, <2>3, OneTaggingMovesAlone
<1>7. ASSUME NEW c \in Calls, TagsOf!WriteThread(c) PROVE TagsInv'
  <2>1. /\ tCall[c].at = "writing" /\ tImap' = [tImap EXCEPT ![c] = tImap[c]]
        /\ TagsOf!Applied(c, tCall[c].left) /\ tCall[c].surface = "thread"
        /\ tMarks' = [tMarks EXCEPT !["thread"] = tCall[c].seen \cup tCall[c].left]
        /\ tCall[c].left \in SUBSET tCall[c].left
    BY <1>7, <1>a DEF TagsOf!WriteThread, OnItsWay
  <2>2. QED
    BY <1>a, <1>c, <1>e, <2>1
(* The next command of the connection, or a BYE.                           *)
<1>f. ASSUME NEW c \in Calls, NEW connection \in TagConnection, tCall' = tCall,
             tImap' = [tImap EXCEPT ![c] = connection], tMarks' \in TagMarks,
             \A s \in TagsOf!TagSurfaces \ {"thread"} : tMarks[s] \subseteq tMarks'[s],
             StoreIsThere(tCall[c], connection, tMarks')
      PROVE  TagsInv'
  <2>1. DoneIsThere(tCall[c], tMarks') /\ OnItsWay(tCall[c])
    BY <1>a, <1>f DEF DoneIsThere
  <2>2. tCall' = [tCall EXCEPT ![c] = tCall[c]] /\ tCall[c] \in TagCall
    BY <1>a, <1>f
  <2>3. QED
    BY <1>f, <2>1, <2>2, OneTaggingMoves
(* The store of one flag ended well, and the flag is there.                *)
<1>g. ASSUME NEW c \in Calls, tCall[c].at = "imap", TagsOf!Stored(c), tMarks' = tMarks,
             tImap[c].phase = "logout" \/ tImap[c].completed
      PROVE  TagsInv'
  <2>1. tCall[c].surface = "imap" /\ {TagsOf!Tag(c)} \subseteq tMarks'["imap"]
        /\ {TagsOf!Tag(c)} \in SUBSET tCall[c].left
    BY <1>a, <1>g DEF OnItsWay, StoreIsThere, TagsOf!Tag
  <2>2. /\ TagsOf!Applied(c, {TagsOf!Tag(c)})
        /\ tImap' = [tImap EXCEPT ![c] = [TagsOf!NoConnection EXCEPT !.attempt = 1]]
    BY <1>g DEF TagsOf!Stored
  <2>3. /\ [TagsOf!NoConnection EXCEPT !.attempt = 1].phase = "greeting"
        /\ ~[TagsOf!NoConnection EXCEPT !.attempt = 1].completed
    BY DEF TagsOf!NoConnection
  <2>4. QED
    BY <1>0, <1>c, <1>g, <2>1, <2>2, <2>3, NoTagsYet
<1>h. "imap" \in TagsOf!TagSurfaces /\ \A c \in Calls : tCall[c].at = "imap" => tCall[c].surface = "imap"
  BY <1>a DEF TagsOf!TagSurfaces, OnItsWay
<1>8. ASSUME NEW c \in Calls, TagsOf!ServerOk(c) PROVE TagsInv'
  <2>1. tCall[c].at = "imap"
    BY <1>8 DEF TagsOf!ServerOk, TagsOf!InImap
  <2>2. CASE tImap[c].phase = "logout"
    BY <1>8, <1>g, <2>1, <2>2 DEF TagsOf!ServerOk
  <2>3. CASE tImap[c].phase # "logout"
    <3> DEFINE connection == [tImap[c] EXCEPT !.phase = TagsOf!After(tImap[c].phase)]
    <3>1. tCall' = tCall
      BY <1>8, <2>3 DEF TagsOf!ServerOk
    <3>2. tImap' = [tImap EXCEPT ![c] = connection]
      BY <1>8, <2>3, Zenon DEF TagsOf!ServerOk
    <3>3. /\ TagsOf!After(tImap[c].phase) \in TagsOf!Phases
          /\ TagsOf!After(tImap[c].phase) = "logout" => tImap[c].phase = "store"
      BY <1>a, <2>3 DEF TagsOf!After, TagsOf!Phases, TagConnection
    <3>4. connection \in TagConnection /\ connection.completed = tImap[c].completed
          /\ connection.phase = TagsOf!After(tImap[c].phase)
      BY <1>a, <3>3 DEF TagConnection
    <3> HIDE DEF connection
    <3>5. CASE tImap[c].phase = "store"
      <4>1. tMarks' = [tMarks EXCEPT !["imap"] = @ \cup {TagsOf!Tag(c)}]
        BY <1>8, <3>5 DEF TagsOf!ServerOk
      <4>2. StoreIsThere(tCall[c], connection, tMarks')
        BY <1>d, <1>h, <2>1, <4>1 DEF StoreIsThere, TagsOf!Tag
      <4>3. QED
        BY <1>d, <1>f, <1>h, <2>1, <3>1, <3>2, <3>4, <4>1, <4>2
    <3>6. CASE tImap[c].phase # "store"
      <4>1. tMarks' = tMarks
        BY <1>8, <3>6 DEF TagsOf!ServerOk
      <4>2. StoreIsThere(tCall[c], connection, tMarks')
        BY <1>a, <3>3, <3>4, <3>6, <4>1 DEF StoreIsThere
      <4>3. QED
        BY <1>0, <1>f, <3>1, <3>2, <3>4, <4>1, <4>2
    <3>7. QED
      BY <3>5, <3>6
  <2>4. QED
    BY <2>2, <2>3
<1>9. ASSUME NEW c \in Calls, TagsOf!ServerRefuses(c) PROVE TagsInv'
  BY <1>0, <1>9, <1>b DEF TagsOf!ServerRefuses
<1>10. ASSUME NEW c \in Calls, TagsOf!ServerBye(c) PROVE TagsInv'
  <2> DEFINE completed == tImap[c].completed \/ TagsOf!CompletedBy(tImap[c].phase)
             connection == [tImap[c] EXCEPT !.completed = completed]
  <2>1. UNCHANGED <<tCall, tMarks>>
    BY <1>10 DEF TagsOf!ServerBye
  <2>2. tImap' = [tImap EXCEPT ![c] = connection]
    BY <1>10, Zenon DEF TagsOf!ServerBye
  <2>3. completed \in BOOLEAN /\ (completed => tImap[c].completed \/ tImap[c].phase = "logout")
    BY <1>a DEF TagsOf!CompletedBy, TagConnection
  <2> HIDE DEF completed
  <2>4. connection \in TagConnection /\ connection.phase = tImap[c].phase
        /\ connection.completed = completed
    BY <1>a, <2>3 DEF TagConnection
  <2> HIDE DEF connection
  <2>5. StoreIsThere(tCall[c], connection, tMarks')
    BY <1>a, <2>1, <2>3, <2>4 DEF StoreIsThere
  <2>6. QED
    BY <1>0, <1>f, <2>1, <2>2, <2>4, <2>5
<1>11. ASSUME NEW c \in Calls, NEW closed \in BOOLEAN, TagsOf!ConnectionEnds(c, closed) PROVE TagsInv'
  <2>1. tCall[c].at = "imap"
    BY <1>11 DEF TagsOf!ConnectionEnds, TagsOf!InImap
  <2>2. CASE closed /\ tImap[c].completed
    BY <1>11, <1>g, <2>1, <2>2 DEF TagsOf!ConnectionEnds
  <2>3. CASE ~(closed /\ tImap[c].completed)
    <3>1. tMarks' \in TagMarks /\ \A s \in TagsOf!TagSurfaces \ {"thread"} : tMarks[s] \subseteq tMarks'[s]
      <4>1. tMarks' \in {tMarks, [tMarks EXCEPT !["imap"] = @ \cup {TagsOf!Tag(c)}]}
        BY <1>11, <2>3 DEF TagsOf!ConnectionEnds
      <4>2. QED
        BY <1>0, <1>d, <1>h, <2>1, <4>1
    <3>2. TagsOf!TransientFailure(c)
      BY <1>11, <2>3 DEF TagsOf!ConnectionEnds
    <3>3. CASE TagsOf!Retries(c)
      <4> DEFINE attempt == (tImap[c].attempt % MaxAttempts) + 1
                 connection == [TagsOf!NoConnection EXCEPT !.attempt = attempt]
      <4>1. tCall' = tCall /\ tImap' = [tImap EXCEPT ![c] = connection]
        BY <3>2, <3>3 DEF TagsOf!TransientFailure
      <4>2. attempt \in 0..MaxAttempts
        BY <1>a, HandlersAssumption DEF TagConnection
      <4> HIDE DEF attempt
      <4>3. connection \in TagConnection /\ connection.phase = "greeting" /\ ~connection.completed
        BY <4>2 DEF TagConnection, TagsOf!NoConnection, TagsOf!Phases
      <4> HIDE DEF connection
      <4>4. StoreIsThere(tCall[c], connection, tMarks')
        BY <4>3 DEF StoreIsThere
      <4>5. QED
        BY <1>f, <3>1, <4>1, <4>3, <4>4
    <3>4. CASE ~TagsOf!Retries(c)
      BY <1>b, <3>1, <3>2, <3>4 DEF TagsOf!TransientFailure
    <3>5. QED
      BY <3>3, <3>4
  <2>4. QED
    BY <2>2, <2>3
<1>12. CASE UNCHANGED TagsOf!vars
  BY <1>12 DEF TagsOf!vars, TagsInv, TagsOf!TypeOK, OnItsWay, DoneIsThere, StoreIsThere
<1>13. QED
  BY <1>1, <1>2, <1>3, <1>4, <1>5, <1>6, <1>7, <1>8, <1>9, <1>10, <1>11, <1>12
     DEF TagsOf!Next, TagsOf!Step

(* What changes at a provider is a confirmed call's.                       *)
LEMMA StepTagsConfirmed ==
  ASSUME TagsInv, TagsOf!Next, NEW s \in TagsOf!TagSurfaces, tMarks'[s] # tMarks[s]
  PROVE  \E c \in Calls : /\ tCall[c].confirmed /\ tCall[c].surface = s
                          /\ tMarks'[s] \ tMarks[s] \subseteq tCall[c].left \cup tCall[c].seen
<1>0. tMarks \in TagMarks /\ tCall \in [Calls -> TagCall]
  BY TagsTyped DEF TagsInv
<1>1. PICK c \in Calls :
        /\ tCall[c].at \in {"reacting", "writing", "imap"}
        /\ \/ tMarks' = [tMarks EXCEPT ![tCall[c].surface] = @ \cup {TagsOf!Tag(c)}]
           \/ /\ tCall[c].at = "writing"
              /\ tMarks' = [tMarks EXCEPT !["thread"] = tCall[c].seen \cup tCall[c].left]
  <2>1. PICK c \in Calls : \/ TagsOf!React(c) \/ TagsOf!WriteThread(c) \/ TagsOf!RequestFails(c)
                           \/ TagsOf!ServerOk(c)
                           \/ \E closed \in BOOLEAN : TagsOf!ConnectionEnds(c, closed)
    BY DEF TagsOf!Next, TagsOf!Step, TagsOf!Apply, TagsOf!NoCredential, TagsOf!Begin,
           TagsOf!ReadThread, TagsOf!ServerRefuses, TagsOf!ServerBye
  <2>2. tCall[c].at = "imap" => tCall[c].surface = "imap"
    BY DEF TagsInv, OnItsWay
  <2>3. CASE TagsOf!React(c)
    BY <2>3 DEF TagsOf!React
  <2>4. CASE TagsOf!WriteThread(c)
    BY <2>4 DEF TagsOf!WriteThread
  <2>5. CASE TagsOf!RequestFails(c)
    BY <2>5 DEF TagsOf!RequestFails
  <2>6. CASE TagsOf!ServerOk(c)
    BY <2>2, <2>6 DEF TagsOf!ServerOk, TagsOf!InImap
  <2>7. CASE \E closed \in BOOLEAN : TagsOf!ConnectionEnds(c, closed)
    BY <2>2, <2>7 DEF TagsOf!ConnectionEnds, TagsOf!InImap
  <2>8. QED
    BY <2>1, <2>3, <2>4, <2>5, <2>6, <2>7
<1>2. /\ OnItsWay(tCall[c]) /\ tCall[c].surface \in TagsOf!TagSurfaces
      /\ "thread" \in TagsOf!TagSurfaces
  BY <1>0, <1>1 DEF TagsInv, TagCall, TagsOf!TagSurfaces
<1>3. tCall[c].confirmed /\ TagsOf!Tag(c) \in tCall[c].left
  BY <1>1, <1>2 DEF OnItsWay, TagsOf!Tag
<1>4. tCall[c].surface = s /\ tMarks'[s] \ tMarks[s] \subseteq tCall[c].left \cup tCall[c].seen
  BY <1>0, <1>1, <1>2, <1>3 DEF OnItsWay, TagMarks
<1>5. QED
  BY <1>3, <1>4

(* Nothing changes at a provider but for a call the user confirmed, and a  *)
(* flag or reaction counted as applied is on the message, however requests *)
(* and answers are lost (tagger/index.ts:156-163, tagger/imap.ts).         *)
THEOREM TagsStayTrue == Spec => TagsAreTrue
<1>1. Init => TagsInv
  BY InitTagsInv DEF Init
<1>2. TagsInv /\ [Next]_vars => TagsInv'
  BY EachFamilySteps, StepTagsInv
<1>3. TagsInv => TagsOf!AppliedIsThere
  BY DEF TagsInv, DoneIsThere, TagsOf!AppliedIsThere
<1>4. TagsInv /\ [Next]_vars =>
        [\A s \in TagsOf!TagSurfaces : tMarks'[s] # tMarks[s] =>
           \E c \in Calls : /\ tCall[c].confirmed /\ tCall[c].surface = s
                            /\ tMarks'[s] \ tMarks[s] \subseteq tCall[c].left \cup tCall[c].seen]_(TagsOf!vars)
  BY EachFamilySteps, StepTagsConfirmed
<1>5. QED
  BY <1>1, <1>2, <1>3, <1>4, PTL DEF Spec, TagsAreTrue, TagsOf!OnlyConfirmedTags

-----------------------------------------------------------------------------
(* Payments verbs.  How far a registration has come, whose handlers the    *)
(* catalog may hold, and what a registration serves that is alone.         *)
VerbReg == [sdk : {"none", "sweeping", "attached", "failed"},
            local : {"none", "waiting", "attached", "skipped", "rejected"},
            torn : BOOLEAN, found : SUBSET Verbs!Verbs, lone : BOOLEAN]
VerbSlot == [who : Regs \cup {"nobody"}, what : {"absent", "bare", "sdk", "local"}]
SdkVerbs == Verbs!SdkOnly \cup Verbs!Replaced

Stage(record) ==
  /\ \/ record.sdk = "none" /\ record.local = "none" /\ ~record.torn
     \/ record.sdk = "sweeping" /\ record.local = "waiting"
     \/ record.sdk = "attached" /\ record.local \in {"waiting", "attached"}
     \/ record.sdk = "attached" /\ record.local = "skipped" /\ record.torn
     \/ record.sdk = "failed" /\ record.local = "rejected"
  /\ record.sdk # "none" => SdkVerbs \subseteq record.found

(* The registration whose handler a slot holds has attached it, and not    *)
(* taken it off; approve has no handler but the daemon's.                  *)
Holds(record, v) ==
  /\ record.sdk = "attached"
  /\ record.torn => record.local = "waiting"
  /\ v \in Verbs!Own => record.local = "attached"

(* What a registration that is alone has put on the catalog.               *)
Serves(r, record, table) ==
  record.lone /\ ~record.torn /\ record.sdk = "attached" =>
    /\ record.local = "waiting" => \A v \in Verbs!SdkOnly : table[v] = Verbs!HandlerOf(r, "sdk")
    /\ record.local = "attached" =>
         \A v \in Verbs!Verbs :
            table[v] = Verbs!HandlerOf(r, IF v \in Verbs!SdkOnly THEN "sdk" ELSE "local")
Used(record) == record.sdk # "none" /\ ~(record.torn /\ record.local # "waiting")

CatalogInv ==
  /\ vSlot \in [Verbs!Verbs -> VerbSlot] /\ vReg \in [Regs -> VerbReg]
  /\ \A r \in Regs : Stage(vReg[r]) /\ Serves(r, vReg[r], vSlot)
  /\ \A v \in SdkVerbs : vSlot[v] # Verbs!Absent
  /\ \A v \in Verbs!Verbs, r \in Regs : vSlot[v].who = r => Holds(vReg[r], v)
  /\ \A r, o \in Regs : vReg[r].lone /\ Used(vReg[r]) /\ o # r => ~Used(vReg[o])
LedgerInv ==
  /\ vPurchases \in Seq(Verbs!Purchase) /\ vSince = vPurchases
  /\ vRecorded \in 0..MaxPurchases /\ vPage.rows \subseteq Verbs!Purchase
VerbsInv == CatalogInv /\ LedgerInv

-----------------------------------------------------------------------------
LEMMA VerbsTold ==
  /\ SdkVerbs \subseteq Verbs!Verbs /\ Verbs!Verbs = SdkVerbs \cup Verbs!Own
  /\ SdkVerbs \cap Verbs!Own = {} /\ Verbs!SdkOnly \subseteq SdkVerbs
  /\ \A v \in Verbs!Verbs : v \notin Verbs!Own <=> v \in SdkVerbs
BY DEF SdkVerbs, Verbs!Verbs, Verbs!SdkOnly, Verbs!Replaced, Verbs!Own

LEMMA SlotsTold ==
  /\ Verbs!Bare \in VerbSlot /\ Verbs!Absent \in VerbSlot /\ Verbs!Bare # Verbs!Absent
  /\ Verbs!Bare.who \notin Regs /\ Verbs!Absent.who \notin Regs
  /\ \A r \in Regs : \A what \in {"sdk", "local"} :
       /\ Verbs!HandlerOf(r, what) \in VerbSlot /\ Verbs!HandlerOf(r, what) # Verbs!Absent
       /\ Verbs!HandlerOf(r, what).who = r
<1>1. Verbs!Bare.what = "bare" /\ Verbs!Absent.what = "absent" /\ Verbs!Bare.who = "nobody"
      /\ Verbs!Absent.who = "nobody"
  BY DEF Verbs!Bare, Verbs!Absent
<1>2. \A r \in Regs : \A what \in {"sdk", "local"} :
        Verbs!HandlerOf(r, what).what = what /\ Verbs!HandlerOf(r, what).who = r
        /\ Verbs!HandlerOf(r, what) \in VerbSlot
  BY DEF Verbs!HandlerOf, VerbSlot
<1>3. Verbs!Bare \in VerbSlot /\ Verbs!Absent \in VerbSlot
  BY DEF Verbs!Bare, Verbs!Absent, VerbSlot
<1>4. QED
  BY <1>1, <1>2, <1>3, HandlersAssumption

LEMMA InitVerbsInv == Verbs!Init => VerbsInv
<1> SUFFICES ASSUME Verbs!Init PROVE VerbsInv
  OBVIOUS
<1> DEFINE fresh == [sdk |-> "none", local |-> "none", torn |-> FALSE, found |-> {}, lone |-> TRUE]
<1>1. vReg = [r \in Regs |-> fresh]
      /\ vSlot = [v \in Verbs!Verbs |-> IF v \in Verbs!Own THEN Verbs!Absent ELSE Verbs!Bare]
  BY DEF Verbs!Init
<1>2. fresh \in VerbReg /\ Stage(fresh) /\ ~Used(fresh) /\ fresh.sdk = "none"
  BY DEF VerbReg, Stage, Used
<1>3. CatalogInv
  <2> HIDE DEF fresh
  <2>1. vSlot \in [Verbs!Verbs -> VerbSlot] /\ vReg \in [Regs -> VerbReg]
    BY <1>1, <1>2, SlotsTold
  <2>2. \A r \in Regs : Stage(vReg[r]) /\ Serves(r, vReg[r], vSlot) /\ ~Used(vReg[r])
    BY <1>1, <1>2 DEF Serves
  <2>3. \A v \in SdkVerbs : vSlot[v] # Verbs!Absent
    BY <1>1, VerbsTold, SlotsTold
  <2>4. \A v \in Verbs!Verbs, r \in Regs : vSlot[v].who # r
    BY <1>1, SlotsTold
  <2>5. QED
    BY <2>1, <2>2, <2>3, <2>4 DEF CatalogInv
<1>4. vPage.rows = {} /\ vPurchases = <<>> /\ vSince = <<>> /\ vRecorded = 0
  BY DEF Verbs!Init, Verbs!NoPage
<1>5. LedgerInv
  <2>1. 0 \in 0..MaxPurchases /\ <<>> \in Seq(Verbs!Purchase)
    BY HandlersAssumption
  <2>2. QED
    BY <1>4, <2>1 DEF LedgerInv
<1>6. QED
  BY <1>3, <1>5 DEF VerbsInv

(* A step of one registration, by which none comes into use.               *)
LEMMA OneRegistrationMoves ==
  ASSUME CatalogInv, NEW r \in Regs, NEW to \in VerbReg, vReg' = [vReg EXCEPT ![r] = to],
         vSlot' \in [Verbs!Verbs -> VerbSlot], Used(vReg[r]), to.lone = vReg[r].lone,
         Stage(to), Serves(r, to, vSlot'),
         \A v \in SdkVerbs : vSlot'[v] # Verbs!Absent,
         \A v \in Verbs!Verbs : vSlot'[v].who = r => Holds(to, v),
         \A v \in Verbs!Verbs : \A o \in Regs : o # r /\ vSlot'[v].who = o => vSlot[v].who = o
  PROVE  CatalogInv'
<1>1. /\ vReg' \in [Regs -> VerbReg] /\ vReg'[r] = to
      /\ \A o \in Regs : o # r => vReg'[o] = vReg[o]
  BY DEF CatalogInv
<1>2. \A o \in Regs : o # r => ~(vReg[o].lone /\ Used(vReg[o]))
  BY DEF CatalogInv
<1>3. ASSUME NEW o \in Regs PROVE Stage(vReg'[o]) /\ Serves(o, vReg'[o], vSlot')
  <2>1. CASE o = r
    BY <1>1, <2>1
  <2>2. CASE o # r
    <3>1. Stage(vReg[o]) /\ ~(vReg[o].lone /\ Used(vReg[o])) /\ vReg'[o] = vReg[o]
      BY <1>1, <1>2, <2>2 DEF CatalogInv
    <3>2. Serves(o, vReg[o], vSlot')
      BY <3>1 DEF Used, Serves
    <3>3. QED
      BY <3>1, <3>2
  <2>3. QED
    BY <2>1, <2>2
<1>4. ASSUME NEW v \in Verbs!Verbs, NEW o \in Regs, vSlot'[v].who = o PROVE Holds(vReg'[o], v)
  BY <1>1, <1>4 DEF CatalogInv
<1>5. ASSUME NEW o \in Regs, NEW p \in Regs, vReg'[o].lone /\ Used(vReg'[o]) /\ p # o
      PROVE  ~Used(vReg'[p])
  <2>1. o = r
    BY <1>1, <1>2, <1>5
  <2>2. vReg[r].lone /\ vReg'[p] = vReg[p]
    BY <1>1, <1>5, <2>1
  <2>3. QED
    BY <1>5, <2>1, <2>2 DEF CatalogInv
<1>6. QED
  BY <1>1, <1>3, <1>4, <1>5 DEF CatalogInv

LEMMA RestoredTable ==
  ASSUME CatalogInv, NEW r \in Regs, vReg[r].sdk # "none", NEW table \in [Verbs!Verbs -> VerbSlot]
  PROVE  /\ Verbs!Restored(table, r) \in [Verbs!Verbs -> VerbSlot]
         /\ \A v \in SdkVerbs : Verbs!Restored(table, r)[v] = Verbs!Bare
         /\ \A v \in Verbs!Verbs : Verbs!Restored(table, r)[v] \in {Verbs!Bare, table[v]}
BY SlotsTold, VerbsTold DEF CatalogInv, Stage, Verbs!Restored

LEMMA StepCatalogInv ==
  ASSUME CatalogInv, NEW r \in Regs, Verbs!Register(r) \/ Verbs!Settles(r) \/ Verbs!Unregister(r)
  PROVE  CatalogInv'
<1> DEFINE was == vReg[r]
<1>0. /\ was \in VerbReg /\ Stage(was) /\ Serves(r, was, vSlot)
      /\ vSlot \in [Verbs!Verbs -> VerbSlot] /\ vReg \in [Regs -> VerbReg]
      /\ \A v \in Verbs!Verbs : vSlot[v].who = r => Holds(was, v)
      /\ \A v \in SdkVerbs : vSlot[v] # Verbs!Absent
  BY DEF CatalogInv
<1>1. CASE Verbs!Register(r)
  <2> DEFINE others == {o \in Regs : Verbs!InUse(o)}
             new == [sdk |-> "sweeping", local |-> "waiting", torn |-> FALSE,
                     found |-> {v \in Verbs!Verbs : vSlot[v] # Verbs!Absent}, lone |-> others = {}]
             beside(o) == [vReg[o] EXCEPT !.lone = @ /\ o \notin others]
  <2>1. /\ was.sdk = "none" /\ vSlot' = vSlot
        /\ vReg' = [o \in Regs |-> IF o = r THEN new ELSE beside(o)]
    BY <1>1 DEF Verbs!Register
  <2>2. \A o \in Regs : o \in others <=> Used(vReg[o])
    BY DEF Verbs!InUse, Used
  <2>3. new \in VerbReg /\ Stage(new) /\ new.sdk = "sweeping" /\ new.local = "waiting"
        /\ (new.lone => \A o \in Regs : ~Used(vReg[o]))
    <3>1. (others = {}) \in BOOLEAN
      OBVIOUS
    <3>2. new \in VerbReg
      BY <3>1 DEF VerbReg
    <3>3. Stage(new)
      BY <1>0, VerbsTold DEF Stage
    <3>4. QED
      BY <2>2, <3>2, <3>3
  <2>4. ASSUME NEW o \in Regs, o # r
        PROVE  /\ beside(o) \in VerbReg /\ beside(o).sdk = vReg[o].sdk
               /\ beside(o).local = vReg[o].local /\ beside(o).torn = vReg[o].torn
               /\ beside(o).found = vReg[o].found /\ (beside(o).lone => vReg[o].lone /\ ~Used(vReg[o]))
    <3>1. vReg[o] \in VerbReg
      BY <1>0
    <3>2. QED
      BY <2>2, <3>1 DEF VerbReg
  <2> HIDE DEF new, beside, others
  <2>5. vReg'[r] = new /\ \A o \in Regs : o # r => vReg'[o] = beside(o)
    BY <2>1
  <2>6. vReg' \in [Regs -> VerbReg]
    BY <2>1, <2>3, <2>4
  <2>7. ASSUME NEW o \in Regs PROVE Stage(vReg'[o]) /\ Serves(o, vReg'[o], vSlot')
    <3>1. CASE o = r
      BY <2>3, <2>5, <3>1 DEF Serves
    <3>2. CASE o # r
      <4>1. Stage(vReg[o]) /\ Serves(o, vReg[o], vSlot) /\ vReg'[o] = beside(o) /\ vSlot' = vSlot
        BY <2>1, <2>5, <3>2 DEF CatalogInv
      <4>2. Stage(beside(o))
        BY <2>4, <3>2, <4>1 DEF Stage
      <4>3. Serves(o, beside(o), vSlot)
        BY <2>4, <3>2, <4>1 DEF Serves
      <4>4. QED
        BY <4>1, <4>2, <4>3
    <3>3. QED
      BY <3>1, <3>2
  <2>8. ASSUME NEW v \in Verbs!Verbs, NEW o \in Regs, vSlot'[v].who = o PROVE Holds(vReg'[o], v)
    <3>1. Holds(vReg[o], v)
      BY <2>1, <2>8 DEF CatalogInv
    <3>2. o # r
      BY <2>1, <3>1 DEF Holds
    <3>3. QED
      BY <2>4, <2>5, <3>1, <3>2 DEF Holds
  <2>9. ASSUME NEW o \in Regs, NEW p \in Regs, vReg'[o].lone, Used(vReg'[o]), p # o
        PROVE  ~Used(vReg'[p])
    <3>1. \A q \in Regs : q # r => (Used(vReg'[q]) <=> Used(vReg[q]))
      BY <2>4, <2>5 DEF Used
    <3>2. o = r
      BY <2>4, <2>5, <2>9, <3>1
    <3>3. QED
      BY <2>3, <2>5, <2>9, <3>1, <3>2
  <2>10. QED
    BY <1>0, <2>1, <2>6, <2>7, <2>8, <2>9 DEF CatalogInv
<1>2. CASE Verbs!SdkAttaches(r)
  <2> DEFINE to == [was EXCEPT !.sdk = "attached"]
  <2>1. /\ was.sdk = "sweeping" /\ vReg' = [vReg EXCEPT ![r] = to]
        /\ vSlot' = [v \in Verbs!Verbs |-> IF v \in Verbs!Own THEN vSlot[v]
                                          ELSE Verbs!HandlerOf(r, "sdk")]
    BY <1>2, Zenon DEF Verbs!SdkAttaches
  <2>2. /\ to \in VerbReg /\ to.sdk = "attached" /\ to.local = "waiting" /\ to.lone = was.lone
        /\ Stage(to) /\ Used(was)
    BY <1>0, <2>1 DEF VerbReg, Stage, Used
  <2> HIDE DEF to
  <2>3. /\ vSlot' \in [Verbs!Verbs -> VerbSlot]
        /\ \A v \in SdkVerbs : vSlot'[v] # Verbs!Absent
        /\ \A v \in SdkVerbs : vSlot'[v] = Verbs!HandlerOf(r, "sdk")
    BY <1>0, <2>1, VerbsTold, SlotsTold
  <2>4. \A v \in Verbs!Verbs : vSlot'[v].who = r => Holds(to, v)
    <3>1. \A v \in Verbs!Own : vSlot[v].who # r
      BY <1>0, <2>1, VerbsTold DEF Holds
    <3>2. QED
      BY <2>1, <2>2, <3>1, VerbsTold DEF Holds
  <2>5. \A v \in Verbs!Verbs : \A o \in Regs : o # r /\ vSlot'[v].who = o => vSlot[v].who = o
    BY <2>1, SlotsTold
  <2>6. Serves(r, to, vSlot')
    BY <2>2, <2>3, VerbsTold DEF Serves
  <2>7. QED
    BY <2>1, <2>2, <2>3, <2>4, <2>5, <2>6, OneRegistrationMoves
<1>3. CASE Verbs!SdkAttachFails(r)
  <2> DEFINE to == [was EXCEPT !.sdk = "failed", !.local = "rejected"]
  <2>1. was.sdk = "sweeping" /\ vReg' = [vReg EXCEPT ![r] = to] /\ vSlot' = vSlot
    BY <1>3, Zenon DEF Verbs!SdkAttachFails
  <2>2. /\ to \in VerbReg /\ to.sdk = "failed" /\ to.lone = was.lone /\ Stage(to) /\ Used(was)
    BY <1>0, <2>1 DEF VerbReg, Stage, Used
  <2> HIDE DEF to
  <2>3. \A v \in Verbs!Verbs : vSlot'[v].who # r
    BY <1>0, <2>1 DEF Holds
  <2>4. Serves(r, to, vSlot')
    BY <2>2 DEF Serves
  <2>5. QED
    BY <1>0, <2>1, <2>2, <2>3, <2>4, OneRegistrationMoves
<1>4. CASE Verbs!AttachLocal(r) /\ was.torn
  <2> DEFINE to == [was EXCEPT !.local = "skipped"]
  <2>1. was.local = "waiting" /\ was.sdk = "attached" /\ vReg' = [vReg EXCEPT ![r] = to]
        /\ vSlot' = Verbs!Restored(vSlot, r)
    BY <1>4, Zenon DEF Verbs!AttachLocal, Verbs!Chained, Verbs!Torn
  <2>2. /\ to \in VerbReg /\ to.lone = was.lone /\ Stage(to) /\ Used(was) /\ to.torn
    BY <1>0, <1>4, <2>1 DEF VerbReg, Stage, Used
  <2> HIDE DEF to
  <2>3. /\ vSlot' \in [Verbs!Verbs -> VerbSlot] /\ \A v \in SdkVerbs : vSlot'[v] = Verbs!Bare
        /\ \A v \in Verbs!Verbs : vSlot'[v] \in {Verbs!Bare, vSlot[v]}
    BY <1>0, <2>1, RestoredTable
  <2>4. \A v \in Verbs!Verbs : vSlot'[v].who # r
    <3>1. \A v \in Verbs!Own : vSlot[v].who # r
      BY <1>0, <2>1, VerbsTold DEF Holds
    <3>2. QED
      BY <2>3, <3>1, VerbsTold, SlotsTold
  <2>5. \A v \in Verbs!Verbs : \A o \in Regs : o # r /\ vSlot'[v].who = o => vSlot[v].who = o
    BY <2>3, SlotsTold
  <2>6. Serves(r, to, vSlot') /\ \A v \in SdkVerbs : vSlot'[v] # Verbs!Absent
    BY <2>2, <2>3, SlotsTold DEF Serves
  <2>7. QED
    BY <2>1, <2>2, <2>3, <2>4, <2>5, <2>6, OneRegistrationMoves
<1>5. CASE Verbs!AttachLocal(r) /\ ~was.torn
  <2> DEFINE to == [was EXCEPT !.local = "attached"]
  <2>1. /\ was.local = "waiting" /\ was.sdk = "attached" /\ vReg' = [vReg EXCEPT ![r] = to]
        /\ vSlot' = [v \in Verbs!Verbs |-> IF v \in Verbs!SdkOnly THEN vSlot[v]
                                          ELSE Verbs!HandlerOf(r, "local")]
    BY <1>5, Zenon DEF Verbs!AttachLocal, Verbs!Chained, Verbs!Torn
  <2>2. /\ to \in VerbReg /\ to.lone = was.lone /\ Stage(to) /\ Used(was) /\ ~to.torn
        /\ to.local = "attached" /\ to.sdk = "attached"
    BY <1>0, <1>5, <2>1 DEF VerbReg, Stage, Used
  <2> HIDE DEF to
  <2>3. vSlot' \in [Verbs!Verbs -> VerbSlot] /\ \A v \in SdkVerbs : vSlot'[v] # Verbs!Absent
    BY <1>0, <2>1, VerbsTold, SlotsTold
  <2>4. \A v \in Verbs!Verbs : vSlot'[v].who = r => Holds(to, v)
    BY <2>2 DEF Holds
  <2>5. \A v \in Verbs!Verbs : \A o \in Regs : o # r /\ vSlot'[v].who = o => vSlot[v].who = o
    BY <2>1, SlotsTold
  <2>6. Serves(r, to, vSlot')
    <3>1. was.lone => \A v \in Verbs!SdkOnly : vSlot[v] = Verbs!HandlerOf(r, "sdk")
      BY <1>0, <1>5, <2>1 DEF Serves
    <3>2. QED
      BY <2>1, <2>2, <3>1, VerbsTold DEF Serves
  <2>7. QED
    BY <2>1, <2>2, <2>3, <2>4, <2>5, <2>6, OneRegistrationMoves
<1>6. CASE Verbs!Unregister(r)
  <2> DEFINE to == [was EXCEPT !.torn = TRUE]
             removed == IF was.local = "attached"
                        THEN [v \in Verbs!Verbs |-> IF v \in Verbs!SdkOnly THEN vSlot[v] ELSE Verbs!Absent]
                        ELSE vSlot
  <2>1. was.sdk # "none" /\ ~was.torn /\ vReg' = [vReg EXCEPT ![r] = to]
        /\ vSlot' = Verbs!Restored(removed, r)
    BY <1>6, Zenon DEF Verbs!Unregister
  <2>2. /\ to \in VerbReg /\ to.lone = was.lone /\ Stage(to) /\ Used(was) /\ to.torn
        /\ to.local = was.local /\ to.sdk = was.sdk
    BY <1>0, <2>1 DEF VerbReg, Stage, Used
  <2> HIDE DEF to
  <2>3. /\ removed \in [Verbs!Verbs -> VerbSlot]
        /\ \A v \in Verbs!Verbs : removed[v] \in {Verbs!Absent, vSlot[v]}
        /\ was.local = "attached" => \A v \in Verbs!Own : removed[v] = Verbs!Absent
    BY <1>0, SlotsTold, VerbsTold
  <2> HIDE DEF removed
  <2>4. /\ vSlot' \in [Verbs!Verbs -> VerbSlot] /\ \A v \in SdkVerbs : vSlot'[v] = Verbs!Bare
        /\ \A v \in Verbs!Verbs : vSlot'[v] \in {Verbs!Bare, removed[v]}
    BY <1>0, <2>1, <2>3, RestoredTable
  <2>5. \A v \in Verbs!Verbs : vSlot'[v].who = r => Holds(to, v)
    <3>1. ASSUME NEW v \in Verbs!Verbs, vSlot'[v].who = r PROVE FALSE
      <4>1. v \in Verbs!Own /\ vSlot'[v] = removed[v]
        BY <2>4, <3>1, SlotsTold, VerbsTold
      <4>2. vSlot[v].who = r
        BY <2>3, <3>1, <4>1, SlotsTold
      <4>3. was.local = "attached"
        BY <1>0, <4>1, <4>2 DEF Holds
      <4>4. QED
        BY <2>3, <3>1, <4>1, <4>3, SlotsTold
    <3>2. QED
      BY <3>1
  <2>6. \A v \in Verbs!Verbs : \A o \in Regs : o # r /\ vSlot'[v].who = o => vSlot[v].who = o
    BY <2>3, <2>4, SlotsTold
  <2>7. Serves(r, to, vSlot') /\ \A v \in SdkVerbs : vSlot'[v] # Verbs!Absent
    BY <2>2, <2>4, SlotsTold DEF Serves
  <2>8. QED
    BY <2>1, <2>2, <2>4, <2>5, <2>6, <2>7, OneRegistrationMoves
<1>7. QED
  BY <1>1, <1>2, <1>3, <1>4, <1>5, <1>6 DEF Verbs!Settles

LEMMA StepVerbsInv ==
  ASSUME VerbsInv, Verbs!Next \/ UNCHANGED Verbs!vars
  PROVE  VerbsInv'
<1>1. ASSUME NEW r \in Regs, Verbs!Register(r) \/ Verbs!Settles(r) \/ Verbs!Unregister(r)
      PROVE  VerbsInv'
  <2>1. UNCHANGED <<vPurchases, vSince, vRecorded, vPage>>
    BY <1>1 DEF Verbs!Register, Verbs!Settles, Verbs!SdkAttaches, Verbs!SdkAttachFails,
                Verbs!AttachLocal, Verbs!Unregister
  <2>2. QED
    BY <1>1, <2>1, StepCatalogInv DEF VerbsInv, LedgerInv
<1>2. ASSUME UNCHANGED <<vSlot, vReg>> PROVE CatalogInv'
  BY <1>2 DEF VerbsInv, CatalogInv
<1>3. ASSUME NEW day \in Days, Verbs!Record(day) PROVE VerbsInv'
  <2> DEFINE row == [n |-> vRecorded + 1, day |-> day]
  <2>1. /\ vRecorded < MaxPurchases /\ vRecorded' = vRecorded + 1
        /\ vPurchases' = Append(vPurchases, row) /\ vSince' = Append(vSince, row)
        /\ UNCHANGED <<vSlot, vReg, vPage>>
    BY <1>3 DEF Verbs!Record, Verbs!Appended
  <2>2. vRecorded \in 0..MaxPurchases /\ MaxPurchases \in Nat
    BY HandlersAssumption DEF VerbsInv, LedgerInv
  <2>3. row \in Verbs!Purchase /\ vRecorded' \in 0..MaxPurchases
    BY <2>1, <2>2 DEF Verbs!Purchase
  <2>4. LedgerInv'
    BY <2>1, <2>3 DEF VerbsInv, LedgerInv
  <2>5. QED
    BY <1>2, <2>1, <2>4 DEF VerbsInv
<1>4. CASE Verbs!Tear
  <2>1. LedgerInv'
    BY <1>4 DEF Verbs!Tear, VerbsInv, LedgerInv
  <2>2. QED
    BY <1>2, <1>4, <2>1 DEF Verbs!Tear, VerbsInv
<1>5. ASSUME NEW days, NEW limit, Verbs!List(days, limit) PROVE VerbsInv'
  <2>1. UNCHANGED <<vSlot, vReg, vPurchases, vSince, vRecorded>>
    BY <1>5 DEF Verbs!List
  <2>2. vPage'.rows \subseteq Range(vPurchases)
    BY <1>5 DEF Verbs!List, Verbs!ToSet, Range
  <2>3. Range(vPurchases) \subseteq Verbs!Purchase
    BY DEF VerbsInv, LedgerInv, Range
  <2>4. LedgerInv'
    BY <2>1, <2>2, <2>3 DEF VerbsInv, LedgerInv
  <2>5. QED
    BY <1>2, <2>1, <2>4 DEF VerbsInv
<1>6. CASE UNCHANGED Verbs!vars
  BY <1>6 DEF Verbs!vars, VerbsInv, CatalogInv, LedgerInv
<1>7. QED
  BY <1>1, <1>3, <1>4, <1>5, <1>6 DEF Verbs!Next

(* Whoever else registers, attaches or tears down over the catalog,        *)
(* nothing is served after the teardown and a registration that is alone   *)
(* serves its own; and no recorded purchase is lost (register.ts:452-604,  *)
(* purchase-ledger.ts:83-91).                                              *)
THEOREM VerbsStayRight == Spec => []VerbsStayTrue
<1>1. Init => VerbsInv
  BY InitVerbsInv DEF Init
<1>2. VerbsInv /\ [Next]_vars => VerbsInv'
  BY EachFamilySteps, StepVerbsInv
<1>3. VerbsInv => VerbsStayTrue
  <2> SUFFICES ASSUME VerbsInv PROVE VerbsStayTrue
    OBVIOUS
  <2>1. Verbs!NothingServedAfterTeardown
    <3> SUFFICES ASSUME \A r \in Regs : vReg[r].sdk # "none" => vReg[r].torn /\ vReg[r].local # "waiting",
                        NEW v \in Verbs!Verbs, vSlot[v].who # "nobody"
                 PROVE  FALSE
      BY DEF Verbs!NothingServedAfterTeardown
    <3>1. vSlot[v].who \in Regs
      BY DEF VerbsInv, CatalogInv, VerbSlot
    <3>2. Holds(vReg[vSlot[v].who], v)
      BY <3>1 DEF VerbsInv, CatalogInv
    <3>3. QED
      BY <3>1, <3>2 DEF Holds
  <2>2. Verbs!ReadyServesItsOwn
    <3> SUFFICES ASSUME NEW r \in Regs, vReg[r].lone, vReg[r].local = "attached", ~vReg[r].torn
                 PROVE  \A v \in Verbs!Verbs :
                          vSlot[v] = Verbs!HandlerOf(r, IF v \in Verbs!SdkOnly THEN "sdk" ELSE "local")
      BY DEF Verbs!ReadyServesItsOwn
    <3>1. Stage(vReg[r]) /\ Serves(r, vReg[r], vSlot)
      BY DEF VerbsInv, CatalogInv
    <3>2. QED
      BY <3>1 DEF Stage, Serves
  <2>3. Verbs!RecordedSinceTheTear
    <3>1. vSince = vPurchases /\ vPurchases \in Seq(Verbs!Purchase)
      BY DEF VerbsInv, LedgerInv
    <3>2. Len(vPurchases) \in Nat /\ Len(vPurchases) - Len(vPurchases) + 1 = 1
      BY <3>1
    <3>3. SubSeq(vPurchases, 1, Len(vPurchases)) = vPurchases
      BY <3>1
    <3>4. QED
      BY <3>1, <3>2, <3>3 DEF Verbs!RecordedSinceTheTear
  <2>4. QED
    BY <2>1, <2>2, <2>3 DEF VerbsStayTrue, Verbs!VerbsStayTrue
<1>4. QED
  BY <1>1, <1>2, <1>3, PTL DEF Spec

-----------------------------------------------------------------------------
(* Inbox pages.  The order of a listing, and its first n rows.             *)
Ahead(j, i) == Pages!Before(pMirror[j].at, j, pMirror[i].at, i)
AheadOf(i, rows) == {j \in rows : Ahead(j, i)}
Listed(rows) == rows \in SUBSET Ids /\ \A i \in rows : pMirror[i].at \in Nat

LEMMA SameCardinality == \A S : Pages!Cardinality(S) = Cardinality(S)
BY Zenon DEF Pages!Cardinality, Cardinality

(* A set of naturals has a least member.                                   *)
LEMMA LeastOfNaturals ==
  ASSUME NEW T \in SUBSET Nat, T # {}
  PROVE  \E x \in T : \A y \in T : x <= y
<1>1. PICK x \in T : \A y \in T : ~ (<<y, x>> \in OpToRel(<, Nat))
  BY NatLessThanWellFounded, WFMin
<1>2. ASSUME NEW y \in T, y < x PROVE <<y, x>> \in OpToRel(<, Nat)
  <2>1. SUFFICES <<y, x>> \in {pair \in Nat \X Nat : pair[1] < pair[2]}
    BY Zenon DEF OpToRel
  <2>2. QED
    BY <1>2
<1>3. \A y \in T : ~ (y < x)
  BY <1>1, <1>2, Zenon
<1>4. QED
  BY <1>3

LEMMA OrderIsTotal ==
  ASSUME NEW rows, Listed(rows)
  PROVE  \A i, j, k \in rows : /\ ~Ahead(i, i) /\ ~(Ahead(i, j) /\ Ahead(j, i))
                               /\ Ahead(i, j) /\ Ahead(j, k) => Ahead(i, k)
                               /\ i = j \/ Ahead(i, j) \/ Ahead(j, i)
<1>1. \A i \in rows : i \in Nat /\ pMirror[i].at \in Nat
  BY HandlersAssumption DEF Listed
<1>2. QED
  BY <1>1 DEF Ahead, Pages!Before

LEMMA AheadIsFinite ==
  ASSUME NEW rows, Listed(rows), NEW i \in rows
  PROVE  /\ IsFiniteSet(rows) /\ Cardinality(rows) \in Nat
         /\ AheadOf(i, rows) \in SUBSET rows /\ IsFiniteSet(AheadOf(i, rows))
         /\ Cardinality(AheadOf(i, rows)) \in Nat
<1>1. IsFiniteSet(rows)
  BY HandlersAssumption, FS_Subset DEF Listed
<1>2. AheadOf(i, rows) \in SUBSET rows
  BY DEF AheadOf
<1>3. IsFiniteSet(AheadOf(i, rows))
  BY <1>1, <1>2, FS_Subset
<1>4. QED
  BY <1>1, <1>2, <1>3, FS_CardinalityType

(* What is ahead has fewer ahead of it.                                    *)
LEMMA AheadHasFewer ==
  ASSUME NEW rows, Listed(rows), NEW i \in rows, NEW j \in rows, Ahead(j, i)
  PROVE  Cardinality(AheadOf(j, rows)) < Cardinality(AheadOf(i, rows))
<1>1. AheadOf(j, rows) \in SUBSET AheadOf(i, rows) /\ j \in AheadOf(i, rows) \ AheadOf(j, rows)
  BY OrderIsTotal DEF AheadOf
<1>2. /\ Cardinality(AheadOf(j, rows)) <= Cardinality(AheadOf(i, rows))
      /\ Cardinality(AheadOf(j, rows)) = Cardinality(AheadOf(i, rows)) => AheadOf(i, rows) = AheadOf(j, rows)
  BY <1>1, AheadIsFinite, FS_Subset
<1>3. Cardinality(AheadOf(i, rows)) \in Nat /\ Cardinality(AheadOf(j, rows)) \in Nat
  BY AheadIsFinite
<1>4. QED
  BY <1>1, <1>2, <1>3

(* The first n rows are the ones ahead of all others, and all of them when *)
(* they are fewer than n.                                                  *)
LEMMA FirstRows ==
  ASSUME NEW rows, Listed(rows), NEW n \in Nat
  PROVE  /\ Pages!FirstOf(n, rows) \subseteq rows /\ Listed(Pages!FirstOf(n, rows))
         /\ \A i \in Pages!FirstOf(n, rows), j \in rows : Ahead(j, i) => j \in Pages!FirstOf(n, rows)
         /\ Cardinality(Pages!FirstOf(n, rows)) < n => Pages!FirstOf(n, rows) = rows
<1> DEFINE first == Pages!FirstOf(n, rows)
<1>1. first = {i \in rows : Cardinality(AheadOf(i, rows)) < n}
  BY SameCardinality DEF Pages!FirstOf, AheadOf, Ahead
<1> HIDE DEF first
<1>2. first \subseteq rows /\ Listed(first)
  BY <1>1 DEF Listed
<1>3. ASSUME NEW i \in first, NEW j \in rows, Ahead(j, i) PROVE j \in first
  <2>1. Cardinality(AheadOf(j, rows)) < Cardinality(AheadOf(i, rows))
    BY <1>2, <1>3, AheadHasFewer
  <2>2. Cardinality(AheadOf(i, rows)) \in Nat /\ Cardinality(AheadOf(j, rows)) \in Nat
    BY <1>2, AheadIsFinite
  <2>3. QED
    BY <1>1, <2>1, <2>2
<1>4. ASSUME first # rows PROVE ~(Cardinality(first) < n)
  <2> DEFINE left == rows \ first
             ranks == {Cardinality(AheadOf(i, rows)) : i \in left}
  <2>1. ranks \in SUBSET Nat /\ ranks # {}
    BY <1>2, <1>4, AheadIsFinite
  <2>2. PICK least \in ranks : \A rank \in ranks : least <= rank
    BY <2>1, LeastOfNaturals
  <2>3. PICK i \in left : least = Cardinality(AheadOf(i, rows))
    BY <2>2
  <2>4. AheadOf(i, rows) \in SUBSET first
    <3>1. ASSUME NEW j \in AheadOf(i, rows), j \notin first PROVE FALSE
      <4>1. j \in rows /\ Ahead(j, i) /\ j \in left
        BY <3>1 DEF AheadOf
      <4>2. Cardinality(AheadOf(j, rows)) < least /\ least <= Cardinality(AheadOf(j, rows))
        BY <2>2, <2>3, <4>1, AheadHasFewer
      <4>3. least \in Nat /\ Cardinality(AheadOf(j, rows)) \in Nat
        BY <2>1, <2>2, <4>1, AheadIsFinite
      <4>4. QED
        BY <4>2, <4>3
    <3>2. QED
      BY <3>1
  <2>5. IsFiniteSet(first)
    BY <1>2, HandlersAssumption, FS_Subset DEF Listed
  <2>6. Cardinality(AheadOf(i, rows)) <= Cardinality(first)
    BY <2>4, <2>5, FS_Subset
  <2>7. ~(Cardinality(AheadOf(i, rows)) < n)
    BY <1>1, <2>3
  <2>8. Cardinality(AheadOf(i, rows)) \in Nat /\ Cardinality(first) \in Nat
    BY <2>3, <2>5, AheadIsFinite, FS_CardinalityType
  <2>9. QED
    BY <2>6, <2>7, <2>8
<1>5. QED
  BY <1>2, <1>3, <1>4 DEF first

(* No more than n rows are their first n.                                  *)
LEMMA FewRows ==
  ASSUME NEW rows, Listed(rows), NEW n \in Nat, Cardinality(rows) <= n
  PROVE  Pages!FirstOf(n, rows) = rows
<1>1. ASSUME NEW i \in rows PROVE Cardinality(AheadOf(i, rows)) < n
  <2>1. AheadOf(i, rows) \in SUBSET rows /\ i \notin AheadOf(i, rows)
    BY OrderIsTotal DEF AheadOf
  <2>2. /\ Cardinality(AheadOf(i, rows)) <= Cardinality(rows)
        /\ Cardinality(AheadOf(i, rows)) = Cardinality(rows) => rows = AheadOf(i, rows)
    BY <2>1, AheadIsFinite, FS_Subset
  <2>3. Cardinality(AheadOf(i, rows)) \in Nat /\ Cardinality(rows) \in Nat
    BY AheadIsFinite
  <2>4. QED
    BY <2>1, <2>2, <2>3
<1>2. QED
  BY <1>1, SameCardinality DEF Pages!FirstOf, AheadOf, Ahead

(* Rows that are not none have a last one.                                 *)
LEMMA LastRow ==
  ASSUME NEW rows, Listed(rows), rows # {}
  PROVE  /\ Pages!LastOf(rows) \in rows
         /\ \A j \in rows : j = Pages!LastOf(rows) \/ Ahead(j, Pages!LastOf(rows))
<1> DEFINE behind(i) == {j \in rows : Ahead(i, j)}
           ranks == {Cardinality(behind(i)) : i \in rows}
<1>0. IsFiniteSet(rows)
  BY HandlersAssumption, FS_Subset DEF Listed
<1>1. ASSUME NEW i \in rows
      PROVE  behind(i) \in SUBSET rows /\ IsFiniteSet(behind(i)) /\ Cardinality(behind(i)) \in Nat
  <2>1. behind(i) \in SUBSET rows
    OBVIOUS
  <2>2. IsFiniteSet(behind(i))
    BY <1>0, <2>1, FS_Subset
  <2>3. QED
    BY <2>1, <2>2, FS_CardinalityType
<1>2. ranks \in SUBSET Nat /\ ranks # {}
  BY <1>1
<1>3. PICK least \in ranks : \A rank \in ranks : least <= rank
  BY <1>2, LeastOfNaturals
<1>4. PICK i \in rows : least = Cardinality(behind(i))
  BY <1>3
<1>5. ASSUME NEW j \in rows, Ahead(i, j) PROVE FALSE
  <2>1. behind(j) \in SUBSET behind(i) /\ j \in behind(i) \ behind(j)
    BY <1>5, OrderIsTotal
  <2>2. /\ Cardinality(behind(j)) <= Cardinality(behind(i))
        /\ Cardinality(behind(i)) = Cardinality(behind(j)) => behind(i) = behind(j)
    BY <1>1, <2>1, FS_Subset
  <2>3. Cardinality(behind(i)) <= Cardinality(behind(j))
    BY <1>3, <1>4
  <2>4. QED
    BY <1>1, <2>1, <2>2, <2>3
<1>6. \A j \in rows \ {i} : Pages!Before(pMirror[j].at, j, pMirror[i].at, i)
  BY <1>5, OrderIsTotal DEF Ahead
<1>7. /\ Pages!LastOf(rows) \in rows
      /\ \A j \in rows \ {Pages!LastOf(rows)} :
           Pages!Before(pMirror[j].at, j, pMirror[Pages!LastOf(rows)].at, Pages!LastOf(rows))
  BY <1>6 DEF Pages!LastOf
<1>8. QED
  BY <1>7 DEF Ahead

-----------------------------------------------------------------------------
(* Where a walk stands: what it handed out of the items that matched all   *)
(* along is what is not after its position.                                *)
Position == [at : Pages!Times, id : Ids]
Walked(some, query, after, got) ==
  \A i \in some : /\ i \in Pages!Matching(query)
                  /\ got[i] = IF Pages!After(after, i) THEN 0 ELSE 1
PagesTyped ==
  /\ pMirror \in [Ids -> Pages!Item \cup {None}]
  /\ pCursor \in [Providers -> 0..MaxTime] /\ pStatus \in [Providers -> Pages!Status]
  /\ pChanges \in 0..MaxChanges /\ pSteady \in SUBSET Ids
  /\ {pPage.partial, pPage.more} \subseteq BOOLEAN
OutagesArePolled == \A p \in Providers : pStatus[p].state = "unavailable" => pStatus[p].polled
WalkInv ==
  /\ pReader.got \in [Ids -> Nat]
  /\ pReader = Pages!NoReader => ~pPage.more
  /\ pReader # Pages!NoReader =>
       /\ pReader.query \in Pages!Query /\ pReader.after \in Position \cup {None}
       /\ Walked(pSteady, pReader.query, pReader.after, pReader.got)
       /\ ~pPage.more => \A i \in pSteady : ~Pages!After(pReader.after, i)
PagesInv == PagesTyped /\ OutagesArePolled /\ WalkInv /\ Pages!OutagesAreSaid

LEMMA PagesBounds ==
  /\ Ids \subseteq Nat /\ MaxTime \in Nat /\ Pages!Times \subseteq Nat /\ None \notin Position
BY HandlersAssumption DEF Position, Pages!Times

LEMMA RowsAreListed ==
  ASSUME pMirror \in [Ids -> Pages!Item \cup {None}], NEW query, NEW position
  PROVE  /\ Pages!Matching(query) \subseteq Ids
         /\ \A i \in Pages!Matching(query) : pMirror[i] \in Pages!Item /\ pMirror[i].at \in Pages!Times
         /\ Pages!Rows(query, position) =
              {i \in Pages!Matching(query) : Pages!After(position, i)}
         /\ Listed(Pages!Rows(query, position))
<1>1. /\ Pages!Matching(query) \subseteq Ids
      /\ \A i \in Pages!Matching(query) : pMirror[i] \in Pages!Item
  BY DEF Pages!Matching, Pages!Present
<1>2. \A i \in Pages!Matching(query) : pMirror[i].at \in Pages!Times /\ pMirror[i].at \in Nat
  BY <1>1, HandlersAssumption DEF Pages!Item, Pages!Times
<1>3. QED
  BY <1>1, <1>2 DEF Pages!Rows, Listed

(* A page hands out the first rows after the position and moves it to the  *)
(* last of them; with no more rows to come nothing is after it.            *)
LEMMA AnswerWalks ==
  ASSUME pMirror \in [Ids -> Pages!Item \cup {None}], NEW query \in Pages!Query,
         NEW position \in Position \cup {None}, NEW got \in [Ids -> Nat],
         NEW some \in SUBSET Ids, Walked(some, query, position, got),
         Pages!Answer(query, position, got)
  PROVE  /\ pReader'.query = query /\ pReader'.after \in Position \cup {None}
         /\ pReader'.got \in [Ids -> Nat] /\ pReader' # Pages!NoReader
         /\ Walked(some, query, pReader'.after, pReader'.got)
         /\ ~pPage'.more => \A i \in some : ~Pages!After(pReader'.after, i)
         /\ {pPage'.partial, pPage'.more} \subseteq BOOLEAN
<1> DEFINE rows == Pages!Rows(query, position)
           fetched == Pages!FirstOf(query.limit + 1, rows)
           items == Pages!FirstOf(query.limit, fetched)
           last == Pages!LastOf(items)
           after == IF items = {} THEN position ELSE [at |-> pMirror[last].at, id |-> last]
           given == [i \in Ids |-> IF i \in items THEN got[i] + 1 ELSE got[i]]
<1>1. /\ pReader' = [query |-> query, after |-> after, got |-> given]
      /\ pPage'.more = (Pages!Cardinality(fetched) > query.limit)
      /\ {pPage'.partial, pPage'.more} \subseteq BOOLEAN
  BY DEF Pages!Answer, Pages!HasMore
<1>2. query.limit \in Nat /\ query.limit + 1 \in Nat
  BY DEF Pages!Query
<1>3. /\ Listed(rows) /\ rows = {i \in Pages!Matching(query) : Pages!After(position, i)}
      /\ \A i \in Pages!Matching(query) : pMirror[i].at \in Pages!Times
      /\ Pages!Matching(query) \subseteq Ids
  BY RowsAreListed
<1> HIDE DEF rows
<1>4. /\ Listed(fetched) /\ fetched \subseteq rows
      /\ \A i \in fetched, j \in rows : Ahead(j, i) => j \in fetched
      /\ Cardinality(fetched) < query.limit + 1 => fetched = rows
  BY <1>2, <1>3, FirstRows
<1> HIDE DEF fetched
<1>5. /\ Listed(items) /\ items \subseteq fetched
      /\ \A i \in items, j \in fetched : Ahead(j, i) => j \in items
      /\ Cardinality(fetched) <= query.limit => items = fetched
  BY <1>2, <1>4, FirstRows, FewRows
<1> HIDE DEF items
<1>6. items # {} => last \in items /\ \A j \in items : j = last \/ Ahead(j, last)
  BY <1>5, LastRow
<1> HIDE DEF last
<1>7. after \in Position \cup {None} /\ (items # {} => after \in Position)
  <2>1. CASE items = {}
    BY <2>1
  <2>2. CASE items # {}
    <3>1. last \in Ids /\ pMirror[last].at \in Pages!Times
      BY <1>3, <1>4, <1>5, <1>6, <2>2
    <3>2. QED
      BY <2>2, <3>1 DEF Position
  <2>3. QED
    BY <2>1, <2>2
<1>8. given \in [Ids -> Nat]
  <2>1. \A i \in Ids : got[i] \in Nat /\ got[i] + 1 \in Nat
    OBVIOUS
  <2>2. QED
    BY <2>1
<1>9. pReader' # Pages!NoReader
  BY <1>1, HandlersAssumption DEF Pages!NoReader
(* An item that matches is handed out exactly when the position passes it. *)
<1>10. ASSUME NEW i \in Pages!Matching(query)
       PROVE  /\ i \in items => Pages!After(position, i) /\ ~Pages!After(after, i)
              /\ i \notin items => (Pages!After(position, i) <=> Pages!After(after, i))
  <2>0. i \in Nat /\ pMirror[i].at \in Nat
    BY <1>3, PagesBounds
  <2>1. CASE items = {}
    BY <2>1
  <2>2. CASE items # {}
    <3>1. /\ last \in items /\ last \in rows /\ last \in Nat /\ pMirror[last].at \in Nat
          /\ Pages!After(position, last)
      BY <1>3, <1>4, <1>5, <1>6, <2>2, PagesBounds
    <3>2. after # None /\ after.at = pMirror[last].at /\ after.id = last
      BY <1>7, <2>2, PagesBounds
    <3>3. Pages!After(after, i) <=> Ahead(last, i)
      BY <3>2 DEF Pages!After, Ahead
    <3>4. ASSUME i \in items PROVE Pages!After(position, i) /\ ~Pages!After(after, i)
      <4>1. i \in rows
        BY <1>4, <1>5, <3>4
      <4>2. ~Ahead(last, i)
        BY <1>3, <1>6, <3>1, <3>4, <4>1, OrderIsTotal
      <4>3. QED
        BY <1>3, <3>3, <4>1, <4>2
    <3>5. ASSUME i \notin items, Pages!After(position, i) PROVE Pages!After(after, i)
      <4>1. i \in rows
        BY <1>3, <3>5
      <4>2. ~Ahead(i, last)
        BY <1>4, <1>5, <3>1, <3>5, <4>1
      <4>3. Ahead(last, i)
        BY <1>3, <3>1, <3>5, <4>1, <4>2, OrderIsTotal
      <4>4. QED
        BY <3>3, <4>3
    <3>6. ASSUME ~Pages!After(position, i) PROVE ~Pages!After(after, i)
      <4>1. position # None /\ position.at \in Nat /\ position.id \in Nat
        BY <3>6, PagesBounds DEF Pages!After, Position
      <4>2. QED
        BY <2>0, <3>1, <3>3, <3>6, <4>1 DEF Pages!After, Pages!Before, Ahead
    <3>7. QED
      BY <3>4, <3>5, <3>6
  <2>3. QED
    BY <2>1, <2>2
<1> HIDE DEF after
<1>11. Walked(some, query, after, given)
  <2>1. ASSUME NEW i \in some
        PROVE  /\ i \in Pages!Matching(query)
               /\ given[i] = IF Pages!After(after, i) THEN 0 ELSE 1
    <3>1. i \in Pages!Matching(query) /\ got[i] = IF Pages!After(position, i) THEN 0 ELSE 1
      BY DEF Walked
    <3>2. QED
      BY <1>10, <3>1
  <2>2. QED
    BY <2>1 DEF Walked
<1>12. ASSUME ~pPage'.more, NEW i \in some PROVE ~Pages!After(after, i)
  <2>1. Cardinality(fetched) \in Nat
    BY <1>4, HandlersAssumption, FS_Subset, FS_CardinalityType DEF Listed
  <2>2. Cardinality(fetched) <= query.limit
    <3>1. ~(Pages!Cardinality(fetched) > query.limit)
      BY <1>1, <1>12, Zenon
    <3>2. QED
      BY <1>2, <2>1, <3>1, SameCardinality
  <2>3. items = rows
    BY <1>2, <1>4, <1>5, <2>1, <2>2
  <2>4. i \in Pages!Matching(query)
    BY DEF Walked
  <2>5. QED
    BY <1>3, <1>10, <2>3, <2>4
<1>13. QED
  BY <1>1, <1>7, <1>8, <1>9, <1>11, <1>12

LEMMA AnswerSays ==
  ASSUME PagesInv, NEW query \in Pages!Query, NEW position, NEW got,
         Pages!Answer(query, position, got)
  PROVE  Pages!OutagesAreSaid'
<1> DEFINE state(p) == Pages!WireState(p, Pages!Stored(query, p))
           reported == Pages!Reported(query)
           stranger == IF query.only = Stranger
                       THEN {[provider |-> Stranger, state |-> "unconfigured"]} ELSE {}
<1>1. /\ pPage'.states = {[provider |-> p, state |-> state(p)] : p \in reported} \cup stranger
      /\ pPage'.partial = \E s \in pPage'.states : s.state = "error"
      /\ pPage'.failing = {p \in reported : /\ pStatus[p].state = "unavailable"
                                            /\ pStatus[p].configured # "no"}
  BY DEF Pages!Answer, Pages!Described
<1>2. reported \subseteq Providers
  BY DEF Pages!Reported
<1>3. ASSUME NEW p \in reported PROVE p \in pPage'.failing <=> state(p) = "error"
  <2>1. pStatus[p].state = "unavailable" => pStatus[p].polled
    BY <1>2 DEF PagesInv, OutagesArePolled
  <2>2. QED
    BY <1>1, <2>1 DEF Pages!WireState
<1> HIDE DEF state, reported
<1>4. ASSUME NEW s \in pPage'.states PROVE s.provider \in pPage'.failing <=> s.state = "error"
  <2>1. CASE \E p \in reported : s = [provider |-> p, state |-> state(p)]
    BY <1>3, <2>1
  <2>2. CASE s = [provider |-> Stranger, state |-> "unconfigured"]
    BY <1>1, <1>2, <2>2, HandlersAssumption
  <2>3. QED
    BY <1>1, <2>1, <2>2
<1>5. ASSUME NEW p \in pPage'.failing PROVE pPage'.partial
  <2>1. p \in reported /\ [provider |-> p, state |-> state(p)] \in pPage'.states
    BY <1>1
  <2>2. QED
    BY <1>1, <1>3, <2>1
<1>6. QED
  BY <1>4, <1>5 DEF Pages!OutagesAreSaid

LEMMA InitPagesInv == Pages!Init => PagesInv
<1> SUFFICES ASSUME Pages!Init PROVE PagesInv
  OBVIOUS
<1>1. /\ pPage.more = FALSE /\ pPage.partial = FALSE /\ pPage.states = {} /\ pPage.failing = {}
      /\ pReader = Pages!NoReader /\ pReader.got = [i \in Ids |-> 0] /\ pSteady = {}
      /\ pStatus = [p \in Providers |-> [state |-> "empty", configured |-> "unsaid", polled |-> FALSE]]
  BY DEF Pages!Init, Pages!NoPage, Pages!NoReader
<1>2. PagesTyped
  <2>1. /\ pMirror \in [Ids -> Pages!Item \cup {None}] /\ pSteady \in SUBSET Ids
        /\ {pPage.partial, pPage.more} \subseteq BOOLEAN
    BY <1>1 DEF Pages!Init
  <2>2. pCursor \in [Providers -> 0..MaxTime] /\ pChanges \in 0..MaxChanges
    BY HandlersAssumption DEF Pages!Init
  <2>3. pStatus \in [Providers -> Pages!Status]
    BY <1>1 DEF Pages!Status
  <2>4. QED
    BY <2>1, <2>2, <2>3 DEF PagesTyped
<1>3. OutagesArePolled /\ WalkInv /\ Pages!OutagesAreSaid
  BY <1>1 DEF OutagesArePolled, WalkInv, Pages!OutagesAreSaid
<1>4. QED
  BY <1>2, <1>3 DEF PagesInv

(* The mirror changes under the walk.                                      *)
LEMMA MirrorMoves ==
  ASSUME PagesInv, pMirror' \in [Ids -> Pages!Item \cup {None}], Pages!Watch(pMirror'),
         UNCHANGED <<pReader, pPage>>
  PROVE  WalkInv' /\ pSteady' \in SUBSET Ids /\ Pages!OutagesAreSaid'
<1>1. pSteady' = {i \in pSteady : pMirror'[i] = pMirror[i]}
  BY DEF Pages!Watch
<1>2. ASSUME pReader # Pages!NoReader, NEW i \in pSteady'
      PROVE  /\ i \in Pages!Matching(pReader.query)'
             /\ Pages!After(pReader.after, i)' <=> Pages!After(pReader.after, i)
             /\ i \in pSteady /\ i \in Pages!Matching(pReader.query)
  <2>1. i \in pSteady /\ pMirror'[i] = pMirror[i] /\ i \in Pages!Matching(pReader.query)
    BY <1>1, <1>2 DEF PagesInv, WalkInv, Walked
  <2>2. QED
    BY <2>1 DEF Pages!Matching, Pages!Present, Pages!After
<1>3. WalkInv'
  BY <1>2 DEF PagesInv, WalkInv, Walked
<1>4. QED
  BY <1>1, <1>3 DEF PagesInv, PagesTyped, Pages!OutagesAreSaid

(* The newest of a batch.                                                  *)
LEMMA NewestIsTime ==
  ASSUME NEW S \in SUBSET Pages!Times, S # {}
  PROVE  Pages!Max(S) \in Pages!Times
<1> DEFINE short == {MaxTime - x : x \in S}
<1>1. MaxTime \in Nat /\ \A x \in S : x \in 1..MaxTime
  BY HandlersAssumption DEF Pages!Times
<1>2. short \in SUBSET Nat /\ short # {}
  BY <1>1
<1>3. PICK least \in short : \A y \in short : least <= y
  BY <1>2, LeastOfNaturals
<1>4. PICK x \in S : least = MaxTime - x
  BY <1>3
<1>5. ASSUME NEW y \in S PROVE x >= y
  <2>1. MaxTime - y \in short /\ x \in 1..MaxTime /\ y \in 1..MaxTime
    BY <1>1
  <2>2. MaxTime - x <= MaxTime - y
    BY <1>3, <1>4, <2>1
  <2>3. QED
    BY <1>1, <2>1, <2>2
<1>6. QED
  BY <1>5 DEF Pages!Max

LEMMA StepPagesInv ==
  ASSUME PagesInv, Pages!Next \/ UNCHANGED Pages!vars
  PROVE  PagesInv'
<1>0. /\ pMirror \in [Ids -> Pages!Item \cup {None}]
      /\ pCursor \in [Providers -> 0..MaxTime] /\ pStatus \in [Providers -> Pages!Status]
      /\ pChanges \in 0..MaxChanges /\ MaxChanges \in Nat /\ MaxTime \in Nat
  BY HandlersAssumption DEF PagesInv, PagesTyped
<1>a. ASSUME Pages!Change PROVE pChanges' \in 0..MaxChanges
  BY <1>0, <1>a DEF Pages!Change
<1>b. ASSUME NEW p \in Providers, NEW status \in Pages!Status, pStatus' = [pStatus EXCEPT ![p] = status],
             status.state = "unavailable" => status.polled
      PROVE  pStatus' \in [Providers -> Pages!Status] /\ OutagesArePolled'
  BY <1>0, <1>b DEF PagesInv, OutagesArePolled
<1>c. ASSUME UNCHANGED <<pMirror, pReader, pSteady, pPage>> PROVE WalkInv' /\ Pages!OutagesAreSaid'
  BY <1>c DEF PagesInv, WalkInv, Walked, Pages!OutagesAreSaid, Pages!Matching, Pages!Present, Pages!After
<1>1. ASSUME NEW p \in Providers, NEW some \in SUBSET Ids, NEW batch \in [some -> Pages!Times],
             Pages!PollBrings(p, batch)
      PROVE  PagesInv'
  <2>1. pMirror' \in [Ids -> Pages!Item \cup {None}]
    <3>1. pMirror' = [i \in Ids |-> IF i \in DOMAIN batch
                                   THEN [provider |-> p, at |-> batch[i]] ELSE pMirror[i]]
      BY <1>1 DEF Pages!PollBrings
    <3>2. \A i \in DOMAIN batch : [provider |-> p, at |-> batch[i]] \in Pages!Item
      BY DEF Pages!Item
    <3>3. QED
      BY <1>0, <3>1, <3>2
  <2>2. pCursor' \in [Providers -> 0..MaxTime]
    <3> DEFINE brought == {batch[i] : i \in DOMAIN batch}
    <3>1. brought \in SUBSET Pages!Times /\ brought # {}
      BY <1>1 DEF Pages!PollBrings
    <3>2. Pages!Max(brought) \in 0..MaxTime
      BY <1>0, <3>1, NewestIsTime DEF Pages!Times
    <3>3. pCursor' = [pCursor EXCEPT ![p] = Pages!Max(brought)]
      BY <1>1 DEF Pages!PollBrings
    <3> HIDE DEF brought
    <3>4. QED
      BY <1>0, <3>2, <3>3
  <2>3. pStatus' \in [Providers -> Pages!Status] /\ OutagesArePolled'
    <3> DEFINE status == [state |-> "ready", configured |-> "yes", polled |-> TRUE]
    <3>1. status \in Pages!Status /\ status.state # "unavailable"
      BY DEF Pages!Status
    <3>2. pStatus' = [pStatus EXCEPT ![p] = status]
      BY <1>1 DEF Pages!PollBrings
    <3> HIDE DEF status
    <3>3. QED
      BY <1>b, <3>1, <3>2
  <2>4. /\ pChanges' \in 0..MaxChanges /\ Pages!Watch(pMirror') /\ UNCHANGED <<pReader, pPage>>
    BY <1>1, <1>a DEF Pages!PollBrings
  <2>5. WalkInv' /\ pSteady' \in SUBSET Ids /\ Pages!OutagesAreSaid'
    BY <2>1, <2>4, MirrorMoves
  <2>6. QED
    BY <2>1, <2>2, <2>3, <2>4, <2>5 DEF PagesInv, PagesTyped
<1>2. ASSUME NEW p \in Providers, NEW status \in Pages!Status, Pages!Change, status.polled,
             pStatus' = [pStatus EXCEPT ![p] = status],
             UNCHANGED <<pMirror, pCursor, pReader, pSteady, pPage>>
      PROVE  PagesInv'
  BY <1>2, <1>a, <1>b, <1>c DEF PagesInv, PagesTyped
<1>3. ASSUME NEW p \in Providers, Pages!PollIsQuiet(p) PROVE PagesInv'
  <2> DEFINE status == [state |-> "empty", configured |-> "yes", polled |-> TRUE]
  <2>1. status \in Pages!Status /\ status.polled
    BY DEF Pages!Status
  <2>2. pStatus' = [pStatus EXCEPT ![p] = status] /\ Pages!Change
        /\ UNCHANGED <<pMirror, pCursor, pReader, pSteady, pPage>>
    BY <1>3 DEF Pages!PollIsQuiet
  <2> HIDE DEF status
  <2>3. QED
    BY <1>2, <2>1, <2>2
<1>4. ASSUME NEW p \in Providers, NEW c \in {"yes", "no", "unsaid"}, Pages!PollFails(p, c)
      PROVE  PagesInv'
  <2> DEFINE status == [state |-> "unavailable", configured |-> c, polled |-> TRUE]
  <2>1. status \in Pages!Status /\ status.polled
    BY DEF Pages!Status
  <2>2. pStatus' = [pStatus EXCEPT ![p] = status] /\ Pages!Change
        /\ UNCHANGED <<pMirror, pCursor, pReader, pSteady, pPage>>
    BY <1>4 DEF Pages!PollFails
  <2> HIDE DEF status
  <2>3. QED
    BY <1>2, <2>1, <2>2
<1>5. ASSUME NEW t \in Pages!Times, Pages!Sweep(t) PROVE PagesInv'
  <2>1. /\ pChanges' \in 0..MaxChanges /\ Pages!Watch(pMirror')
        /\ UNCHANGED <<pReader, pPage, pCursor, pStatus>>
        /\ pMirror' \in [Ids -> Pages!Item \cup {None}]
    BY <1>0, <1>5, <1>a DEF Pages!Sweep
  <2>2. WalkInv' /\ pSteady' \in SUBSET Ids /\ Pages!OutagesAreSaid'
    BY <2>1, MirrorMoves
  <2>3. QED
    BY <2>1, <2>2 DEF PagesInv, PagesTyped, OutagesArePolled
<1>6. ASSUME NEW query \in Pages!Query, NEW position \in Position \cup {None},
             NEW got \in [Ids -> Nat], NEW some \in SUBSET Ids, pSteady' = some,
             Walked(some, query, position, got), Pages!Answer(query, position, got),
             UNCHANGED <<pMirror, pCursor, pStatus, pChanges>>
      PROVE  PagesInv'
  <2>1. /\ pReader'.query = query /\ pReader'.after \in Position \cup {None}
        /\ pReader'.got \in [Ids -> Nat] /\ pReader' # Pages!NoReader
        /\ Walked(some, query, pReader'.after, pReader'.got)
        /\ ~pPage'.more => \A i \in some : ~Pages!After(pReader'.after, i)
        /\ {pPage'.partial, pPage'.more} \subseteq BOOLEAN
    BY <1>0, <1>6, AnswerWalks
  <2>2. WalkInv'
    BY <1>6, <2>1 DEF WalkInv, Walked, Pages!Matching, Pages!Present, Pages!After
  <2>3. Pages!OutagesAreSaid'
    BY <1>6, AnswerSays
  <2>4. QED
    BY <1>6, <2>1, <2>2, <2>3 DEF PagesInv, PagesTyped, OutagesArePolled
<1>7. ASSUME NEW query \in Pages!Query, Pages!FirstPage(query) PROVE PagesInv'
  <2> DEFINE none == [i \in Ids |-> 0]
  <2>1. /\ Pages!Answer(query, None, none) /\ pSteady' = Pages!Matching(query)
        /\ UNCHANGED <<pMirror, pCursor, pStatus, pChanges>>
    BY <1>7 DEF Pages!FirstPage, Pages!NoReader
  <2>2. Pages!Matching(query) \in SUBSET Ids /\ none \in [Ids -> Nat]
    BY <1>0, RowsAreListed
  <2>3. Walked(Pages!Matching(query), query, None, none)
    BY <2>2 DEF Walked, Pages!After
  <2> HIDE DEF none
  <2>4. QED
    BY <1>6, <2>1, <2>2, <2>3
<1>8. CASE Pages!NextPage
  <2>1. /\ pPage.more /\ Pages!Answer(pReader.query, pReader.after, pReader.got)
        /\ pSteady' = pSteady /\ UNCHANGED <<pMirror, pCursor, pStatus, pChanges>>
    BY <1>8 DEF Pages!NextPage
  <2>2. /\ pReader.query \in Pages!Query /\ pReader.after \in Position \cup {None}
        /\ pReader.got \in [Ids -> Nat] /\ pSteady \in SUBSET Ids
        /\ Walked(pSteady, pReader.query, pReader.after, pReader.got)
    BY <2>1 DEF PagesInv, WalkInv, PagesTyped
  <2>3. QED
    BY <1>6, <2>1, <2>2
<1>9. CASE Pages!Leave
  <2>1. /\ pReader' = Pages!NoReader /\ pPage' = Pages!NoPage /\ pSteady' = {}
        /\ UNCHANGED <<pMirror, pCursor, pStatus, pChanges>>
    BY <1>9 DEF Pages!Leave
  <2>2. /\ pReader'.got \in [Ids -> Nat] /\ pPage'.more = FALSE /\ pPage'.partial = FALSE
        /\ pPage'.states = {} /\ pPage'.failing = {}
    BY <2>1 DEF Pages!NoReader, Pages!NoPage
  <2>3. WalkInv' /\ Pages!OutagesAreSaid'
    BY <2>1, <2>2 DEF WalkInv, Pages!OutagesAreSaid, Pages!NoReader
  <2>4. QED
    BY <2>1, <2>2, <2>3 DEF PagesInv, PagesTyped, OutagesArePolled
<1>10. CASE UNCHANGED Pages!vars
  <2>1. WalkInv' /\ Pages!OutagesAreSaid'
    BY <1>10, <1>c DEF Pages!vars
  <2>2. QED
    BY <1>10, <2>1 DEF Pages!vars, PagesInv, PagesTyped, OutagesArePolled
<1>11. QED
  BY <1>1, <1>3, <1>4, <1>5, <1>7, <1>8, <1>9, <1>10 DEF Pages!Next

(* A walk over the pages misses nothing that matched all through it and    *)
(* hands nothing of it out twice, whatever is stored and deleted between   *)
(* the pages, and an answer that calls itself complete hides no outage     *)
(* (inbox/aggregator.ts:28-38, cursor-store.ts:117-123).                   *)
THEOREM WalksTellAll == Spec => []PagesTellAll
<1>1. Init => PagesInv
  BY InitPagesInv DEF Init
<1>2. PagesInv /\ [Next]_vars => PagesInv'
  BY EachFamilySteps, StepPagesInv
<1>3. PagesInv => PagesTellAll
  <2> SUFFICES ASSUME PagesInv PROVE PagesTellAll
    OBVIOUS
  <2>1. ASSUME pReader # Pages!NoReader, NEW i \in pSteady
        PROVE  pReader.got[i] <= 1 /\ (~pPage.more => pReader.got[i] = 1)
    BY <2>1 DEF PagesInv, WalkInv, Walked
  <2>2. QED
    BY <2>1 DEF PagesInv, PagesTellAll, Pages!PagesMissNothing
<1>4. QED
  BY <1>1, <1>2, <1>3, PTL DEF Spec

-----------------------------------------------------------------------------
(* Remote peers.  What a dispatch holds, what keeps the files of two       *)
(* dispatches apart, and the pooled identity, whose key is on disk.        *)
RemoteCall == [at: {"idle", "resolving", "placing", "running"},
               kind: Remote!Kinds, ref: Refs \cup {None}, old: Remote!Identities \cup {None},
               file: Remote!Files \cup {None}, alive: BOOLEAN, held: BOOLEAN]
RemoteTyped ==
  /\ xSurface \in {"up", "released"} /\ xSwept \in BOOLEAN /\ xTorn \in BOOLEAN
  /\ xPeerRef \in Refs /\ xPool \in Remote!Identities \cup {None}
  /\ xFiles \in SUBSET Remote!Files /\ xLeaked \in SUBSET Remote!Files
  /\ xWritten \in 0..MaxFiles /\ xOvertaken \in SUBSET Calls
  /\ xCall \in [Calls -> RemoteCall] /\ xRestarts \in 0..MaxRestarts

Going(d, swept, written) ==
  /\ d.at \in {"idle", "resolving"} => d.file = None
  /\ d.at = "resolving" => d.kind # "plain"
  /\ d.at \in {"resolving", "placing"} => d.ref \in Refs
  /\ d.at = "placing" => d.kind = "ssh" /\ d.file # None /\ (d.old # None => d.old.file # d.file)
  /\ d.at = "running" /\ d.kind # "plain" => d.file # None
  /\ d.file # None => swept /\ d.file.kind = d.kind /\ d.file.n <= written
  /\ d.old # None => d.old.file.n <= written
Apart(d, e) ==
  /\ (d.at = "placing" \/ d.kind = "cloud") /\ d.file # None => e.file # d.file
  /\ d.at = "placing" /\ e.old # None => e.old.file # d.file
PoolOf(pool, d) == d.at = "placing" /\ pool # None => pool.file # d.file
Pooled(pool, surface, files, swept, written) ==
  pool # None =>
    /\ swept /\ pool.file.kind = "ssh" /\ pool.file.n <= written
    /\ surface = "up" => pool.file \in files
PlacingIsThere(d, surface, files) == d.at = "placing" /\ surface = "up" => d.file \in files
Lived == \A f \in xFiles : f.life <= xRestarts

RemoteInv ==
  /\ RemoteTyped /\ Lived /\ Pooled(xPool, xSurface, xFiles, xSwept, xWritten)
  /\ \A c \in Calls : /\ Going(xCall[c], xSwept, xWritten) /\ PoolOf(xPool, xCall[c])
                      /\ PlacingIsThere(xCall[c], xSurface, xFiles)
  /\ \A c, d \in Calls : c # d => Apart(xCall[c], xCall[d])
  /\ Remote!KeyFilesAreThere /\ Remote!CredentialsAreSingleUse

-----------------------------------------------------------------------------
LEMMA RemoteBounds ==
  /\ MaxFiles \in Nat /\ MaxRestarts \in Nat
  /\ None \notin Remote!Files /\ None \notin Remote!Identities
  /\ Remote!Idle \in RemoteCall /\ Remote!Idle.at = "idle" /\ Remote!Idle.file = None
  /\ Remote!Idle.old = None /\ Remote!Idle.kind = "plain"
BY HandlersAssumption DEF Remote!Idle, RemoteCall, Remote!Kinds

LEMMA InitRemoteInv == Remote!Init => RemoteInv
<1> SUFFICES ASSUME Remote!Init PROVE RemoteInv
  OBVIOUS
<1>1. /\ xCall \in [Calls -> RemoteCall] /\ \A c \in Calls : xCall[c] = Remote!Idle
      /\ xFiles = {} /\ xPool = None
  BY RemoteBounds DEF Remote!Init
<1>2. RemoteTyped
  <2>1. 0 \in 0..MaxFiles /\ 0 \in 0..MaxRestarts
    BY RemoteBounds
  <2>2. /\ xSurface = "up" /\ xSwept = FALSE /\ xTorn = FALSE /\ xPeerRef \in Refs
        /\ xWritten = 0 /\ xLeaked = {} /\ xOvertaken = {} /\ xRestarts = 0
    BY DEF Remote!Init
  <2>3. QED
    BY <1>1, <2>1, <2>2 DEF RemoteTyped
<1>3. \A c \in Calls : /\ Going(Remote!Idle, xSwept, xWritten) /\ PoolOf(xPool, Remote!Idle)
                       /\ PlacingIsThere(Remote!Idle, xSurface, xFiles) /\ Apart(Remote!Idle, Remote!Idle)
  BY RemoteBounds DEF Going, PoolOf, PlacingIsThere, Apart
<1>4. Lived /\ Pooled(xPool, xSurface, xFiles, xSwept, xWritten)
      /\ Remote!KeyFilesAreThere /\ Remote!CredentialsAreSingleUse
  BY <1>1, RemoteBounds DEF Lived, Pooled, Remote!KeyFilesAreThere, Remote!CredentialsAreSingleUse
<1>5. QED
  BY <1>1, <1>2, <1>3, <1>4 DEF RemoteInv

(* A step of one dispatch that takes no other's file without noting it.    *)
LEMMA OneDispatchMoves ==
  ASSUME RemoteInv, NEW c \in Calls, NEW to \in RemoteCall, xCall' = [xCall EXCEPT ![c] = to],
         UNCHANGED <<xSurface, xSwept, xTorn, xPeerRef, xRestarts>>,
         xPool' \in Remote!Identities \cup {None}, xFiles' \in SUBSET Remote!Files,
         xLeaked' \in SUBSET Remote!Files, xWritten' \in 0..MaxFiles, xOvertaken' \in SUBSET Calls,
         xWritten <= xWritten', xLeaked \subseteq xLeaked', xOvertaken \ {c} \subseteq xOvertaken',
         Going(to, xSwept, xWritten'), PoolOf(xPool', to),
         PlacingIsThere(to, xSurface, xFiles'),
         xSurface = "up" /\ to.file # None /\ c \notin xOvertaken' => to.file \in xFiles',
         Pooled(xPool', xSurface, xFiles', xSwept, xWritten'),
         \A f \in xFiles' \ xFiles : f.life <= xRestarts /\ (f \in xLeaked' \/ to.file = f),
         \/ to.file = xCall[c].file \/ xCall[c].kind # "cloud" \/ xCall[c].file = None
         \/ xCall[c].file \notin xFiles' \/ xCall[c].file \in xLeaked',
         \A d \in Calls : d # c =>
            /\ Apart(to, xCall[d]) /\ Apart(xCall[d], to) /\ PoolOf(xPool', xCall[d])
            /\ xCall[d].file \in xFiles /\ xCall[d].file \notin xFiles' =>
                 d \in xOvertaken' /\ xCall[d].at # "placing"
  PROVE  RemoteInv'
<1>0. /\ RemoteTyped /\ Lived
      /\ \A d \in Calls : /\ Going(xCall[d], xSwept, xWritten)
                          /\ PlacingIsThere(xCall[d], xSurface, xFiles)
      /\ \A d, e \in Calls : d # e => Apart(xCall[d], xCall[e])
      /\ xCall \in [Calls -> RemoteCall] /\ xFiles \in SUBSET Remote!Files
      /\ xWritten \in 0..MaxFiles /\ xWritten' \in 0..MaxFiles /\ MaxFiles \in Nat
  BY RemoteBounds DEF RemoteInv, RemoteTyped
<1>1. /\ xCall'[c] = to /\ \A d \in Calls : d # c => xCall'[d] = xCall[d]
      /\ xCall' \in [Calls -> RemoteCall]
  BY <1>0
<1>2. RemoteTyped'
  BY <1>0, <1>1 DEF RemoteTyped
<1>3. Lived'
  BY <1>0 DEF Lived
<1>4. ASSUME NEW d \in Calls
      PROVE  /\ Going(xCall'[d], xSwept', xWritten') /\ PoolOf(xPool', xCall'[d])
             /\ PlacingIsThere(xCall'[d], xSurface', xFiles')
  <2>1. CASE d = c
    BY <1>1, <2>1
  <2>2. CASE d # c
    <3>1. xCall'[d] = xCall[d] /\ xCall[d] \in RemoteCall
      BY <1>0, <1>1, <2>2
    <3>2. Going(xCall[d], xSwept, xWritten')
      <4>1. Going(xCall[d], xSwept, xWritten)
        BY <1>0
      <4>2. (xCall[d].file # None => xCall[d].file.n \in Nat)
            /\ (xCall[d].old # None => xCall[d].old.file.n \in Nat)
        BY <1>0, <3>1 DEF RemoteCall, Remote!Files, Remote!Identities
      <4>3. (xCall[d].file # None => xCall[d].file.n <= xWritten')
            /\ (xCall[d].old # None => xCall[d].old.file.n <= xWritten')
        BY <1>0, <4>1, <4>2 DEF Going
      <4>4. QED
        BY <4>1, <4>3 DEF Going
    <3>3. PlacingIsThere(xCall[d], xSurface, xFiles')
      BY <1>0, <2>2 DEF PlacingIsThere
    <3>4. QED
      BY <2>2, <3>1, <3>2, <3>3
  <2>3. QED
    BY <2>1, <2>2
<1>5. ASSUME NEW d \in Calls, NEW e \in Calls, d # e PROVE Apart(xCall'[d], xCall'[e])
  BY <1>0, <1>1, <1>5
<1>6. Remote!KeyFilesAreThere'
  <2> SUFFICES ASSUME NEW d \in Calls, xSurface = "up", xCall'[d].file # None, d \notin xOvertaken'
               PROVE  xCall'[d].file \in xFiles'
    BY DEF Remote!KeyFilesAreThere
  <2>1. CASE d = c
    BY <1>1, <2>1
  <2>2. CASE d # c
    BY <1>1, <2>2 DEF RemoteInv, Remote!KeyFilesAreThere
  <2>3. QED
    BY <2>1, <2>2
<1>7. Remote!CredentialsAreSingleUse'
  <2> SUFFICES ASSUME NEW f \in xFiles', f.kind = "cloud", f.life = xRestarts, f \notin xLeaked'
               PROVE  \E d \in Calls : xCall'[d].file = f
    BY DEF Remote!CredentialsAreSingleUse
  <2>1. CASE f \notin xFiles
    BY <1>1, <2>1
  <2>2. CASE f \in xFiles
    <3>1. PICK d \in Calls : xCall[d].file = f
      BY <2>2 DEF RemoteInv, Remote!CredentialsAreSingleUse
    <3>2. CASE d # c
      BY <1>1, <3>1, <3>2
    <3>3. CASE d = c
      <4>1. f # None /\ xCall[c].kind = "cloud"
        BY <1>0, <2>2, <3>1, <3>3, RemoteBounds DEF Going
      <4>2. to.file = f
        BY <3>1, <3>3, <4>1
      <4>3. QED
        BY <1>1, <4>2
    <3>4. QED
      BY <3>2, <3>3
  <2>3. QED
    BY <2>1, <2>2
<1>8. QED
  BY <1>2, <1>3, <1>4, <1>5, <1>6, <1>7 DEF RemoteInv

LEMMA StepOfADispatch ==
  ASSUME RemoteInv, NEW c \in Calls,
         (\E kind \in Remote!Kinds : Remote!Dispatch(c, kind)) \/ Remote!Advances(c)
  PROVE  RemoteInv'
<1> DEFINE was == xCall[c]
<1> USE DEF Remote!diskVars
<1>0. /\ was \in RemoteCall /\ Going(was, xSwept, xWritten) /\ PoolOf(xPool, was)
      /\ PlacingIsThere(was, xSurface, xFiles) /\ Lived
      /\ Pooled(xPool, xSurface, xFiles, xSwept, xWritten)
      /\ xPool \in Remote!Identities \cup {None} /\ xFiles \in SUBSET Remote!Files
      /\ xLeaked \in SUBSET Remote!Files /\ xWritten \in 0..MaxFiles /\ xOvertaken \in SUBSET Calls
      /\ xPeerRef \in Refs /\ xRestarts \in 0..MaxRestarts
  BY DEF RemoteInv, RemoteTyped
<1>a. \A d \in Calls : /\ xCall[d] \in RemoteCall /\ PoolOf(xPool, xCall[d])
                       /\ Going(xCall[d], xSwept, xWritten)
                       /\ d # c => Apart(was, xCall[d]) /\ Apart(xCall[d], was)
  BY DEF RemoteInv, RemoteTyped
<1>b. xSurface = "up" /\ was.file # None /\ c \notin xOvertaken => was.file \in xFiles
  BY DEF RemoteInv, Remote!KeyFilesAreThere
<1>c. xWritten <= xWritten /\ xWritten \in Nat
  BY <1>0
(* What a dispatch holds stays as it is, and so does the disk.             *)
<1>d. ASSUME NEW to \in RemoteCall, Remote!Becomes(c, to), to.file = was.file, to.old = was.old,
             to.at = was.at, to.kind = was.kind, to.ref = was.ref,
             UNCHANGED <<xSurface, xSwept, xTorn, xPeerRef, xPool, xFiles, xWritten, xLeaked,
                         xOvertaken, xRestarts>>
      PROVE  RemoteInv'
  <2>1. Going(to, xSwept, xWritten) /\ PoolOf(xPool, to) /\ PlacingIsThere(to, xSurface, xFiles)
    BY <1>0, <1>d DEF Going, PoolOf, PlacingIsThere
  <2>2. \A d \in Calls : d # c => Apart(to, xCall[d]) /\ Apart(xCall[d], to)
    BY <1>a, <1>d DEF Apart
  <2>3. xCall' = [xCall EXCEPT ![c] = to]
    BY <1>d DEF Remote!Becomes
  <2>4. /\ xPool' \in Remote!Identities \cup {None} /\ xFiles' \in SUBSET Remote!Files
        /\ xLeaked' \in SUBSET Remote!Files /\ xWritten' \in 0..MaxFiles
        /\ xOvertaken' \in SUBSET Calls /\ xWritten <= xWritten' /\ xLeaked \subseteq xLeaked'
        /\ xOvertaken \ {c} \subseteq xOvertaken' /\ xFiles' \ xFiles = {}
        /\ Pooled(xPool', xSurface, xFiles', xSwept, xWritten')
        /\ Going(to, xSwept, xWritten') /\ PoolOf(xPool', to) /\ PlacingIsThere(to, xSurface, xFiles')
    BY <1>0, <1>c, <1>d, <2>1
  <2>5. xSurface = "up" /\ to.file # None /\ c \notin xOvertaken' => to.file \in xFiles'
    BY <1>b, <1>d
  <2>6. \A d \in Calls : d # c =>
           /\ Apart(to, xCall[d]) /\ Apart(xCall[d], to) /\ PoolOf(xPool', xCall[d])
           /\ xCall[d].file \in xFiles /\ xCall[d].file \notin xFiles' =>
                d \in xOvertaken' /\ xCall[d].at # "placing"
    BY <1>a, <1>d, <2>2
  <2>7. \A f \in xFiles' \ xFiles : f.life <= xRestarts /\ (f \in xLeaked' \/ to.file = f)
    BY <2>4
  <2>8. UNCHANGED <<xSurface, xSwept, xTorn, xPeerRef, xRestarts>> /\ to.file = xCall[c].file
    BY <1>d
  <2>9. QED
    BY <2>3, <2>4, <2>5, <2>6, <2>7, <2>8, OneDispatchMoves
(* A dispatch is answered.                                                 *)
<1>e. ASSUME Remote!Becomes(c, Remote!Idle),
             UNCHANGED <<xSurface, xSwept, xTorn, xPeerRef, xPool, xOvertaken, xRestarts>>,
             xFiles' \in SUBSET Remote!Files, xLeaked' \in SUBSET Remote!Files,
             xWritten' \in 0..MaxFiles, xWritten <= xWritten', xLeaked \subseteq xLeaked',
             \A f \in xFiles' \ xFiles : f.life <= xRestarts /\ f \in xLeaked',
             \A f \in xFiles \ xFiles' : f = was.file /\ was.kind = "cloud",
             \/ was.kind # "cloud" \/ was.file = None \/ was.file \notin xFiles'
             \/ was.file \in xLeaked'
      PROVE  RemoteInv'
  <2> DEFINE to == Remote!Idle
  <2>1. /\ to \in RemoteCall /\ Going(to, xSwept, xWritten') /\ PoolOf(xPool, to)
        /\ PlacingIsThere(to, xSurface, xFiles') /\ to.file = None
    BY RemoteBounds DEF Going, PoolOf, PlacingIsThere
  <2>2. \A d \in Calls : Apart(to, xCall[d]) /\ Apart(xCall[d], to)
    BY RemoteBounds DEF Apart
  <2>3. Pooled(xPool', xSurface, xFiles', xSwept, xWritten')
    <3>1. ASSUME xPool # None
          PROVE  /\ xSwept /\ xPool.file.kind = "ssh" /\ xPool.file.n <= xWritten'
                 /\ xSurface = "up" => xPool.file \in xFiles'
      <4>1. xPool.file \in Remote!Files /\ xPool.file.n \in Nat
        BY <1>0, <3>1 DEF Remote!Identities, Remote!Files
      <4>2. xPool.file.n <= xWritten'
        BY <1>0, <1>e, <3>1, <4>1, RemoteBounds DEF Pooled
      <4>3. xSwept /\ xPool.file.kind = "ssh" /\ (xSurface = "up" => xPool.file \in xFiles)
        BY <1>0, <3>1 DEF Pooled
      <4>4. xPool.file # was.file \/ was.kind # "cloud"
        BY <1>0, <4>1, <4>3, RemoteBounds DEF Going
      <4>5. QED
        BY <1>e, <4>2, <4>3, <4>4
    <3>2. QED
      BY <1>e, <3>1 DEF Pooled
  <2>4. ASSUME NEW d \in Calls, d # c, xCall[d].file \in xFiles, xCall[d].file \notin xFiles'
        PROVE  FALSE
    <3>1. xCall[d].file = was.file /\ was.kind = "cloud" /\ was.file # None
      BY <1>0, <1>e, <2>4, RemoteBounds
    <3>2. QED
      BY <1>a, <2>4, <3>1 DEF Apart
  <2>5. xCall' = [xCall EXCEPT ![c] = to]
    BY <1>e DEF Remote!Becomes
  <2>6. \A f \in xFiles' \ xFiles : f.life <= xRestarts /\ (f \in xLeaked' \/ to.file = f)
    BY <1>e
  <2>7. \A d \in Calls : PoolOf(xPool', xCall[d])
    BY <1>a, <1>e
  <2> HIDE DEF to
  <2>8. QED
    BY <1>0, <1>e, <2>1, <2>2, <2>3, <2>4, <2>5, <2>6, <2>7, OneDispatchMoves
<1>1. ASSUME NEW kind \in Remote!Kinds, Remote!Dispatch(c, kind) PROVE RemoteInv'
  <2> DEFINE asked == [Remote!Idle EXCEPT !.at = "resolving", !.kind = kind, !.ref = xPeerRef]
             pooled == kind = "ssh" /\ xPool # None /\ xPool.ref = xPeerRef
             to == IF kind = "plain" THEN Remote!Spawned(asked)
                   ELSE IF pooled THEN Remote!Spawned([asked EXCEPT !.file = xPool.file])
                   ELSE [asked EXCEPT !.old = IF kind = "ssh" THEN xPool ELSE None]
  <2>1. /\ xSurface = "up" /\ was.at = "idle" /\ xCall' = [xCall EXCEPT ![c] = to]
        /\ xOvertaken' = xOvertaken \ {c}
        /\ UNCHANGED <<xSurface, xSwept, xTorn, xPeerRef, xPool, xFiles, xWritten, xLeaked, xRestarts>>
    BY <1>1 DEF Remote!Dispatch, Remote!Becomes
  <2>2. /\ to \in RemoteCall /\ to.at \in {"resolving", "running"} /\ to.kind = kind
        /\ to.ref = xPeerRef
        /\ to.file \in {None} \cup (IF kind = "ssh" /\ xPool # None THEN {xPool.file} ELSE {})
        /\ to.at = "resolving" => to.file = None /\ kind # "plain"
        /\ to.at = "running" /\ kind # "plain" => to.file # None
        /\ to.old \in {None, xPool}
    <3>1. asked \in RemoteCall /\ asked.at = "resolving" /\ asked.kind = kind /\ asked.ref = xPeerRef
          /\ asked.file = None /\ asked.old = None
      BY <1>0, RemoteBounds DEF RemoteCall
    <3>2. xPool # None => xPool.file \in Remote!Files /\ xPool.file # None
      BY <1>0, RemoteBounds DEF Remote!Identities
    <3> HIDE DEF asked
    <3>3. CASE kind = "plain"
      BY <3>1, <3>3 DEF Remote!Spawned, RemoteCall
    <3>4. CASE kind # "plain" /\ pooled
      BY <3>1, <3>2, <3>4 DEF Remote!Spawned, RemoteCall
    <3>5. CASE kind # "plain" /\ ~pooled
      BY <1>0, <3>1, <3>5 DEF RemoteCall
    <3>6. QED
      BY <3>3, <3>4, <3>5
  <2> HIDE DEF to
  <2>3. to.file # None => /\ kind = "ssh" /\ xPool # None /\ to.file = xPool.file
                         /\ xSwept /\ to.file.kind = "ssh" /\ to.file.n <= xWritten
                         /\ to.file \in xFiles
    BY <1>0, <2>1, <2>2 DEF Pooled
  <2>4. Going(to, xSwept, xWritten) /\ PoolOf(xPool, to) /\ PlacingIsThere(to, xSurface, xFiles)
    BY <1>0, <2>2, <2>3 DEF Going, PoolOf, PlacingIsThere, Pooled
  <2>5. ASSUME NEW d \in Calls, d # c PROVE Apart(to, xCall[d]) /\ Apart(xCall[d], to)
    <3>1. /\ xCall[d].file # None => xCall[d].file.kind = xCall[d].kind
          /\ PoolOf(xPool, xCall[d])
      BY <1>a DEF Going
    <3>2. Apart(to, xCall[d])
      BY <2>2, <2>3 DEF Apart
    <3>3. Apart(xCall[d], to)
      BY <2>2, <2>3, <3>1 DEF Apart, PoolOf
    <3>4. QED
      BY <3>2, <3>3
  <2>6. was.file = None
    BY <1>0, <2>1 DEF Going
  <2>7. /\ xPool' \in Remote!Identities \cup {None} /\ xFiles' \in SUBSET Remote!Files
        /\ xLeaked' \in SUBSET Remote!Files /\ xWritten' \in 0..MaxFiles
        /\ xOvertaken' \in SUBSET Calls /\ xWritten <= xWritten' /\ xLeaked \subseteq xLeaked'
        /\ xOvertaken \ {c} \subseteq xOvertaken' /\ xFiles' \ xFiles = {}
        /\ Pooled(xPool', xSurface, xFiles', xSwept, xWritten')
        /\ Going(to, xSwept, xWritten') /\ PoolOf(xPool', to) /\ PlacingIsThere(to, xSurface, xFiles')
    BY <1>0, <1>c, <2>1, <2>4
  <2>8. xSurface = "up" /\ to.file # None /\ c \notin xOvertaken' => to.file \in xFiles'
    BY <2>1, <2>3
  <2>9. \A d \in Calls : d # c =>
           /\ Apart(to, xCall[d]) /\ Apart(xCall[d], to) /\ PoolOf(xPool', xCall[d])
           /\ xCall[d].file \in xFiles /\ xCall[d].file \notin xFiles' =>
                d \in xOvertaken' /\ xCall[d].at # "placing"
    BY <1>a, <2>1, <2>5
  <2>10. \A f \in xFiles' \ xFiles : f.life <= xRestarts /\ (f \in xLeaked' \/ to.file = f)
    BY <2>7
  <2>11. UNCHANGED <<xSurface, xSwept, xTorn, xPeerRef, xRestarts>> /\ xCall' = [xCall EXCEPT ![c] = to]
    BY <2>1
  <2>12. QED
    BY <2>2, <2>6, <2>7, <2>8, <2>9, <2>10, <2>11, OneDispatchMoves
<1>f. /\ xWritten < MaxFiles => /\ Remote!NewFile(c) \in Remote!Files
                               /\ xWritten + 1 \in 0..MaxFiles /\ xWritten <= xWritten + 1
      /\ Remote!NewFile(c).n = xWritten + 1 /\ Remote!NewFile(c).kind = was.kind
      /\ Remote!NewFile(c).life = xRestarts
  BY <1>0, RemoteBounds DEF Remote!NewFile, Remote!Files, RemoteCall
<1>2. CASE Remote!WriteKey(c)
  <2> DEFINE holds == [was EXCEPT !.file = Remote!NewFile(c)]
             to == IF was.kind = "ssh" THEN [holds EXCEPT !.at = "placing"] ELSE Remote!Spawned(holds)
  <2>1. /\ was.at = "resolving" /\ xSwept /\ xWritten < MaxFiles /\ xWritten' = xWritten + 1
        /\ xFiles' = xFiles \cup {Remote!NewFile(c)} /\ xCall' = [xCall EXCEPT ![c] = to]
        /\ UNCHANGED <<xSurface, xSwept, xTorn, xPeerRef, xPool, xLeaked, xOvertaken, xRestarts>>
    BY <1>2 DEF Remote!WriteKey, Remote!MayWrite, Remote!Becomes
  <2> DEFINE new == Remote!NewFile(c)
  <2>2. new \in Remote!Files /\ new # None /\ new.n = xWritten + 1 /\ new.kind = was.kind
        /\ new.life = xRestarts
    BY <1>f, <2>1, RemoteBounds
  <2>3. /\ to \in RemoteCall /\ to.file = new /\ to.old = was.old /\ to.kind = was.kind
        /\ to.ref = was.ref /\ to.at = (IF was.kind = "ssh" THEN "placing" ELSE "running")
    BY <1>0, <2>2 DEF RemoteCall, Remote!Spawned
  <2> HIDE DEF to, new
  <2>4. \A d \in Calls : /\ xCall[d].file # new
                         /\ xCall[d].old # None => xCall[d].old.file # new
    <3> SUFFICES ASSUME NEW d \in Calls
                 PROVE  xCall[d].file # new /\ (xCall[d].old # None => xCall[d].old.file # new)
      OBVIOUS
    <3>1. /\ xCall[d].file # None => xCall[d].file.n <= xWritten
          /\ xCall[d].old # None => xCall[d].old.file.n <= xWritten
      BY <1>a DEF Going
    <3>2. ~(new.n <= xWritten)
      BY <1>c, <2>2
    <3>3. QED
      BY <2>2, <3>1, <3>2
  <2>5. /\ xPool # None => xPool.file # new
        /\ Pooled(xPool, xSurface, xFiles', xSwept, xWritten')
    <3>1. xPool # None => xPool.file.n \in Nat /\ xPool.file.n <= xWritten
      BY <1>0 DEF Pooled, Remote!Identities, Remote!Files
    <3>2. QED
      BY <1>0, <1>c, <2>1, <2>2, <3>1 DEF Pooled
  <2>6. Going(to, xSwept, xWritten') /\ PoolOf(xPool, to) /\ PlacingIsThere(to, xSurface, xFiles')
    <3>1. was.old # None => was.old.file.n \in Nat /\ was.old.file.n <= xWritten
      BY <1>0 DEF Going, RemoteCall, Remote!Identities, Remote!Files
    <3>2. was.old # None => was.old.file # new
      BY <2>4
    <3>3. was.ref \in Refs
      BY <1>0, <2>1 DEF Going
    <3>4. was.old # None => was.old.file.n <= xWritten'
      BY <1>c, <2>1, <3>1
    <3>5. new.n <= xWritten'
      BY <1>c, <2>1, <2>2
    <3>6. Going(to, xSwept, xWritten')
      BY <2>1, <2>2, <2>3, <3>2, <3>3, <3>4, <3>5 DEF Going
    <3>7. PoolOf(xPool, to)
      BY <2>3, <2>5 DEF PoolOf
    <3>8. new \in xFiles'
      BY <2>1 DEF new
    <3>9. PlacingIsThere(to, xSurface, xFiles')
      BY <2>3, <3>8 DEF PlacingIsThere
    <3>10. QED
      BY <3>6, <3>7, <3>9
  <2>7. \A d \in Calls : d # c => Apart(to, xCall[d]) /\ Apart(xCall[d], to)
    BY <1>a, <2>2, <2>3, <2>4 DEF Apart
  <2>8. was.file = None
    BY <1>0, <2>1 DEF Going
  <2>9. /\ xFiles' \in SUBSET Remote!Files /\ xWritten' \in 0..MaxFiles /\ xWritten <= xWritten'
        /\ xFiles \subseteq xFiles' /\ to.file \in xFiles'
        /\ \A f \in xFiles' \ xFiles : f = new
    BY <1>0, <1>f, <2>1, <2>2, <2>3 DEF new
  <2>10. \A f \in xFiles' \ xFiles : f.life <= xRestarts /\ (f \in xLeaked' \/ to.file = f)
    BY <1>0, <2>2, <2>3, <2>9
  <2>11. QED
    BY <1>0, <1>a, <2>1, <2>3, <2>5, <2>6, <2>7, <2>8, <2>9, <2>10, OneDispatchMoves
<1>3. CASE Remote!NoKey(c)
  <2>1. /\ was.at = "resolving" /\ Remote!Becomes(c, Remote!Idle)
        /\ UNCHANGED <<xSurface, xSwept, xTorn, xPeerRef, xPool, xOvertaken, xRestarts>>
        /\ \/ UNCHANGED <<xFiles, xWritten, xLeaked>>
           \/ /\ xWritten < MaxFiles /\ xWritten' = xWritten + 1
              /\ xFiles' = xFiles \cup {Remote!NewFile(c)}
              /\ xLeaked' = xLeaked \cup {Remote!NewFile(c)}
    BY <1>3 DEF Remote!NoKey
  <2>2. was.file = None
    BY <1>0, <2>1 DEF Going
  <2>3. CASE UNCHANGED <<xFiles, xWritten, xLeaked>>
    BY <1>0, <1>c, <1>e, <2>1, <2>2, <2>3
  <2>4. CASE ~UNCHANGED <<xFiles, xWritten, xLeaked>>
    <3>1. /\ xFiles' \in SUBSET Remote!Files /\ xLeaked' \in SUBSET Remote!Files
          /\ xWritten' \in 0..MaxFiles /\ xWritten <= xWritten' /\ xLeaked \subseteq xLeaked'
          /\ \A f \in xFiles' \ xFiles : f.life <= xRestarts /\ f \in xLeaked'
          /\ \A f \in xFiles \ xFiles' : FALSE
      BY <1>0, <1>f, <2>1, <2>4
    <3>2. QED
      BY <1>e, <2>1, <2>2, <3>1
  <2>5. QED
    BY <2>3, <2>4
<1>4. CASE Remote!Place(c)
  <2> DEFINE to == Remote!Spawned(was)
             gone == Remote!Replaced(c)
             pool == [file |-> was.file, ref |-> was.ref]
  <2>1. /\ was.at = "placing" /\ xFiles' = xFiles \ gone
        /\ xOvertaken' = xOvertaken \cup {d \in Calls : xCall[d].file \in gone}
        /\ xPool' = pool /\ xCall' = [xCall EXCEPT ![c] = to]
        /\ UNCHANGED <<xSurface, xSwept, xTorn, xPeerRef, xWritten, xLeaked, xRestarts>>
    BY <1>4 DEF Remote!Place, Remote!Becomes
  <2>2. /\ to \in RemoteCall /\ to.file = was.file /\ to.old = was.old /\ to.kind = was.kind
        /\ to.at = "running" /\ to.ref = was.ref
    BY <1>0 DEF RemoteCall, Remote!Spawned
  <2>3. /\ was.kind = "ssh" /\ was.file # None /\ was.ref \in Refs /\ xSwept
        /\ was.file.kind = "ssh" /\ was.file.n <= xWritten /\ was.file \notin gone
        /\ xSurface = "up" => was.file \in xFiles
    BY <1>0, <2>1 DEF Going, PlacingIsThere, Remote!Replaced
  <2>4. was.file \in Remote!Files
    BY <1>0, <2>3 DEF RemoteCall
  <2>5. pool \in Remote!Identities /\ pool.file = was.file
    BY <2>3, <2>4 DEF Remote!Identities
  <2> HIDE DEF to, pool
  <2>6. Pooled(xPool', xSurface, xFiles', xSwept, xWritten)
    BY <2>1, <2>3, <2>5 DEF Pooled
  <2>7. Going(to, xSwept, xWritten) /\ PoolOf(xPool', to) /\ PlacingIsThere(to, xSurface, xFiles')
    BY <1>0, <2>1, <2>2, <2>3 DEF Going, PoolOf, PlacingIsThere
  <2>8. ASSUME NEW d \in Calls, d # c
        PROVE  /\ Apart(to, xCall[d]) /\ Apart(xCall[d], to) /\ PoolOf(xPool', xCall[d])
               /\ xCall[d].at = "placing" => xCall[d].file \notin gone
    <3>1. Apart(was, xCall[d]) /\ Apart(xCall[d], was) /\ Going(xCall[d], xSwept, xWritten)
      BY <1>a, <2>8
    <3>2. Apart(to, xCall[d]) /\ Apart(xCall[d], to)
      BY <2>2, <2>3, <3>1 DEF Apart
    <3>3. PoolOf(xPool', xCall[d])
      BY <2>1, <2>5, <3>1 DEF Apart, PoolOf, Going
    <3>4. xCall[d].at = "placing" => xCall[d].file \notin gone
      BY <3>1 DEF Apart, Remote!Replaced
    <3>5. QED
      BY <3>2, <3>3, <3>4
  <2>9. \A d \in Calls : xCall[d].file \in xFiles /\ xCall[d].file \notin xFiles' =>
           d \in xOvertaken' /\ xCall[d].file \in gone
    BY <2>1
  <2> HIDE DEF gone
  <2>10. /\ xOvertaken' \in SUBSET Calls /\ xOvertaken \ {c} \subseteq xOvertaken'
         /\ xFiles' \in SUBSET Remote!Files /\ xFiles' \subseteq xFiles
         /\ xSurface = "up" => to.file \in xFiles'
    BY <1>0, <2>1, <2>2, <2>3
  <2>11. QED
    BY <1>0, <1>c, <2>1, <2>2, <2>5, <2>6, <2>7, <2>8, <2>9, <2>10, OneDispatchMoves
<1>5. ASSUME NEW held \in BOOLEAN, Remote!Exits(c, held) PROVE RemoteInv'
  <2> DEFINE to == [was EXCEPT !.alive = FALSE, !.held = held]
  <2>1. /\ to \in RemoteCall /\ to.file = was.file /\ to.old = was.old /\ to.kind = was.kind
        /\ to.at = was.at /\ to.ref = was.ref
    BY <1>0 DEF RemoteCall
  <2>2. Remote!Becomes(c, to)
        /\ UNCHANGED <<xSurface, xSwept, xTorn, xPeerRef, xPool, xFiles, xWritten, xLeaked,
                       xOvertaken, xRestarts>>
    BY <1>5 DEF Remote!Exits
  <2> HIDE DEF to
  <2>3. QED
    BY <1>d, <2>1, <2>2
<1>6. CASE Remote!Closes(c)
  <2> DEFINE to == [was EXCEPT !.held = FALSE]
  <2>1. /\ to \in RemoteCall /\ to.file = was.file /\ to.old = was.old /\ to.kind = was.kind
        /\ to.at = was.at /\ to.ref = was.ref
    BY <1>0 DEF RemoteCall
  <2>2. Remote!Becomes(c, to)
        /\ UNCHANGED <<xSurface, xSwept, xTorn, xPeerRef, xPool, xFiles, xWritten, xLeaked,
                       xOvertaken, xRestarts>>
    BY <1>6 DEF Remote!Closes
  <2> HIDE DEF to
  <2>3. QED
    BY <1>d, <2>1, <2>2
<1>7. CASE Remote!Finish(c)
  <2>1. /\ was.at = "running" /\ Remote!Becomes(c, Remote!Idle)
        /\ UNCHANGED <<xSurface, xSwept, xTorn, xPeerRef, xPool, xWritten, xOvertaken, xRestarts>>
        /\ \/ xFiles' = xFiles \ Remote!SingleUse(c) /\ UNCHANGED xLeaked
           \/ xLeaked' = xLeaked \cup Remote!SingleUse(c) /\ UNCHANGED xFiles
    BY <1>7 DEF Remote!Finish
  <2>2. was.kind = "cloud" => was.file \in Remote!Files
    BY <1>0, <2>1 DEF Going, RemoteCall
  <2>3. /\ xFiles' \in SUBSET Remote!Files /\ xLeaked' \in SUBSET Remote!Files
        /\ xLeaked \subseteq xLeaked' /\ xFiles' \subseteq xFiles
        /\ \A f \in xFiles \ xFiles' : f = was.file /\ was.kind = "cloud"
        /\ was.kind # "cloud" \/ was.file \notin xFiles' \/ was.file \in xLeaked'
    BY <1>0, <2>1, <2>2 DEF Remote!SingleUse
  <2>4. QED
    BY <1>0, <1>c, <1>e, <2>1, <2>3
<1>8. QED
  BY <1>1, <1>2, <1>3, <1>4, <1>5, <1>6, <1>7 DEF Remote!Advances

LEMMA StepRemoteInv ==
  ASSUME RemoteInv, Remote!Next \/ UNCHANGED Remote!vars
  PROVE  RemoteInv'
<1> USE DEF Remote!diskVars
<1>0. /\ RemoteTyped /\ Lived /\ xRestarts \in Nat /\ MaxRestarts \in Nat
      /\ \A c \in Calls : Going(xCall[c], xSwept, xWritten)
  BY RemoteBounds DEF RemoteInv, RemoteTyped
<1>1. CASE Remote!Sweep
  <2>1. /\ ~xSwept /\ xPool = None /\ xPool' = None /\ xFiles' \subseteq xFiles
        /\ \A c \in Calls : xCall[c].file = None /\ xCall[c].at # "placing" /\ xCall' = xCall
        /\ UNCHANGED <<xSurface, xTorn, xPeerRef, xWritten, xOvertaken, xRestarts>>
        /\ xSwept' = TRUE /\ xLeaked' \in SUBSET Remote!Files
        /\ \A f \in xFiles' : f \in xLeaked'
    BY <1>0, <1>1 DEF Remote!Sweep, RemoteInv, RemoteTyped, Pooled, Going
  <2>2. xCall' = xCall
    BY <1>1 DEF Remote!Sweep
  <2>3. RemoteTyped' /\ Lived' /\ Pooled(xPool, xSurface, xFiles, xSwept, xWritten)'
    BY <1>0, <2>1, <2>2 DEF RemoteTyped, Lived, Pooled
  <2>4. \A c \in Calls : /\ Going(xCall[c], xSwept, xWritten)' /\ PoolOf(xPool, xCall[c])'
                         /\ PlacingIsThere(xCall[c], xSurface, xFiles)'
    BY <1>0, <2>1, <2>2 DEF Going, PoolOf, PlacingIsThere
  <2>5. Remote!KeyFilesAreThere' /\ Remote!CredentialsAreSingleUse'
    BY <2>1, <2>2 DEF Remote!KeyFilesAreThere, Remote!CredentialsAreSingleUse
  <2>6. \A c, d \in Calls : c # d => Apart(xCall[c], xCall[d])'
    BY <2>2 DEF RemoteInv, Apart
  <2>7. QED
    BY <2>3, <2>4, <2>5, <2>6 DEF RemoteInv
<1>2. CASE Remote!Release \/ Remote!TeardownSweeps
  <2>1. /\ xSurface' = "released" /\ xPool' \in {None, xPool} /\ xFiles' \subseteq xFiles
        /\ UNCHANGED <<xSwept, xPeerRef, xWritten, xLeaked, xOvertaken, xCall, xRestarts>>
        /\ xTorn' \in BOOLEAN
    BY <1>0, <1>2 DEF Remote!Release, Remote!TeardownSweeps, RemoteTyped
  <2>2. RemoteTyped' /\ Lived' /\ Pooled(xPool, xSurface, xFiles, xSwept, xWritten)'
    BY <1>0, <2>1 DEF RemoteInv, RemoteTyped, Lived, Pooled
  <2>3. \A c \in Calls : /\ Going(xCall[c], xSwept, xWritten)' /\ PoolOf(xPool, xCall[c])'
                         /\ PlacingIsThere(xCall[c], xSurface, xFiles)'
    BY <1>0, <2>1 DEF RemoteInv, Going, PoolOf, PlacingIsThere
  <2>4. Remote!KeyFilesAreThere' /\ Remote!CredentialsAreSingleUse'
    BY <2>1 DEF RemoteInv, Remote!KeyFilesAreThere, Remote!CredentialsAreSingleUse
  <2>5. \A c, d \in Calls : c # d => Apart(xCall[c], xCall[d])'
    BY <2>1 DEF RemoteInv, Apart
  <2>6. QED
    BY <2>2, <2>3, <2>4, <2>5 DEF RemoteInv
<1>3. CASE Remote!Restart
  <2>1. /\ xRestarts < MaxRestarts /\ xRestarts' = xRestarts + 1 /\ xSurface' = "up"
        /\ xSwept' = FALSE /\ xTorn' = FALSE /\ xPool' = None /\ xOvertaken' = {}
        /\ xCall' = [c \in Calls |-> Remote!Idle] /\ UNCHANGED <<xPeerRef, xFiles, xWritten, xLeaked>>
    BY <1>3 DEF Remote!Restart
  <2>2. \A c \in Calls : xCall'[c] = Remote!Idle
    BY <2>1
  <2>3. RemoteTyped'
    <3>1. xCall' \in [Calls -> RemoteCall]
      BY <2>1, RemoteBounds
    <3>2. xRestarts' \in 0..MaxRestarts
      BY <1>0, <2>1
    <3>3. QED
      BY <1>0, <2>1, <3>1, <3>2 DEF RemoteTyped
  <2>4. \A f \in xFiles' : f.life < xRestarts' /\ f.life <= xRestarts' /\ f.life # xRestarts'
    <3>1. \A f \in xFiles : f.life \in Nat
      BY <1>0 DEF RemoteTyped, Remote!Files
    <3>2. QED
      BY <1>0, <2>1, <3>1 DEF Lived
  <2>5. Lived' /\ Pooled(xPool, xSurface, xFiles, xSwept, xWritten)'
    BY <2>1, <2>4 DEF Lived, Pooled
  <2>6. \A c \in Calls : /\ Going(xCall'[c], xSwept', xWritten') /\ PoolOf(xPool', xCall'[c])
                         /\ PlacingIsThere(xCall'[c], xSurface', xFiles')
    BY <2>2, RemoteBounds DEF Going, PoolOf, PlacingIsThere
  <2>7. Remote!KeyFilesAreThere' /\ Remote!CredentialsAreSingleUse'
    BY <2>2, <2>4, RemoteBounds DEF Remote!KeyFilesAreThere, Remote!CredentialsAreSingleUse
  <2>8. \A c, d \in Calls : c # d => Apart(xCall'[c], xCall'[d])
    BY <2>2, RemoteBounds DEF Apart
  <2>9. QED
    BY <2>3, <2>5, <2>6, <2>7, <2>8 DEF RemoteInv
<1>4. ASSUME NEW ref \in Refs, Remote!Register(ref) PROVE RemoteInv'
  BY <1>4 DEF Remote!Register, RemoteInv, RemoteTyped, Lived, Remote!KeyFilesAreThere,
              Remote!CredentialsAreSingleUse
<1>5. CASE UNCHANGED Remote!vars
  BY <1>5 DEF Remote!vars, RemoteInv, RemoteTyped, Lived, Remote!KeyFilesAreThere,
              Remote!CredentialsAreSingleUse
<1>6. QED
  BY <1>1, <1>2, <1>3, <1>4, <1>5, StepOfADispatch DEF Remote!Next

(* A running command's key file is there, whoever dispatches, replaces the *)
(* registration, sweeps or restarts meanwhile, and a cloud credential is   *)
(* on disk only for its command (backends/ssh.ts:35-41,                    *)
(* backends/cloud-terminal.ts:139-143).                                    *)
THEOREM KeysStayWhereNeeded == Spec => []KeysAreWhereNeeded
<1>1. Init => RemoteInv
  BY InitRemoteInv DEF Init
<1>2. RemoteInv /\ [Next]_vars => RemoteInv'
  BY EachFamilySteps, StepRemoteInv
<1>3. RemoteInv => KeysAreWhereNeeded
  BY DEF RemoteInv, KeysAreWhereNeeded
<1>4. QED
  BY <1>1, <1>2, <1>3, PTL DEF Spec

-----------------------------------------------------------------------------
(* Every family's state stays in its type: no count passes its bound, no   *)
(* call or row holds what the code cannot put there.                       *)
THEOREM EveryFamilyIsTyped == Spec => []TypesOK
<1>1. Init => /\ DraftsInv /\ RoutesInv /\ RemoteInv /\ PagesInv
              /\ TagsInv /\ ScoresInv /\ VerbsInv
  BY InitDraftsInv, InitRoutesInv, InitRemoteInv, InitPagesInv, InitTagsInv, InitScoresInv,
     InitVerbsInv DEF Init
<1>2. DraftsInv /\ [Next]_vars => DraftsInv'
  BY EachFamilySteps, StepDraftsInv
<1>3. RoutesInv /\ [Next]_vars => RoutesInv'
  BY EachFamilySteps, StepRoutesInv
<1>4. RemoteInv /\ [Next]_vars => RemoteInv'
  BY EachFamilySteps, StepRemoteInv
<1>5. PagesInv /\ [Next]_vars => PagesInv'
  BY EachFamilySteps, StepPagesInv
<1>6. TagsInv /\ [Next]_vars => TagsInv'
  BY EachFamilySteps, StepTagsInv
<1>7. ScoresInv /\ [Next]_vars => ScoresInv'
  BY EachFamilySteps, StepScoresInv
<1>8. VerbsInv /\ [Next]_vars => VerbsInv'
  BY EachFamilySteps, StepVerbsInv
<1>9. ASSUME DraftsInv, RoutesInv, RemoteInv, PagesInv, TagsInv, ScoresInv, VerbsInv
      PROVE  TypesOK
  <2>1. Mirror!TypeOK /\ Routing!TypeOK /\ TagsOf!TypeOK /\ Scores!TypeOK
    BY <1>9 DEF DraftsInv, RoutesInv, TagsInv, ScoresInv
  <2>2. Remote!TypeOK
    BY <1>9 DEF RemoteInv, RemoteTyped, RemoteCall, Remote!TypeOK
  <2>3. Pages!TypeOK
    BY <1>9 DEF PagesInv, PagesTyped, WalkInv, Pages!TypeOK
  <2>4. Verbs!TypeOK
    BY <1>9 DEF VerbsInv, CatalogInv, LedgerInv, VerbSlot, VerbReg, Verbs!TypeOK
  <2>5. QED
    BY <2>1, <2>2, <2>3, <2>4 DEF TypesOK
<1>10. QED
  BY <1>1, <1>2, <1>3, <1>4, <1>5, <1>6, <1>7, <1>8, <1>9, PTL DEF Spec
=============================================================================
