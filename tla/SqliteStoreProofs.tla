-------------------------- MODULE SqliteStoreProofs -------------------------
(***************************************************************************)
(* Proofs about SqliteStore, for any number of callers, damages and copies *)
(* and any time to live.  A save that nothing overlapped stays in the file *)
(* because whatever is exported after it was in a database that had it,    *)
(* and nothing exported before it is still on its way.                     *)
(***************************************************************************)
EXTENDS SqliteStore, FiniteSetTheorems, TLAPS

(* A save on its way has a process, and carries its caller's own change.   *)
HasProcess == \A c \in Callers : at[c] \in InFlight => process # "down"
OwnChange ==
  \A c \in Callers : /\ at[c] = "mkdir" /\ process = "open" => c \in db
                     /\ at[c] = "writeFile" => c \in exported[c]
                     /\ at[c] = "rename" => c \in tmp[c]

(* Two saves on their way overlap.                                         *)
OverlapIsShared ==
  \A c, d \in Callers : c # d /\ at[c] \in InFlight /\ at[d] \in InFlight => c \in shared

(* An open database has all that a save on its way carries, and all that   *)
(* is on file while the file never went bad.                               *)
DbHasWhatIsCarried ==
  process = "open" =>
    \A c \in Callers : /\ at[c] = "writeFile" => exported[c] \subseteq db
                       /\ at[c] = "rename" => tmp[c] \subseteq db
FileUndamaged ==
  damages = 0 => /\ file.state = "sound" \/ (file.state = "absent" /\ file.rows = {})
                 /\ process = "open" => file.rows \subseteq db

(* What is on its way carries every save that ran alone before.            *)
CarriesLoneSaves ==
  damages = 0 =>
    \A c \in Callers \ shared, d \in Callers : at[c] = "saved" =>
       /\ at[d] = "writeFile" => c \in exported[d]
       /\ at[d] = "rename" => c \in tmp[d]

SaveInv ==
  /\ TypeOK /\ HasProcess /\ OwnChange /\ OverlapIsShared
  /\ DbHasWhatIsCarried /\ FileUndamaged /\ CarriesLoneSaves
  /\ NoSaveBreaksAnother /\ LoneSaveIsDurable

-----------------------------------------------------------------------------
LEMMA InitSaveInv == Init => SaveInv
<1> SUFFICES ASSUME Init PROVE SaveInv
  OBVIOUS
<1>1. TypeOK
  BY StoreAssumption DEF Init, TypeOK, Places, InFlight, Snapshots, File, Copies
<1>2. QED
  BY <1>1 DEF Init, SaveInv, HasProcess, OwnChange, OverlapIsShared, DbHasWhatIsCarried,
     FileUndamaged, CarriesLoneSaves, NoSaveBreaksAnother, LoneSaveIsDurable, InFlight

LEMMA StepSaveTypeOK == TypeOK /\ FileUndamaged /\ [Next]_vars => TypeOK'
<1> SUFFICES ASSUME TypeOK, FileUndamaged, [Next]_vars PROVE TypeOK'
  OBVIOUS
<1> USE StoreAssumption DEF TypeOK, Snapshots, Places, InFlight, File, callVars, Goes
<1>1. ASSUME NEW moved \in BOOLEAN, Open(moved) PROVE TypeOK'
  <2>1. file.state = "damaged" => MovedAside \in Copies
    BY DEF FileUndamaged, MovedAside, Copies
  <2>2. copies' \in SUBSET Copies
    BY <1>1, <2>1 DEF Open, Reap
  <2>3. file' \in File /\ db' \in Snapshots
    BY <1>1 DEF Open, Loaded
  <2>4. QED
    BY <1>1, <2>2, <2>3 DEF Open
<1>2. ASSUME NEW c \in Callers, Change(c) PROVE TypeOK'
  BY <1>2 DEF Change
<1>3. ASSUME NEW c \in Callers, Export(c) PROVE TypeOK'
  BY <1>3 DEF Export
<1>4. ASSUME NEW c \in Callers, WriteTmp(c) \/ Rename(c) PROVE TypeOK'
  BY <1>4 DEF WriteTmp, Rename, TmpPath
<1>5. ASSUME NEW c \in Callers, Fail(c) PROVE TypeOK'
  BY <1>5 DEF Fail
<1>6. CASE Close
  BY <1>6 DEF Close
<1>7. CASE Exit
  BY <1>7 DEF Exit
<1>8. ASSUME NEW mtime \in {file.mtime, now}, Damage(mtime) PROVE TypeOK'
  BY <1>8 DEF Damage
<1>9. CASE Tick
  BY <1>9 DEF Tick
<1>10. CASE UNCHANGED vars
  BY <1>10 DEF vars
<1>11. QED
  BY <1>1, <1>2, <1>3, <1>4, <1>5, <1>6, <1>7, <1>8, <1>9, <1>10 DEF Next, SaveStep

-----------------------------------------------------------------------------
(* An init finds no save on its way, and loads what is on file.            *)
LEMMA StepOpen ==
  ASSUME SaveInv, TypeOK', NEW moved \in BOOLEAN, Open(moved)
  PROVE  SaveInv'
<1> USE DEF SaveInv, callVars
<1>1. /\ process = "down" /\ process' = "open" /\ db' = Loaded /\ damages' = damages
      /\ at' = at /\ exported' = exported /\ tmp' = tmp /\ broken' = broken /\ shared' = shared
      /\ damages = 0 => file' = file /\ db' = file.rows
  BY DEF Open, FileUndamaged, Loaded
<1>2. \A c \in Callers : at[c] \notin InFlight
  BY <1>1 DEF HasProcess
<1>3. HasProcess' /\ OwnChange' /\ OverlapIsShared' /\ DbHasWhatIsCarried'
  BY <1>1, <1>2 DEF HasProcess, OwnChange, OverlapIsShared, DbHasWhatIsCarried, InFlight
<1>4. FileUndamaged' /\ CarriesLoneSaves' /\ NoSaveBreaksAnother' /\ LoneSaveIsDurable'
  BY <1>1 DEF FileUndamaged, CarriesLoneSaves, NoSaveBreaksAnother, LoneSaveIsDurable
<1>5. QED
  BY <1>3, <1>4

LEMMA StepChange ==
  ASSUME SaveInv, TypeOK', NEW c \in Callers, Change(c)
  PROVE  SaveInv'
<1> USE DEF SaveInv
<1> DEFINE others == {d \in Callers : at[d] \in InFlight}
<1>1. /\ process = "open" /\ process' = process /\ at[c] = "new" /\ db' = db \cup {c}
      /\ at' = [at EXCEPT ![c] = "mkdir"] /\ exported' = exported /\ tmp' = tmp
      /\ broken' = broken /\ file' = file /\ damages' = damages
      /\ shared \subseteq shared' /\ (others # {} => shared' = shared \cup others \cup {c})
  BY DEF Change, Goes
<1>2. at'[c] = "mkdir" /\ \A d \in Callers : d # c => at'[d] = at[d]
  BY <1>1 DEF TypeOK
<1>3. HasProcess' /\ OwnChange' /\ DbHasWhatIsCarried' /\ FileUndamaged'
  BY <1>1, <1>2 DEF HasProcess, OwnChange, DbHasWhatIsCarried, FileUndamaged, InFlight
<1>4. OverlapIsShared'
  BY <1>1, <1>2 DEF OverlapIsShared
<1>5. CarriesLoneSaves' /\ NoSaveBreaksAnother' /\ LoneSaveIsDurable'
  BY <1>1, <1>2 DEF CarriesLoneSaves, NoSaveBreaksAnother, LoneSaveIsDurable
<1>6. QED
  BY <1>3, <1>4, <1>5

(* The database exported has every save that ran alone.                    *)
LEMMA StepExport ==
  ASSUME SaveInv, TypeOK', NEW c \in Callers, Export(c)
  PROVE  SaveInv'
<1> USE DEF SaveInv
<1>1. /\ process # "down" /\ process' = process /\ at[c] = "mkdir" /\ db' = db /\ tmp' = tmp
      /\ shared' = shared /\ file' = file /\ damages' = damages
  BY DEF Export
<1>2. CASE /\ process = "open" /\ exported' = [exported EXCEPT ![c] = db]
           /\ at' = [at EXCEPT ![c] = "writeFile"] /\ broken' = broken
  <2>1. at'[c] = "writeFile" /\ exported'[c] = db
        /\ \A d \in Callers : d # c => at'[d] = at[d] /\ exported'[d] = exported[d]
    BY <1>2 DEF TypeOK
  <2>2. HasProcess' /\ OwnChange' /\ OverlapIsShared' /\ DbHasWhatIsCarried' /\ FileUndamaged'
    BY <1>1, <1>2, <2>1 DEF HasProcess, OwnChange, OverlapIsShared, DbHasWhatIsCarried,
                            FileUndamaged, InFlight
  <2>3. CarriesLoneSaves'
    BY <1>1, <1>2, <2>1 DEF CarriesLoneSaves, LoneSaveIsDurable, FileUndamaged
  <2>4. NoSaveBreaksAnother' /\ LoneSaveIsDurable'
    BY <1>1, <1>2, <2>1 DEF NoSaveBreaksAnother, LoneSaveIsDurable
  <2>5. QED
    BY <2>2, <2>3, <2>4
<1>3. CASE /\ exported' = exported
           /\ at' = [at EXCEPT ![c] = "failed"] /\ broken' = broken \cup {c}
  <2>1. at'[c] = "failed" /\ \A d \in Callers : d # c => at'[d] = at[d]
    BY <1>3 DEF TypeOK
  <2>2. QED
    BY <1>1, <1>3, <2>1
       DEF HasProcess, OwnChange, OverlapIsShared, DbHasWhatIsCarried, FileUndamaged,
           CarriesLoneSaves, NoSaveBreaksAnother, LoneSaveIsDurable, InFlight
<1>4. QED
  BY <1>2, <1>3 DEF Export, Goes

LEMMA StepWriteTmp ==
  ASSUME SaveInv, TypeOK', NEW c \in Callers, WriteTmp(c)
  PROVE  SaveInv'
<1> USE DEF SaveInv
<1>1. /\ process # "down" /\ process' = process /\ at[c] = "writeFile" /\ db' = db
      /\ tmp' = [tmp EXCEPT ![c] = exported[c]] /\ at' = [at EXCEPT ![c] = "rename"]
      /\ exported' = exported /\ broken' = broken /\ shared' = shared
      /\ file' = file /\ damages' = damages
  BY DEF WriteTmp, TmpPath, Goes
<1>2. at'[c] = "rename" /\ tmp'[c] = exported[c]
      /\ \A d \in Callers : d # c => at'[d] = at[d] /\ tmp'[d] = tmp[d]
  BY <1>1 DEF TypeOK
<1>3. HasProcess' /\ OwnChange' /\ OverlapIsShared' /\ DbHasWhatIsCarried' /\ FileUndamaged'
  BY <1>1, <1>2 DEF HasProcess, OwnChange, OverlapIsShared, DbHasWhatIsCarried, FileUndamaged,
                    InFlight
<1>4. CarriesLoneSaves' /\ NoSaveBreaksAnother' /\ LoneSaveIsDurable'
  BY <1>1, <1>2 DEF CarriesLoneSaves, NoSaveBreaksAnother, LoneSaveIsDurable
<1>5. QED
  BY <1>3, <1>4

(* What is renamed is the caller's own temporary file, and if the caller   *)
(* ran alone nothing else is on its way.                                   *)
LEMMA StepRename ==
  ASSUME SaveInv, TypeOK', NEW c \in Callers, Rename(c)
  PROVE  SaveInv'
<1> USE DEF SaveInv
<1>1. /\ process # "down" /\ process' = process /\ at[c] = "rename" /\ db' = db
      /\ c \in tmp[c]
      /\ exported' = exported /\ broken' = broken /\ shared' = shared /\ damages' = damages
  BY DEF Rename, OwnChange
<1>2. /\ file' = [state |-> "sound", rows |-> tmp[c], mtime |-> now]
      /\ tmp' = [tmp EXCEPT ![c] = {}] /\ at' = [at EXCEPT ![c] = "saved"]
  BY <1>1 DEF Rename, TmpPath, Goes
<1>3. at'[c] = "saved" /\ \A d \in Callers : d # c => at'[d] = at[d] /\ tmp'[d] = tmp[d]
  BY <1>2 DEF TypeOK
<1>4. HasProcess' /\ OwnChange' /\ OverlapIsShared' /\ DbHasWhatIsCarried'
  BY <1>1, <1>3 DEF HasProcess, OwnChange, OverlapIsShared, DbHasWhatIsCarried, InFlight
<1>5. FileUndamaged'
  BY <1>1, <1>2 DEF FileUndamaged, DbHasWhatIsCarried
<1>6. c \notin shared => \A d \in Callers : d # c => at[d] \notin InFlight
  BY <1>1 DEF OverlapIsShared, InFlight
<1>7. CarriesLoneSaves'
  BY <1>1, <1>3, <1>6 DEF CarriesLoneSaves, InFlight
<1>8. NoSaveBreaksAnother' /\ LoneSaveIsDurable'
  BY <1>1, <1>2, <1>3 DEF CarriesLoneSaves, NoSaveBreaksAnother, LoneSaveIsDurable
<1>9. QED
  BY <1>4, <1>5, <1>7, <1>8

(* Every other step drops saves, the database or the file.                 *)
LEMMA StepStore ==
  ASSUME SaveInv, TypeOK',
         \/ \E c \in Callers : Fail(c)
         \/ Close \/ Exit \/ Tick \/ UNCHANGED vars
         \/ \E mtime \in {file.mtime, now} : Damage(mtime)
  PROVE  SaveInv'
<1> USE DEF SaveInv, callVars, HasProcess, OwnChange, OverlapIsShared, DbHasWhatIsCarried,
            FileUndamaged, CarriesLoneSaves, NoSaveBreaksAnother, LoneSaveIsDurable, InFlight
<1>1. ASSUME NEW c \in Callers, Fail(c) PROVE SaveInv'
  <2>1. at'[c] = "failed" /\ \A d \in Callers : d # c => at'[d] = at[d]
    BY <1>1 DEF Fail, Goes, TypeOK
  <2>2. QED
    BY <1>1, <2>1 DEF Fail
<1>2. CASE Close
  BY <1>2 DEF Close
<1>3. CASE Exit
  <2>1. \A c \in Callers : at'[c] \notin InFlight /\ (at'[c] = at[c] \/ at'[c] = "lost")
    BY <1>3 DEF Exit
  <2>2. QED
    BY <1>3, <2>1 DEF Exit
<1>4. ASSUME NEW mtime \in {file.mtime, now}, Damage(mtime) PROVE SaveInv'
  <2>1. damages' # 0 /\ process' = "down" /\ process = "down"
    BY <1>4, StoreAssumption DEF Damage, TypeOK
  <2>2. QED
    BY <1>4, <2>1 DEF Damage
<1>5. CASE Tick
  BY <1>5 DEF Tick
<1>6. CASE UNCHANGED vars
  BY <1>6 DEF vars
<1>7. QED
  BY <1>1, <1>2, <1>3, <1>4, <1>5, <1>6

-----------------------------------------------------------------------------
(* Among finitely many copies each has a rank of its own.                  *)
LEMMA NewerRanksLower ==
  ASSUME NEW S \in SUBSET Copies, IsFiniteSet(S), NEW c \in S, NEW d \in S
  PROVE  /\ Rank(S, c) \in Nat /\ Rank(S, c) < Cardinality(S)
         /\ Newer(d, c) => Rank(S, d) < Rank(S, c)
<1> DEFINE Above(e) == {x \in S : Newer(x, e)}
<1>1. \A e \in S : /\ IsFiniteSet(Above(e)) /\ Cardinality(Above(e)) \in Nat
                   /\ Rank(S, e) = Cardinality(Above(e))
  BY FS_Subset, FS_CardinalityType DEF Rank
<1>2. Cardinality(Above(c)) < Cardinality(S)
  <2>1. Above(c) \in SUBSET S /\ c \notin Above(c)
    BY DEF Newer, Copies
  <2>2. Cardinality(Above(c)) <= Cardinality(S) /\ Cardinality(Above(c)) # Cardinality(S)
    BY <2>1, FS_Subset
  <2>3. QED
    BY <1>1, <2>2, FS_CardinalityType
<1>3. ASSUME Newer(d, c) PROVE Cardinality(Above(d)) < Cardinality(Above(c))
  <2>1. Above(d) \in SUBSET Above(c)
    BY <1>3 DEF Newer, Copies
  <2>2. d \in Above(c) /\ d \notin Above(d)
    BY <1>3 DEF Newer, Copies
  <2>3. /\ Cardinality(Above(d)) <= Cardinality(Above(c))
        /\ Cardinality(Above(d)) # Cardinality(Above(c))
    BY <1>1, <2>1, <2>2, FS_Subset
  <2>4. Cardinality(Above(c)) \in Nat /\ Cardinality(Above(d)) \in Nat
    BY <1>1
  <2>5. QED
    BY <2>3, <2>4
<1>4. QED
  BY <1>1, <1>2, <1>3

LEMMA RanksAreDistinct ==
  ASSUME NEW S \in SUBSET Copies, IsFiniteSet(S), NEW c \in S, NEW d \in S, c # d
  PROVE  Rank(S, c) # Rank(S, d)
<1>1. Newer(c, d) \/ Newer(d, c)
  BY DEF Newer, Copies
<1>2. QED
  BY <1>1, NewerRanksLower

LEMMA CountToHere ==
  ASSUME NEW n \in Nat
  PROVE  IsFiniteSet(0..(n - 1)) /\ Cardinality(0..(n - 1)) = n
<1>1. 0 \in Int /\ n - 1 \in Int
  OBVIOUS
<1>2. /\ IsFiniteSet(0..(n - 1))
      /\ Cardinality(0..(n - 1)) = IF 0 > n - 1 THEN 0 ELSE (n - 1) - 0 + 1
  BY <1>1, FS_Interval
<1>3. QED
  BY <1>2

LEMMA RanksAreFilled ==
  ASSUME NEW S \in SUBSET Copies, IsFiniteSet(S), NEW r \in Nat, r < Cardinality(S)
  PROVE  \E c \in S : Rank(S, c) = r
<1> DEFINE T == 0..(Cardinality(S) - 1)
           f == [c \in S |-> Rank(S, c)]
<1>1. Cardinality(S) \in Nat
  BY FS_CardinalityType
<1>2. IsFiniteSet(T) /\ Cardinality(T) = Cardinality(S)
  BY <1>1, CountToHere
<1>3. f \in Injection(S, T)
  <2>1. f \in [S -> T]
    BY <1>1, NewerRanksLower
  <2>2. \A c, d \in S : f[c] = f[d] => c = d
    BY RanksAreDistinct
  <2>3. QED
    BY <2>1, <2>2 DEF Injection, IsInjective
<1>4. f \in Surjection(S, T)
  BY <1>2, <1>3, FS_Injection
<1>5. r \in T
  BY <1>1
<1>6. QED
  BY <1>4, <1>5 DEF Surjection

(* The first few by rank are as many as there may be.                      *)
Foremost(S) == {c \in S : Rank(S, c) < MaxCopies}

LEMMA ForemostAreBounded ==
  ASSUME NEW S \in SUBSET Copies, IsFiniteSet(S)
  PROVE  /\ IsFiniteSet(Foremost(S)) /\ Cardinality(Foremost(S)) <= MaxCopies
         /\ MaxCopies <= Cardinality(S) => Cardinality(Foremost(S)) = MaxCopies
<1> DEFINE K == Foremost(S)
           T == 0..(MaxCopies - 1)
           f == [c \in K |-> Rank(S, c)]
<1>1. IsFiniteSet(T) /\ Cardinality(T) = MaxCopies
  BY StoreAssumption, CountToHere
<1>2. f \in Injection(K, T)
  <2>1. f \in [K -> T]
    BY StoreAssumption, NewerRanksLower DEF Foremost
  <2>2. \A c, d \in K : f[c] = f[d] => c = d
    BY RanksAreDistinct DEF Foremost
  <2>3. QED
    BY <2>1, <2>2 DEF Injection, IsInjective
<1>3. /\ IsFiniteSet(K) /\ Cardinality(K) <= MaxCopies
      /\ (Cardinality(K) = MaxCopies <=> f \in Surjection(K, T))
  BY <1>1, <1>2, FS_Injection
<1>4. ASSUME MaxCopies <= Cardinality(S) PROVE f \in Surjection(K, T)
  <2>1. \A r \in T : \E c \in K : f[c] = r
    <3> SUFFICES ASSUME NEW r \in T PROVE \E c \in K : f[c] = r
      OBVIOUS
    <3>1. r \in Nat /\ r < Cardinality(S) /\ r < MaxCopies
      BY <1>4, StoreAssumption, FS_CardinalityType
    <3>2. PICK c \in S : Rank(S, c) = r
      BY <3>1, RanksAreFilled
    <3>3. QED
      BY <3>1, <3>2 DEF Foremost
  <2>2. QED
    BY <1>2, <2>1 DEF Injection, Surjection
<1>5. QED
  BY <1>3, <1>4

(* What reaping keeps is bounded, and what it drops in time is older than  *)
(* as many as may be kept.                                                 *)
LEMMA ReapingIsForCause ==
  ASSUME TypeOK, NEW S \in SUBSET Copies, IsFiniteSet(S)
  PROVE  /\ IsFiniteSet(Reap(S)) /\ Cardinality(Reap(S)) <= MaxCopies
         /\ \A c \in S \ Reap(S) :
               \/ now - c.mtime > QuarantineTTL
               \/ Cardinality({d \in Reap(S) : d.mtime >= c.mtime}) = MaxCopies
<1>1. now \in Nat /\ QuarantineTTL \in Nat /\ \A c \in S : c.mtime \in Nat
  BY StoreAssumption DEF TypeOK, Copies
<1>2. Reap(S) \in SUBSET Foremost(S)
  BY DEF Reap, Foremost
<1>3. IsFiniteSet(Reap(S)) /\ Cardinality(Reap(S)) <= MaxCopies
  <2>1. /\ IsFiniteSet(Foremost(S)) /\ Cardinality(Foremost(S)) <= MaxCopies
    BY ForemostAreBounded
  <2>2. IsFiniteSet(Reap(S)) /\ Cardinality(Reap(S)) <= Cardinality(Foremost(S))
    BY <1>2, <2>1, FS_Subset
  <2>3. QED
    BY <2>1, <2>2, FS_CardinalityType, StoreAssumption
<1>4. ASSUME NEW c \in S \ Reap(S), ~(now - c.mtime > QuarantineTTL)
      PROVE  Cardinality({d \in Reap(S) : d.mtime >= c.mtime}) = MaxCopies
  <2>1. Rank(S, c) >= MaxCopies
    BY <1>1, <1>4, NewerRanksLower, StoreAssumption DEF Reap
  <2>2. MaxCopies <= Cardinality(S)
    BY <2>1, NewerRanksLower, FS_CardinalityType, StoreAssumption
  <2>3. ASSUME NEW d \in Foremost(S) PROVE d.mtime >= c.mtime /\ d \in Reap(S)
    <3>1. d \in S /\ Rank(S, d) < Rank(S, c)
      BY <2>1, NewerRanksLower, StoreAssumption DEF Foremost
    <3>2. ~Newer(c, d)
      BY <3>1, NewerRanksLower
    <3>3. d.mtime >= c.mtime
      BY <1>1, <3>1, <3>2 DEF Newer
    <3>4. QED
      BY <1>1, <1>4, <3>1, <3>3 DEF Reap, Foremost
  <2>4. {d \in Reap(S) : d.mtime >= c.mtime} = Foremost(S)
    BY <1>2, <2>3
  <2>5. QED
    BY <2>2, <2>4, ForemostAreBounded
<1>5. QED
  BY <1>3, <1>4

(* What lies aside is finite, and bounded while the store is open.         *)
CopiesBounded ==
  IsFiniteSet(copies) /\ (process = "open" => Cardinality(copies) <= MaxCopies)

LEMMA StepCopies ==
  ASSUME SaveInv, CopiesBounded, [Next]_vars
  PROVE  /\ CopiesBounded'
         /\ \A c \in (copies \cup JustMoved) \ copies' :
              \/ now - c.mtime > QuarantineTTL
              \/ Cardinality({d \in copies' : d.mtime >= c.mtime}) = MaxCopies
<1> DEFINE Dropped(S) ==
      \A c \in S \ copies' : \/ now - c.mtime > QuarantineTTL
                             \/ Cardinality({d \in copies' : d.mtime >= c.mtime}) = MaxCopies
<1>1. ASSUME NEW moved \in BOOLEAN, Open(moved)
      PROVE  CopiesBounded' /\ Dropped(copies \cup JustMoved)
  <2> DEFINE aside == file.state = "damaged" /\ moved
             all == IF aside THEN copies \cup {MovedAside} ELSE copies
  <2>1. copies' = Reap(all) /\ file' = IF aside THEN [file EXCEPT !.state = "absent", !.rows = {}] ELSE file
    BY <1>1 DEF Open
  <2>2. file.state = "damaged" => MovedAside \in Copies
    BY StoreAssumption DEF SaveInv, TypeOK, File, FileUndamaged, MovedAside, Copies
  <2>3. all \in SUBSET Copies /\ IsFiniteSet(all)
    BY <2>2, FS_AddElement DEF SaveInv, TypeOK, CopiesBounded
  <2>4. copies \cup JustMoved = all
    BY <2>1 DEF JustMoved, SaveInv, TypeOK, File
  <2>5. /\ IsFiniteSet(Reap(all)) /\ Cardinality(Reap(all)) <= MaxCopies
        /\ \A c \in all \ Reap(all) :
              \/ now - c.mtime > QuarantineTTL
              \/ Cardinality({d \in Reap(all) : d.mtime >= c.mtime}) = MaxCopies
    BY <2>3, ReapingIsForCause DEF SaveInv
  <2>6. QED
    BY <2>1, <2>4, <2>5 DEF CopiesBounded
<1>2. ASSUME \A moved \in BOOLEAN : ~Open(moved)
      PROVE  CopiesBounded' /\ Dropped(copies \cup JustMoved)
  <2>1. copies' = copies /\ (process' = "open" => process = "open")
        /\ (file'.state = "absent" => file.state = "absent")
    BY <1>2 DEF Next, SaveStep, Change, Export, WriteTmp, Rename, Fail, Close, Exit, Damage, Tick,
               vars
  <2>2. JustMoved = {}
    BY <2>1 DEF JustMoved
  <2>3. QED
    BY <2>1, <2>2 DEF CopiesBounded
<1>3. QED
  BY <1>1, <1>2

-----------------------------------------------------------------------------
(* The strengthening holds throughout.                                     *)
THEOREM SaveInvariance == Spec => []SaveInv
<1>1. SaveInv /\ [Next]_vars => SaveInv'
  <2> SUFFICES ASSUME SaveInv, [Next]_vars PROVE SaveInv'
    OBVIOUS
  <2>1. TypeOK'
    BY StepSaveTypeOK DEF SaveInv
  <2>2. QED
    BY <2>1, StepOpen, StepChange, StepExport, StepWriteTmp, StepRename, StepStore
       DEF Next, SaveStep
<1>2. QED
  BY <1>1, InitSaveInv, PTL DEF Spec

(* A save rejects for a failed file operation or a closed store, never for *)
(* another save of the same store (sqlite-store.ts:263-272).               *)
THEOREM SavesLeaveEachOtherAlone == Spec => []NoSaveBreaksAnother
BY SaveInvariance, PTL DEF SaveInv

(* A save nothing overlapped is in every file a later process loads        *)
(* (sqlite-store.ts:263-285).                                              *)
THEOREM LoneSavesAreDurable == Spec => []LoneSaveIsDurable
BY SaveInvariance, PTL DEF SaveInv

(* The files moved aside stay bounded while the store is open, and an init *)
(* drops one only for its age or for enough newer ones                     *)
(* (sqlite-store.ts:35-45).                                                *)
THEOREM SalvageStaysBounded == Spec => SalvageIsBounded
<1>1. Init => CopiesBounded
  BY FS_EmptySet DEF Init, CopiesBounded
<1>2. SaveInv /\ CopiesBounded /\ [Next]_vars => CopiesBounded'
  BY StepCopies
<1>3. SaveInv /\ CopiesBounded /\ [Next]_vars =>
        [/\ process' = "open" => Cardinality(copies') <= MaxCopies
         /\ \A c \in (copies \cup JustMoved) \ copies' :
               \/ now - c.mtime > QuarantineTTL
               \/ Cardinality({d \in copies' : d.mtime >= c.mtime}) = MaxCopies]_vars
  BY StepCopies DEF CopiesBounded
<1>4. QED
  BY <1>1, <1>2, <1>3, SaveInvariance, PTL DEF Spec, SalvageIsBounded

(* All that the store promises of its saves and its salvage, for any       *)
(* number of callers (sqlite-store.ts).                                    *)
THEOREM SavesStayKept == Spec => SavesAreKept
<1>1. SaveInv => TypeOK /\ NoSaveBreaksAnother /\ LoneSaveIsDurable
  BY DEF SaveInv
<1>2. QED
  BY <1>1, SaveInvariance, SalvageStaysBounded, PTL DEF SavesAreKept
=============================================================================
