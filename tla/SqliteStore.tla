---------------------------- MODULE SqliteStore ----------------------------
(***************************************************************************)
(* HandlerSqliteStore (daemon/handlers/sqlite-store.ts), the base of the   *)
(* drafts, routes, inbox cursor and enrichment stores: a database in       *)
(* memory that save() exports to a temporary file and renames over the     *)
(* store's path.  save() awaits three times, so the saves of two callers   *)
(* interleave; init() moves a file it cannot open aside and bounds what    *)
(* lies there.                                                             *)
(*                                                                         *)
(* Each caller makes one change to the database and saves it.  A snapshot  *)
(* is the set of changes it holds.                                         *)
(***************************************************************************)
EXTENDS Naturals, FiniteSets

CONSTANTS
  Callers,
  QuarantineTTL,  \* CORRUPT_QUARANTINE_TTL_MS, in ticks of now
  MaxCopies,      \* MAX_CORRUPT_QUARANTINES
  MaxTime,        \* bound of the model: last tick of the clock
  MaxDamages      \* bound of the model: how often the file goes bad

ASSUME StoreAssumption ==
  /\ IsFiniteSet(Callers)
  /\ MaxCopies \in Nat \ {0}
  /\ {QuarantineTTL, MaxTime, MaxDamages} \subseteq Nat

VARIABLES
  process,  \* "down", "open", or "closed" once close() ran
  db,       \* the database in memory
  at,       \* where each caller's save is
  exported, \* what each save exported
  tmp,      \* temporary files, by the save that names them
  broken,   \* saves that met a failed file operation or a closed database
  shared,   \* saves that were in flight together with another
  file,     \* the database file
  copies,   \* files moved aside as .corrupt-<timestamp>
  damages,  \* how often the file went bad
  now

callVars == <<at, exported, tmp, broken, shared>>
vars == <<process, db, callVars, file, copies, damages, now>>

Snapshots == SUBSET Callers
File == [state: {"absent", "sound", "damaged"}, rows: Snapshots, mtime: 0..MaxTime]
Copies == [n: 1..MaxDamages, mtime: 0..MaxTime]
InFlight == {"mkdir", "writeFile", "rename"}
Places == {"new", "saved", "failed", "lost"} \cup InFlight

Init ==
  /\ process = "down"
  /\ db = {}
  /\ at = [c \in Callers |-> "new"]
  /\ exported = [c \in Callers |-> {}]
  /\ tmp = [c \in Callers |-> {}]
  /\ broken = {}
  /\ shared = {}
  /\ file = [state |-> "absent", rows |-> {}, mtime |-> 0]
  /\ copies = {}
  /\ damages = 0
  /\ now = 0

-----------------------------------------------------------------------------
(* quarantineUnreadable: a rename, which keeps the file's mtime.           *)
MovedAside == [n |-> damages, mtime |-> file.mtime]

(* reapCorruptQuarantines keeps the newest copies that are not too old,    *)
(* both by the time the file was last modified.                            *)
Newer(c, d) == c.mtime > d.mtime \/ (c.mtime = d.mtime /\ c.n > d.n)
OldestFirst(all, c) == Cardinality({d \in all : Newer(c, d)})  \* bug: sorted the other way
Rank(all, c) == Cardinality({d \in all : Newer(d, c)})
Reap(all) == {c \in all : now - c.mtime <= QuarantineTTL /\ Rank(all, c) < MaxCopies}

Loaded == IF file.state = "sound" THEN file.rows ELSE {}

(* init: a sound file is loaded; one that is not is moved aside, or stays  *)
(* where it is when that fails, and the database starts empty.             *)
Open(moved) ==
  /\ process = "down"
  /\ process' = "open"
  /\ db' = Loaded
  /\ LET aside == file.state = "damaged" /\ moved
     IN /\ file' = IF aside THEN [file EXCEPT !.state = "absent", !.rows = {}] ELSE file
        /\ copies' = Reap(IF aside THEN copies \cup {MovedAside} ELSE copies)
  /\ UNCHANGED <<callVars, damages, now>>

-----------------------------------------------------------------------------
Goes(c, place) == at' = [at EXCEPT ![c] = place]

(* A handler writes to the database and calls save(), which first awaits   *)
(* mkdir.                                                                  *)
Change(c) ==
  /\ process = "open"
  /\ at[c] = "new"
  /\ db' = db \cup {c}
  /\ Goes(c, "mkdir")
  /\ LET others == {d \in Callers : at[d] \in InFlight}
     IN shared' = IF others = {} THEN shared ELSE shared \cup others \cup {c}
  /\ UNCHANGED <<process, exported, tmp, broken, file, copies, damages, now>>

(* export, then the await of writeFile.  A database closed in the meantime *)
(* throws.                                                                 *)
Export(c) ==
  /\ process # "down"
  /\ at[c] = "mkdir"
  /\ IF process = "open"
     THEN /\ exported' = [exported EXCEPT ![c] = db]
          /\ Goes(c, "writeFile")
          /\ UNCHANGED broken
     ELSE /\ broken' = broken \cup {c}
          /\ Goes(c, "failed")
          /\ UNCHANGED exported
  /\ UNCHANGED <<process, db, tmp, shared, file, copies, damages, now>>

(* The temporary file's name carries a sequence number of its own for each *)
(* save of the process.                                                    *)
TmpPath(c) == c

WriteTmp(c) ==
  /\ process # "down"
  /\ at[c] = "writeFile"
  /\ tmp' = [tmp EXCEPT ![TmpPath(c)] = exported[c]]
  /\ Goes(c, "rename")
  /\ UNCHANGED <<process, db, exported, broken, shared, file, copies, damages, now>>

(* rename moves the temporary file away; one that is not there is ENOENT.  *)
(* (No export is empty: each holds at least its caller's own change.)      *)
Rename(c) ==
  /\ process # "down"
  /\ at[c] = "rename"
  /\ IF tmp[TmpPath(c)] # {}
     THEN /\ file' = [state |-> "sound", rows |-> tmp[TmpPath(c)], mtime |-> now]
          /\ tmp' = [tmp EXCEPT ![TmpPath(c)] = {}]
          /\ Goes(c, "saved")
     ELSE /\ Goes(c, "failed")
          /\ UNCHANGED <<file, tmp>>
  /\ UNCHANGED <<process, db, exported, broken, shared, copies, damages, now>>

(* mkdir, writeFile or rename fails, and the save rejects.                 *)
Fail(c) ==
  /\ process # "down"
  /\ at[c] \in InFlight
  /\ broken' = broken \cup {c}
  /\ Goes(c, "failed")
  /\ UNCHANGED <<process, db, exported, tmp, shared, file, copies, damages, now>>

Close ==
  /\ process = "open"
  /\ process' = "closed"
  /\ db' = {}
  /\ UNCHANGED <<callVars, file, copies, damages, now>>

(* The process ends, whether or not it closed the store, and leaves its    *)
(* temporary files behind under names no later process writes.             *)
Exit ==
  /\ process # "down"
  /\ process' = "down"
  /\ db' = {}
  /\ at' = [c \in Callers |-> IF at[c] \in InFlight THEN "lost" ELSE at[c]]
  /\ tmp' = [c \in Callers |-> {}]
  /\ UNCHANGED <<exported, broken, shared, file, copies, damages, now>>

(* A crash of the machine, a truncated restore or an interrupted copy      *)
(* leaves a file that is no database, with a new modification time or the  *)
(* one it had.                                                             *)
Damage(mtime) ==
  /\ process = "down"
  /\ file.state = "sound"
  /\ damages < MaxDamages
  /\ damages' = damages + 1
  /\ file' = [state |-> "damaged", rows |-> {}, mtime |-> mtime]
  /\ UNCHANGED <<process, db, callVars, copies, now>>

Tick ==
  /\ now < MaxTime
  /\ now' = now + 1
  /\ UNCHANGED <<process, db, callVars, file, copies, damages>>

SaveStep(c) == Change(c) \/ Export(c) \/ WriteTmp(c) \/ Rename(c) \/ Fail(c)

Next ==
  \/ \E moved \in BOOLEAN : Open(moved)
  \/ \E c \in Callers : SaveStep(c)
  \/ Close
  \/ Exit
  \/ \E mtime \in {file.mtime, now} : Damage(mtime)
  \/ Tick

Spec == Init /\ [][Next]_vars
-----------------------------------------------------------------------------
(* Type invariant.  A damaged file is not counted on for any row.          *)
TypeOK ==
  /\ process \in {"down", "open", "closed"}
  /\ db \in Snapshots
  /\ at \in [Callers -> Places]
  /\ exported \in [Callers -> Snapshots]
  /\ tmp \in [Callers -> Snapshots]
  /\ broken \in Snapshots
  /\ shared \in Snapshots
  /\ file \in File
  /\ copies \in SUBSET Copies
  /\ damages \in 0..MaxDamages
  /\ now \in 0..MaxTime

(* A save rejects only for a file operation that failed or a store that    *)
(* was closed under it, never for another save of the same store           *)
(* (sqlite-store.ts:263-272).                                              *)
NoSaveBreaksAnother == \A c \in Callers : at[c] = "failed" => c \in broken

(* A save nothing overlapped is in every file a later process loads: no    *)
(* later save, failed save or exit takes it back.                          *)
LoneSaveIsDurable ==
  \A c \in Callers \ shared : at[c] = "saved" /\ damages = 0 => c \in file.rows

(* Any save that was told saved survives a restart                         *)
(* (drafts/register.ts:256-258).  Two saves at once break it.              *)
SavedIsDurable ==
  \A c \in Callers : at[c] = "saved" /\ damages = 0 => c \in file.rows

(* The file an init moves aside in this step, if it does.                  *)
JustMoved == IF file.state = "damaged" /\ file'.state = "absent" THEN {MovedAside} ELSE {}

(* An open store has no more than the bound set aside, and what an init    *)
(* reclaimed, the file it had just moved included, was too old, or older   *)
(* than enough copies it kept (sqlite-store.ts:35-45).                     *)
SalvageIsBounded ==
  [][/\ process' = "open" => Cardinality(copies') <= MaxCopies
     /\ \A c \in (copies \cup JustMoved) \ copies' :
           \/ now - c.mtime > QuarantineTTL
           \/ Cardinality({d \in copies' : d.mtime >= c.mtime}) = MaxCopies]_vars

(* Saves neither break nor undo one another where one ran alone, and what  *)
(* damaged files leave behind stays bounded (sqlite-store.ts).             *)
SavesAreKept ==
  [](TypeOK /\ NoSaveBreaksAnother /\ LoneSaveIsDurable) /\ SalvageIsBounded
=============================================================================
