---------------------------- MODULE DraftMirror ----------------------------
(***************************************************************************)
(* The draft mirror: the handlers of daemon/handlers/drafts/register.ts,   *)
(* the store of drafts/draft-store.ts and the at-rest cipher of            *)
(* daemon/handlers/credentials.ts, whose key is made on first use and kept *)
(* in the credential tier.  A save reads the row, awaits the encryption    *)
(* and then writes, so other saves and deletes of the draft come between.  *)
(*                                                                         *)
(* A row is the key its body is encrypted under and its createdAt.  A call *)
(* may be made again once it was answered.                                 *)
(***************************************************************************)
EXTENDS Naturals, FiniteSets

CONSTANTS
  Drafts,
  Calls,        \* calls of the four handlers that may be in flight
  Stamps,       \* values of createdAt
  MaxRestarts,  \* bound of the model: restarts of the daemon
  None

VARIABLES
  opening,   \* initPromise, with the close of the teardown
  rows,      \* the table in memory
  file,      \* the table on disk
  tier,      \* the key in the credential tier; 0 when absent or not 32 bytes
  minted,    \* keys generated so far
  cipher,    \* keyPromise: the call whose load it is, or None
  load,      \* how far the load each call began has come
  call,      \* the calls
  restarts

keyVars == <<tier, minted, cipher, load>>
vars == <<opening, rows, file, keyVars, call, restarts>>

Keys == 0..(MaxRestarts + 1)
Row == [key: Keys, created: Stamps]
Table == [Drafts -> Row \cup {None}]
NoRows == [d \in Drafts |-> None]
NoLoad == [at |-> "none", key |-> 0]
Kinds == {"read", "save", "delete"}
Idle == [at |-> "idle", kind |-> "read", draft |-> None, created |-> None,
         via |-> None, data |-> NoRows]

Init ==
  /\ opening = "none"
  /\ rows = NoRows
  /\ file = NoRows
  /\ tier = 0
  /\ minted = 0
  /\ cipher = None
  /\ load = [c \in Calls |-> NoLoad]
  /\ call = [c \in Calls |-> Idle]
  /\ restarts = 0

Answer(c) == call' = [call EXCEPT ![c] = Idle]
Goes(c, place) == call' = [call EXCEPT ![c].at = place]

-----------------------------------------------------------------------------
(* A handler is invoked; the first one starts the store's init.            *)
Invoke(c, kind, d, created) ==
  /\ call[c].at = "idle"
  /\ opening # "closed"
  /\ opening' = IF opening = "none" THEN "pending" ELSE opening
  /\ call' = [call EXCEPT ![c] = [Idle EXCEPT !.at = "opening", !.kind = kind,
                                              !.draft = d, !.created = created]]
  /\ UNCHANGED <<rows, file, keyVars, restarts>>

Opens ==
  /\ opening = "pending"
  /\ opening' = "open"
  /\ rows' = file
  /\ UNCHANGED <<file, keyVars, call, restarts>>

OpenFails ==
  /\ opening = "pending"
  /\ opening' = "rejected"
  /\ UNCHANGED <<rows, file, keyVars, call, restarts>>

(* The rejected promise is kept, so this is the answer of every call.      *)
InitRejected(c) ==
  /\ call[c].at = "opening" /\ opening = "rejected"
  /\ Answer(c)
  /\ UNCHANGED <<opening, rows, file, keyVars, restarts>>

Ready(c) == call[c].at = "opening" /\ opening \in {"open", "closed"}

(* A body the parsers refuse, and any call on a closed store, ends here.   *)
Refused(c) ==
  /\ Ready(c)
  /\ Answer(c)
  /\ UNCHANGED <<opening, rows, file, keyVars, restarts>>

(* list and get: nothing changes.                                          *)
Look(c) ==
  /\ Ready(c) /\ opening = "open" /\ call[c].kind = "read"
  /\ Answer(c)
  /\ UNCHANGED <<opening, rows, file, keyVars, restarts>>

-----------------------------------------------------------------------------
(* upsert up to the await of the encryption: the existing row gives the    *)
(* createdAt, and the first encryption starts the load of the key.         *)
MustLoad == cipher = None
ReadRow(c) ==
  /\ Ready(c) /\ opening = "open" /\ call[c].kind = "save"
  /\ LET row == rows[call[c].draft]
     IN call' = [call EXCEPT ![c].at = "keying",
                   ![c].created = IF row = None THEN @ ELSE row.created,
                   ![c].via = IF MustLoad THEN c ELSE cipher]
  /\ IF MustLoad
     THEN cipher' = c /\ load' = [load EXCEPT ![c] = [at |-> "resolving", key |-> 0]]
     ELSE UNCHANGED <<cipher, load>>
  /\ UNCHANGED <<opening, rows, file, tier, minted, restarts>>

(* loadOrCreateKey: the tier has a key, or a new one is stored.            *)
Resolve(c) ==
  /\ load[c].at = "resolving"
  /\ IF tier # 0
     THEN load' = [load EXCEPT ![c] = [at |-> "ready", key |-> tier]] /\ UNCHANGED minted
     ELSE /\ minted' = minted + 1
          /\ load' = [load EXCEPT ![c] = [at |-> "putting", key |-> minted + 1]]
  /\ UNCHANGED <<opening, rows, file, tier, cipher, call, restarts>>

Stored(key) == key
Put(c) ==
  /\ load[c].at = "putting"
  /\ tier' = Stored(load[c].key)
  /\ load' = [load EXCEPT ![c].at = "ready"]
  /\ UNCHANGED <<opening, rows, file, minted, cipher, call, restarts>>

(* The tier cannot be read, or a put fails, with or without an effect; the *)
(* rejection is kept like the promise.                                     *)
LoadFails(c) ==
  /\ \/ load[c].at = "resolving" /\ UNCHANGED tier
     \/ load[c].at = "putting" /\ tier' \in {tier, load[c].key}
  /\ load' = [load EXCEPT ![c].at = "failed"]
  /\ UNCHANGED <<opening, rows, file, minted, cipher, call, restarts>>

KeyRejected(c) ==
  /\ call[c].at = "keying" /\ load[call[c].via].at = "failed"
  /\ Answer(c)
  /\ UNCHANGED <<opening, rows, file, keyVars, restarts>>

(* INSERT ... ON CONFLICT(id) DO UPDATE, which does not name createdAt.    *)
Replaced(row, fresh) == fresh  \* bug: created = excluded.created
NoFallback(row, fresh) ==  \* bug: existing?.createdAt, with nothing for a new draft
  [fresh EXCEPT !.created = IF row = None THEN None ELSE row.created]
Upserted(row, fresh) == IF row = None THEN fresh ELSE [fresh EXCEPT !.created = row.created]
Write(c) ==
  /\ call[c].at = "keying" /\ load[call[c].via].at = "ready"
  /\ IF opening = "open"
     THEN /\ rows' = [rows EXCEPT ![call[c].draft] =
                        Upserted(@, [key |-> load[call[c].via].key, created |-> call[c].created])]
          /\ Goes(c, "saving")
     ELSE Answer(c) /\ UNCHANGED rows
  /\ UNCHANGED <<opening, file, keyVars, restarts>>

(* The save of the file follows only where a row went.                     *)
Delete(c) ==
  /\ Ready(c) /\ opening = "open" /\ call[c].kind = "delete"
  /\ IF rows[call[c].draft] = None
     THEN Answer(c) /\ UNCHANGED rows
     ELSE rows' = [rows EXCEPT ![call[c].draft] = None] /\ Goes(c, "saving")
  /\ UNCHANGED <<opening, file, keyVars, restarts>>

-----------------------------------------------------------------------------
(* The base store's save, cut where it matters: the export, the rename.    *)
Export(c) ==
  /\ call[c].at = "saving" /\ opening = "open"
  /\ call' = [call EXCEPT ![c].at = "renaming", ![c].data = rows]
  /\ UNCHANGED <<opening, rows, file, keyVars, restarts>>

Rename(c) ==
  /\ call[c].at = "renaming"
  /\ file' = call[c].data
  /\ Answer(c)
  /\ UNCHANGED <<opening, rows, keyVars, restarts>>

SaveFails(c) ==
  /\ call[c].at \in {"saving", "renaming"}
  /\ Answer(c)
  /\ UNCHANGED <<opening, rows, file, keyVars, restarts>>

(* The teardown closes the store the surface owns.                         *)
Close ==
  /\ opening = "open"
  /\ opening' = "closed"
  /\ rows' = NoRows
  /\ UNCHANGED <<file, keyVars, call, restarts>>

Restart ==
  /\ restarts < MaxRestarts
  /\ restarts' = restarts + 1
  /\ opening' = "none"
  /\ rows' = NoRows
  /\ cipher' = None
  /\ load' = [c \in Calls |-> NoLoad]
  /\ call' = [c \in Calls |-> Idle]
  /\ UNCHANGED <<file, tier, minted>>

Step(c) ==
  \/ InitRejected(c) \/ Refused(c) \/ Look(c)
  \/ ReadRow(c) \/ KeyRejected(c) \/ Write(c) \/ Delete(c)
  \/ Export(c) \/ Rename(c) \/ SaveFails(c)

KeyStep(c) == Resolve(c) \/ Put(c) \/ LoadFails(c)

Next ==
  \/ \E c \in Calls, kind \in Kinds, d \in Drafts, t \in Stamps : Invoke(c, kind, d, t)
  \/ Opens \/ OpenFails
  \/ \E c \in Calls : Step(c) \/ KeyStep(c)
  \/ Close \/ Restart

(* What a call awaits settles: the open, the tier, the file operations.    *)
Fairness ==
  /\ WF_vars(Opens \/ OpenFails)
  /\ \A c \in Calls : WF_vars(Step(c)) /\ WF_vars(KeyStep(c))

Spec == Init /\ [][Next]_vars /\ Fairness
-----------------------------------------------------------------------------
(* Type invariant.                                                         *)
TypeOK ==
  /\ opening \in {"none", "pending", "open", "rejected", "closed"}
  /\ rows \in Table
  /\ file \in Table
  /\ tier \in Keys
  /\ minted \in Keys
  /\ cipher \in Calls \cup {None}
  /\ load \in [Calls -> [at: {"none", "resolving", "putting", "ready", "failed"}, key: Keys]]
  /\ call \in [Calls -> [at: {"idle", "opening", "keying", "saving", "renaming"},
                         kind: Kinds, draft: Drafts \cup {None},
                         created: Stamps \cup {None}, via: Calls \cup {None}, data: Table]]
  /\ restarts \in 0..MaxRestarts

(* Every body, in memory, on disk or on its way there, is encrypted under  *)
(* the key a later process will find in the tier (credentials.ts:78-90).   *)
Readable(table) == \A d \in Drafts : table[d] # None => table[d].key = tier
BodiesReadable ==
  /\ Readable(rows)
  /\ Readable(file)
  /\ \A c \in Calls : call[c].at = "renaming" => Readable(call[c].data)

(* A draft keeps its createdAt as long as it is there, whichever of two    *)
(* saves that both found it missing writes first (draft-store.ts:226-228). *)
CreatedAtStays ==
  [][opening = "open" /\ opening' = "open" =>
       \A d \in Drafts :
          rows[d] # None /\ rows'[d] # None => rows'[d].created = rows[d].created]_vars

(* Every call is answered, after a rejected open or a lost key too.        *)
Waits(c) == call[c].at # "idle"
EveryCallIsAnswered == \A c \in Calls : Waits(c) ~> ~Waits(c)
=============================================================================
