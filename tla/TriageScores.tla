---------------------------- MODULE TriageScores ----------------------------
(***************************************************************************)
(* Triage scores: runInboxTriage (daemon/handlers/triage/pipeline.ts)      *)
(* opens a database of its own over inbox-triage.sqlite for each batch,    *)
(* and the decorated channels.inbox.list (triage/integration.ts) keeps one *)
(* open for its reads.  Databases are in memory, and a save writes the     *)
(* whole of one over the file.                                             *)
(***************************************************************************)
EXTENDS Naturals, FiniteSets

CONSTANTS
  Items,
  Runs,   \* runInboxTriage in flight
  Calls,  \* channels.inbox.list in flight
  Levels, \* how strong a signal may be, 1 the weakest
  None

VARIABLES
  file,    \* the label of each item, or None
  run,     \* the runs
  handle,  \* the decorator's database, or None
  promise, \* initPromise
  call,    \* the calls
  retired  \* unregister has run

vars == <<file, run, handle, promise, call, retired>>

(* scoreInboundItem: both signals, and the label they give.                *)
Threshold == 2
Label(spam, priority) ==
  IF spam >= Threshold /\ spam >= priority THEN "spam"
  ELSE IF priority >= Threshold THEN "priority" ELSE "normal"

Labels == {"spam", "priority", "normal"}
Table == [Items -> Labels \cup {None}]
NoRows == [i \in Items |-> None]
Idle == [at |-> "idle", rows |-> NoRows, alone |-> FALSE]

Init ==
  /\ file = NoRows
  /\ run = [r \in Runs |-> Idle]
  /\ handle = None
  /\ promise = "none"
  /\ call = [c \in Calls |-> "idle"]
  /\ retired = FALSE

-----------------------------------------------------------------------------
(* A batch is scored and its store's init begins.  `alone' is the model's  *)
(* note of whether another run is open at the same time.                   *)
Score(r, i, spam, priority) ==
  /\ run[r].at = "idle"
  /\ LET others == \E o \in Runs : run[o].at # "idle"
     IN run' = [o \in Runs |->
          IF o = r
          THEN [Idle EXCEPT !.at = "opening", !.alone = ~others,
                            !.rows = [NoRows EXCEPT ![i] = Label(spam, priority)]]
          ELSE [run[o] EXCEPT !.alone = FALSE]]
  /\ UNCHANGED <<file, handle, promise, call, retired>>

(* init has loaded the file, and the transaction upserts the batch.        *)
Fresh(table) == NoRows  \* bug: the store is created and not loaded
Loaded(table) == table
Persist(r) ==
  /\ run[r].at = "opening"
  /\ LET table == Loaded(file)
     IN run' = [run EXCEPT ![r].at = "saving",
          ![r].rows = [i \in Items |-> IF @[i] = None THEN table[i] ELSE @[i]]]
  /\ UNCHANGED <<file, handle, promise, call, retired>>

SaveRun(r) ==
  /\ run[r].at = "saving"
  /\ file' = run[r].rows
  /\ run' = [run EXCEPT ![r] = Idle]
  /\ UNCHANGED <<handle, promise, call, retired>>

(* The open, the transaction or the save fails: the store is closed.       *)
RunFails(r) ==
  /\ run[r].at # "idle"
  /\ run' = [run EXCEPT ![r] = Idle]
  /\ UNCHANGED <<file, handle, promise, call, retired>>

-----------------------------------------------------------------------------
(* The decorated list, whose inner handler gave items; a call that was in  *)
(* flight at unregister gets here too.                                     *)
List(c) ==
  /\ call[c] = "idle"
  /\ handle = None
  /\ promise' = IF promise = "none" THEN "pending" ELSE promise
  /\ call' = [call EXCEPT ![c] = "waiting"]
  /\ UNCHANGED <<file, run, handle, retired>>

(* The one open the calls share ends; a failed one is forgotten, and its   *)
(* calls answer without scores.                                            *)
Answered == [c \in Calls |-> "idle"]
StoreOpens ==
  /\ promise = "pending"
  /\ handle' = file
  /\ promise' = "none"
  /\ call' = Answered
  /\ UNCHANGED <<file, run, retired>>

Forgotten == "none"
OpenFails ==
  /\ promise = "pending"
  /\ promise' = Forgotten
  /\ call' = Answered
  /\ UNCHANGED <<file, run, handle, retired>>

(* unregister: the inbox first, then the handle.  An open in flight goes   *)
(* on, and its handle stays open.                                          *)
Dispose ==
  /\ ~retired
  /\ retired' = TRUE
  /\ handle' = None
  /\ UNCHANGED <<file, run, promise, call>>

Next ==
  \/ \E r \in Runs : \/ \E i \in Items, spam, priority \in Levels : Score(r, i, spam, priority)
                     \/ Persist(r) \/ SaveRun(r) \/ RunFails(r)
  \/ \E c \in Calls : List(c)
  \/ StoreOpens \/ OpenFails \/ Dispose

Fairness == WF_vars(StoreOpens \/ OpenFails)

Spec == Init /\ [][Next]_vars /\ Fairness
-----------------------------------------------------------------------------
(* Type invariant.                                                         *)
TypeOK ==
  /\ file \in Table
  /\ run \in [Runs -> [at : {"idle", "opening", "saving"}, rows : Table,
                       alone : BOOLEAN]]
  /\ handle \in Table \cup {None}
  /\ promise \in {"none", "pending", "rejected"}
  /\ retired \in BOOLEAN
  /\ call \in [Calls -> {"idle", "waiting"}]

(* A run no other run overlaps keeps every score the file had; two that    *)
(* overlap may lose each other's (pipeline.ts:160-177).                    *)
LoneRunKeepsScores ==
  [][\A r \in Runs : run[r].alone /\ file' # file /\ run'[r].at = "idle" =>
       \A i \in Items : file[i] # None => file'[i] # None]_vars

(* Scores never hold up the inbox for good: a list call that waits for the *)
(* store is answered, after a failed open too, and the next one opens it   *)
(* anew (integration.ts:106-122).                                          *)
Waits(c) == call[c] = "waiting"
ListsAreAnswered == \A c \in Calls : Waits(c) ~> ~Waits(c)
=============================================================================
