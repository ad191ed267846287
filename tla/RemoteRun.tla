----------------------------- MODULE RemoteRun -----------------------------
(***************************************************************************)
(* Commands sent to a remote peer: the dispatcher of daemon/handlers/      *)
(* remote/dispatcher.ts, the backends that put key or credential files on  *)
(* disk for the command they start (backends/ssh.ts, cloud-terminal.ts),   *)
(* the ones that do not (local-process.ts, docker.ts), the subprocess      *)
(* runner with its timeout (process-runner.ts), and the surface's start    *)
(* and teardown (remote/index.ts).                                         *)
(*                                                                         *)
(* There is one peer; what matters of its registration is the credential   *)
(* reference it names.                                                     *)
(***************************************************************************)
EXTENDS Naturals, FiniteSets

CONSTANTS
  Calls,       \* dispatches that may be in flight
  Refs,        \* credential references a peer may be registered with
  MaxFiles,    \* bound of the model: files ever written
  MaxRestarts, \* bound of the model: restarts of the daemon
  None

VARIABLES
  surface,   \* "up", or "released" once the teardown began
  swept,     \* the construction sweep of the directories has settled
  torn,      \* the teardown's sweep has settled
  peerRef,   \* the reference the peer is registered with
  pool,      \* the SSH backend's pooled identity
  files,     \* key and credential files on disk
  written,   \* files ever written
  leaked,    \* files a failed file operation left behind
  overtaken, \* calls whose key was removed for a newer registration
  call,
  restarts

diskVars == <<files, written, leaked>>
vars == <<surface, swept, torn, peerRef, pool, diskVars, overtaken, call, restarts>>

Kinds == {"plain", "ssh", "cloud"}
Files == [n: 1..MaxFiles, kind: Kinds, life: 0..MaxRestarts]
Identities == [file: Files, ref: Refs]
Idle == [at |-> "idle", kind |-> "plain", ref |-> None, old |-> None, file |-> None,
         alive |-> FALSE, held |-> FALSE]

Init ==
  /\ surface = "up"
  /\ swept = FALSE
  /\ torn = FALSE
  /\ peerRef \in Refs
  /\ pool = None
  /\ files = {}
  /\ written = 0
  /\ leaked = {}
  /\ overtaken = {}
  /\ call = [c \in Calls |-> Idle]
  /\ restarts = 0

-----------------------------------------------------------------------------
(* The surface's construction removes what an earlier process left; the    *)
(* removal may fail, which is passed over.                                 *)
Sweep ==
  /\ ~swept
  /\ swept' = TRUE
  /\ \/ files' = {} /\ UNCHANGED leaked
     \/ leaked' = leaked \cup files /\ UNCHANGED files
  /\ UNCHANGED <<surface, torn, peerRef, pool, written, overtaken, call, restarts>>

(* The peer is registered again under another reference.                   *)
Register(ref) ==
  /\ ref # peerRef
  /\ peerRef' = ref
  /\ UNCHANGED <<surface, swept, torn, pool, diskVars, overtaken, call, restarts>>

Becomes(c, record) == call' = [call EXCEPT ![c] = record]
Spawned(record) == [record EXCEPT !.at = "running", !.alive = TRUE]

(* dispatch: the peer is looked up and its backend started, for SSH up to  *)
(* the first await of ensureIdentity, which has none when the pool holds   *)
(* the identity.  One with async goes to the manager's work queue instead  *)
(* and is answered with its id, which changes nothing here.                *)
Dispatch(c, kind) ==
  /\ surface = "up"
  /\ call[c].at = "idle"
  /\ LET asked == [Idle EXCEPT !.at = "resolving", !.kind = kind, !.ref = peerRef]
         pooled == kind = "ssh" /\ pool # None /\ pool.ref = peerRef
     IN IF kind = "plain" THEN Becomes(c, Spawned(asked))
        ELSE IF pooled THEN Becomes(c, Spawned([asked EXCEPT !.file = pool.file]))
        ELSE Becomes(c, [asked EXCEPT !.old = IF kind = "ssh" THEN pool ELSE None])
  /\ overtaken' = overtaken \ {c}
  /\ UNCHANGED <<surface, swept, torn, peerRef, pool, diskVars, restarts>>

SweepNotAwaited == TRUE  \* bug: the write does not wait for the sweep
MayWrite == swept
NewFile(c) == [n |-> written + 1, kind |-> call[c].kind, life |-> restarts]

(* The credential is resolved and its file written, after the sweep.       *)
WriteKey(c) ==
  /\ call[c].at = "resolving"
  /\ MayWrite
  /\ written < MaxFiles
  /\ written' = written + 1
  /\ files' = files \cup {NewFile(c)}
  /\ LET holds == [call[c] EXCEPT !.file = NewFile(c)]
     IN Becomes(c, IF call[c].kind = "ssh" THEN [holds EXCEPT !.at = "placing"]
                   ELSE Spawned(holds))
  /\ UNCHANGED <<surface, swept, torn, peerRef, pool, leaked, overtaken, restarts>>

(* The reference resolves to nothing, or the write fails, with or without  *)
(* a file: the dispatch is answered with an error.                         *)
NoKey(c) ==
  /\ call[c].at = "resolving"
  /\ Becomes(c, Idle)
  /\ \/ UNCHANGED diskVars
     \/ /\ MayWrite /\ written < MaxFiles
        /\ written' = written + 1
        /\ files' = files \cup {NewFile(c)}
        /\ leaked' = leaked \cup {NewFile(c)}
  /\ UNCHANGED <<surface, swept, torn, peerRef, pool, overtaken, restarts>>

(* ensureIdentity: the key it replaces is removed, then the pool is set.   *)
Replaced(c) == IF call[c].old = None THEN {} ELSE {call[c].old.file}
Place(c) ==
  /\ call[c].at = "placing"
  /\ files' = files \ Replaced(c)
  /\ overtaken' = overtaken \cup {d \in Calls : call[d].file \in Replaced(c)}
  /\ pool' = [file |-> call[c].file, ref |-> call[c].ref]
  /\ Becomes(c, Spawned(call[c]))
  /\ UNCHANGED <<surface, swept, torn, peerRef, written, leaked, restarts>>

-----------------------------------------------------------------------------
(* runProcess: the child takes its input and exits, or the timer kills it; *)
(* something it started may go on holding its output.                      *)
Exits(c, held) ==
  /\ call[c].at = "running" /\ call[c].alive
  /\ Becomes(c, [call[c] EXCEPT !.alive = FALSE, !.held = held])
  /\ UNCHANGED <<surface, swept, torn, peerRef, pool, diskVars, overtaken, restarts>>

Closes(c) ==
  /\ call[c].held
  /\ Becomes(c, [call[c] EXCEPT !.held = FALSE])
  /\ UNCHANGED <<surface, swept, torn, peerRef, pool, diskVars, overtaken, restarts>>

SingleUse(c) == IF call[c].kind = "cloud" THEN {call[c].file} ELSE {}

(* Exit and end of the output have both come: the dispatch is answered,    *)
(* and a cloud credential removed; a removal that fails is passed over.    *)
Finish(c) ==
  /\ call[c].at = "running" /\ ~call[c].alive /\ ~call[c].held
  /\ \/ files' = files \ SingleUse(c) /\ UNCHANGED leaked
     \/ leaked' = leaked \cup SingleUse(c) /\ UNCHANGED files
  /\ Becomes(c, Idle)
  /\ UNCHANGED <<surface, swept, torn, peerRef, pool, written, overtaken, restarts>>

-----------------------------------------------------------------------------
(* The surface's teardown forgets the pool and removes the directories,    *)
(* without waiting for either the removal, which may fail, or the          *)
(* dispatches in flight.                                                   *)
Release ==
  /\ surface = "up"
  /\ surface' = "released"
  /\ pool' = None
  /\ UNCHANGED <<swept, torn, peerRef, diskVars, overtaken, call, restarts>>

TeardownSweeps ==
  /\ surface = "released" /\ ~torn
  /\ torn' = TRUE
  /\ files' \in {{}, files}
  /\ UNCHANGED <<surface, swept, peerRef, pool, written, leaked, overtaken, call, restarts>>

Restart ==
  /\ restarts < MaxRestarts
  /\ restarts' = restarts + 1
  /\ surface' = "up"
  /\ swept' = FALSE
  /\ torn' = FALSE
  /\ pool' = None
  /\ overtaken' = {}
  /\ call' = [c \in Calls |-> Idle]
  /\ UNCHANGED <<peerRef, diskVars>>

Advances(c) ==
  \/ NoKey(c) \/ WriteKey(c) \/ Place(c) \/ Closes(c) \/ Finish(c)
  \/ \E held \in BOOLEAN : Exits(c, held)

Next ==
  \/ Sweep \/ Release \/ TeardownSweeps \/ Restart
  \/ \E ref \in Refs : Register(ref)
  \/ \E c \in Calls :
       \/ \E kind \in Kinds : Dispatch(c, kind)
       \/ Advances(c)

(* File operations and credential look-ups settle, a command takes its     *)
(* input, the timer ends a command that does not, and what a command left  *)
(* running closes its output in the end.                                   *)
Fairness == WF_vars(Sweep) /\ \A c \in Calls : WF_vars(surface = "up" /\ Advances(c))

Spec == Init /\ [][Next]_vars /\ Fairness
-----------------------------------------------------------------------------
(* Type invariant.                                                         *)
TypeOK ==
  /\ surface \in {"up", "released"}
  /\ swept \in BOOLEAN /\ torn \in BOOLEAN
  /\ peerRef \in Refs
  /\ pool \in Identities \cup {None}
  /\ files \in SUBSET Files /\ leaked \in SUBSET Files
  /\ written \in 0..MaxFiles
  /\ overtaken \in SUBSET Calls
  /\ call \in [Calls -> [at: {"idle", "resolving", "placing", "running"},
                         kind: Kinds, ref: Refs \cup {None}, old: Identities \cup {None},
                         file: Files \cup {None}, alive: BOOLEAN, held: BOOLEAN]]
  /\ restarts \in 0..MaxRestarts

(* The key file of a command that was started is there: neither a sweep of *)
(* its own process (ssh.ts:35-41) nor another command takes it, except for *)
(* one sent under another registration.                                    *)
KeyFilesAreThere ==
  \A c \in Calls :
     surface = "up" /\ call[c].file # None /\ c \notin overtaken => call[c].file \in files

(* A cloud credential is on disk only while its command runs               *)
(* (cloud-terminal.ts:139-143), where no removal failed.                   *)
CredentialsAreSingleUse ==
  \A f \in files :
     f.kind = "cloud" /\ f.life = restarts /\ f \notin leaked =>
       \E c \in Calls : call[c].file = f

(* A dispatch is answered, unless the surface is torn down meanwhile.      *)
Waits(c) == call[c].at # "idle" /\ surface = "up"
EveryDispatchIsAnswered == \A c \in Calls : Waits(c) ~> ~Waits(c)
=============================================================================
