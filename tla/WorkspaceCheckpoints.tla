------------------------ MODULE WorkspaceCheckpoints ------------------------
(***************************************************************************)
(* Workspace checkpoints, taken while the workspace is registered for them *)
(* (runtime/workspace-checkpointing.ts,                                    *)
(* runtime/trust/checkpoint-eligibility.ts, config/checkpoint-settings.ts). *)
(*                                                                         *)
(* Taken from outside the repository: the checkpoint manager, whose init   *)
(* and create are asynchronous and may fail, and whoever rewrites the      *)
(* register.                                                               *)
(***************************************************************************)
CONSTANTS Calls  \* checkpoints asked for

VARIABLES registered,  \* what the register on disk says of the workspace
          guarded,     \* checkpoints.unregisteredWorkspaces is "guarded"
          manager,     \* the checkpoint manager's init
          call         \* each checkpoint asked for

vars == <<registered, guarded, manager, call>>

(* A record of the register: a file that does not parse is an empty one.   *)
Records == {"torn", "absent", "declined", "registered", "eligible"}

(* Type invariant.                                                         *)
TypeOK ==
  /\ registered \in Records /\ guarded \in BOOLEAN
  /\ manager \in {"starting", "ready", "failed"}
  /\ call \in [Calls -> {"unasked", "asked", "null", "thrown", "taken"}]

Init ==
  /\ registered = "absent" /\ guarded = FALSE
  /\ manager = "starting" /\ call = [c \in Calls |-> "unasked"]

(* Another product, or the operator, rewrites the register or the setting. *)
Reregistered ==
  /\ registered' \in Records /\ guarded' \in BOOLEAN
  /\ UNCHANGED <<manager, call>>

(* init() runs once; its rejection is kept and every later call repeats it. *)
ManagerInit ==
  /\ manager = "starting" /\ manager' \in {"ready", "failed"}
  /\ UNCHANGED <<registered, guarded, call>>

(* The register is read anew for every checkpoint, and only a record with  *)
(* checkpointEligible covers a workspace.                                  *)
AnyRecord == registered \in {"registered", "eligible"}  \* bug: any registration will do
Covered == registered = "eligible"
CurrentlyAllowed == Covered \/ guarded

Takes(c, refusal) ==
  /\ call[c] = "unasked"
  /\ call' = [call EXCEPT ![c] = IF CurrentlyAllowed THEN "asked" ELSE refusal]
  /\ UNCHANGED <<registered, guarded, manager>>
Automatic(c) == Takes(c, "null")    \* a turn or an agent's run ended
Explicit(c) == Takes(c, "thrown")   \* through the gateway, which says why

(* The manager takes it, finds nothing changed, or fails.                  *)
Create(c) ==
  /\ call[c] = "asked" /\ manager # "starting"
  /\ \E outcome \in IF manager = "failed" THEN {"thrown"} ELSE {"taken", "null", "thrown"} :
       call' = [call EXCEPT ![c] = outcome]
  /\ UNCHANGED <<registered, guarded, manager>>

Next ==
  \/ Reregistered \/ ManagerInit
  \/ \E c \in Calls : Automatic(c) \/ Explicit(c) \/ Create(c)

Spec == Init /\ [][Next]_vars

-----------------------------------------------------------------------------
(* A checkpoint goes to the manager only while the register, as it is then *)
(* on disk, says the workspace is eligible, or the setting opts out: a     *)
(* registration withdrawn since the daemon started counts.                 *)
TakenOnlyIfEligible ==
  [][\A c \in Calls : call[c] = "unasked" /\ call'[c] = "asked"
        => registered = "eligible" \/ guarded]_vars

=============================================================================
