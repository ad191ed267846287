---------------------------- MODULE ServiceUnits ----------------------------
(***************************************************************************)
(* The two systemd units a host may run the daemon under: the one an older *)
(* install script left (goodvibes-daemon.service) and the one this program *)
(* manages.  Two kinds of process change them at the same time: the        *)
(* service subcommands (daemon/service-commands.ts), migrate-service among *)
(* them (runtime/legacy-daemon-migration.ts), and the unattended pass      *)
(* every daemon makes when it starts                                       *)
(* (runtime/legacy-daemon-reconcile.ts).  Each is a sequence of systemctl  *)
(* calls with the other's between them, and a daemon that a subcommand     *)
(* starts makes a pass of its own while that subcommand is still running.  *)
(*                                                                         *)
(* Every call may fail or time out with or without having had its effect;  *)
(* daemons and subcommands may die at any point; anyone may start a unit.  *)
(* One subcommand runs at a time, and the host runs systemd.  What systemd *)
(* keeps of a removed file until daemon-reload is not modelled.            *)
(***************************************************************************)
EXTENDS Naturals, FiniteSets

Legacy == "goodvibes-daemon"
Managed == "goodvibes"
Units == {Legacy, Managed}
ByHand == "by hand"            \* a daemon run in no unit
Daemons == Units \cup {ByHand}

VARIABLES
  file,      \* units whose file exists
  enabled,   \* units with an enablement link
  running,   \* live daemons
  marked,    \* the legacy file carries the installer's marker
  tracked,   \* the unit service.serviceName resolves to
  pass,      \* where each daemon's reconcile pass is
  late,      \* passes that saw the legacy unit idle before it was started
  verb,      \* the subcommand under way
  step,      \* and where it is
  steady,    \* the legacy daemon has run ever since the subcommand began
  withdrawn  \* the user, or a rollback, took the managed unit away

hostVars == <<file, enabled, running, marked, tracked>>
passVars == <<pass, late>>
cliVars == <<verb, step, steady, withdrawn>>
vars == <<hostVars, passVars, cliVars>>

PassAt == {"none", "active", "mainpid", "legacy", "endpoint", "marker",
           "disable", "reinspect", "remove"}
PastGuards == {"endpoint", "marker", "disable", "reinspect", "remove"}
Verbs == {"migrate", "install", "uninstall", "start", "stop", "restart"}
Steps == {"idle", "install", "start", "health", "rollback", "stopLegacy",
          "disableLegacy", "removeLegacy", "stop", "restart", "uninstall",
          "aborted", "answered", "migrated"}

Init ==
  /\ tracked \in Units
  /\ file \in SUBSET Units
  /\ enabled \in SUBSET file
  /\ running \in SUBSET (file \cup {ByHand})
  /\ marked \in BOOLEAN
  /\ pass = [d \in Daemons |-> "none"]
  /\ late = {}
  /\ verb = "start"
  /\ step = "answered"
  /\ steady = FALSE
  /\ withdrawn = (file = {})

-----------------------------------------------------------------------------
(* The host.                                                               *)

(* A daemon that starts looks for the legacy file and begins its pass.     *)
StartsPass == IF Legacy \in file THEN "active" ELSE "none"

Up(d) ==
  /\ running' = running \cup {d}
  /\ pass' = [pass EXCEPT ![d] = StartsPass]
  /\ late' = IF d = Legacy THEN {e \in Daemons : pass[e] \in PastGuards}
             ELSE late \ {d}

(* A daemon that stops takes its pass with it.                             *)
Down(d) ==
  /\ running' = running \ {d}
  /\ pass' = [pass EXCEPT ![d] = "none"]
  /\ late' = late \ {d}

Boot(d) ==
  /\ d \notin running
  /\ d \in Units => d \in file
  /\ Up(d)
  /\ UNCHANGED <<file, enabled, marked, tracked, cliVars>>

Die(d) ==
  /\ d \in running
  /\ Down(d)
  /\ steady' = (steady /\ d # Legacy)
  /\ UNCHANGED <<file, enabled, marked, tracked, verb, step, withdrawn>>

-----------------------------------------------------------------------------
(* The reconcile pass.                                                     *)

PassGoes(d, at) == pass' = [pass EXCEPT ![d] = at]

(* A guard lets the pass on, or ends it with nothing changed.              *)
Guard(d, at, holds, next) ==
  /\ pass[d] = at
  /\ PassGoes(d, IF holds THEN next ELSE "none")
  /\ UNCHANGED <<hostVars, cliVars>>

(* A reply that did not come, or was skipped past the deadline, refuses.   *)
ConfirmedOrUnknown(known, fact) == known => fact  \* bug: silence is consent
Confirmed(known, fact) == known /\ fact

CheckActive(d) == \E known \in BOOLEAN :
  /\ Guard(d, "active", Confirmed(known, tracked \in running), "mainpid")
  /\ UNCHANGED late

CheckMainPid(d) == \E known \in BOOLEAN :
  /\ Guard(d, "mainpid", Confirmed(known, tracked \in running), "legacy")
  /\ UNCHANGED late

(* Not from inside the legacy unit, and not while its daemon runs.         *)
OutsideLegacy(d) == d # Legacy  \* bug: guard 4 is missing
MayRetireFrom(d) == d # Legacy /\ Legacy \notin running

CheckLegacy(d) == \E known \in BOOLEAN :
  /\ Guard(d, "legacy", Confirmed(known, MayRetireFrom(d)), "endpoint")
  /\ late' = late \ {d}

CheckEndpoint(d) == \E served \in BOOLEAN :
  /\ Guard(d, "endpoint", served, "marker")
  /\ UNCHANGED late

ReadMarker(d) == \E readable \in BOOLEAN :
  /\ Guard(d, "marker", readable /\ Legacy \in file /\ marked, "disable")
  /\ UNCHANGED late

(* systemctl disable --now: it removes the links, then waits for the stop. *)
AfterNullReply == "reinspect"
AfterDisable(status) ==
  IF status = "zero" THEN "remove" ELSE IF status = "null" THEN AfterNullReply ELSE "none"

DisableNow(d) == \E status \in {"zero", "nonzero", "null"}, links, stop \in BOOLEAN :
  /\ pass[d] = "disable"
  /\ status = "zero" => links /\ stop /\ Legacy \in file
  /\ enabled' = IF links THEN enabled \ {Legacy} ELSE enabled
  /\ running' = IF stop THEN running \ {Legacy} ELSE running
  /\ pass' = [pass EXCEPT ![d] = AfterDisable(status),
                          ![Legacy] = IF stop THEN "none" ELSE @]
  /\ UNCHANGED <<file, marked, tracked, late, cliVars>>

Reinspect(d) == \E known \in BOOLEAN :
  /\ Guard(d, "reinspect", Confirmed(known, Legacy \notin enabled), "remove")
  /\ UNCHANGED late

(* The file goes, or could not be removed; then daemon-reload.             *)
RemoveFile(d) == \E ok \in BOOLEAN :
  /\ pass[d] = "remove"
  /\ file' = IF ok THEN file \ {Legacy} ELSE file
  /\ PassGoes(d, "none")
  /\ UNCHANGED <<enabled, running, marked, tracked, late, cliVars>>

-----------------------------------------------------------------------------
(* The service subcommands.                                                *)

CliGoes(next) == step' = next /\ UNCHANGED verb
Finished == step \in {"idle", "aborted", "answered", "migrated"}

(* What each subcommand looks at before it changes anything: migrate finds *)
(* an old unit other than the managed one, and consent is given; install  *)
(* finds no old unit; start, stop and restart find the managed one.        *)
MayMigrateOntoItself == Legacy \in file  \* bug: no collision check
MayMigrate == Legacy \in file /\ tracked # Legacy
Proceeds(v, consent) ==
  \/ v = "migrate" /\ MayMigrate /\ consent
  \/ v = "install" /\ Legacy \notin file
  \/ v = "uninstall"
  \/ v \in {"start", "stop", "restart"} /\ tracked \in file

FirstStep(v) ==
  IF v \in {"migrate", "install"} THEN "install" ELSE IF v = "uninstall" THEN "stop" ELSE v

Command(v) == \E consent \in BOOLEAN :
  /\ Finished
  /\ verb' = v
  /\ step' = IF Proceeds(v, consent) THEN FirstStep(v) ELSE "answered"
  /\ steady' = /\ Legacy \in file \cap enabled \cap running
               /\ \A d \in Daemons : pass[d] \notin PastGuards
  /\ UNCHANGED <<hostVars, passVars, withdrawn>>

(* manager.install writes the tracked unit's file; a file of its own has   *)
(* no installer's marker.                                                  *)
InstallUnit == \E ok \in BOOLEAN :
  /\ step = "install"
  /\ file' = IF ok THEN file \cup {tracked} ELSE file
  /\ marked' = (marked /\ ~(ok /\ tracked = Legacy))
  /\ withdrawn' = (withdrawn /\ ~ok)
  /\ CliGoes(IF ok THEN "start" ELSE "aborted")
  /\ UNCHANGED <<enabled, running, tracked, passVars, steady>>

(* manager.start: enable --now.  Only migrate-service goes on from here.   *)
AfterStart(error) ==
  IF verb # "migrate" THEN "answered" ELSE IF error THEN "rollback" ELSE "health"

StartUnit == \E error, links, up \in BOOLEAN :
  /\ step = "start"
  /\ (~error) => links /\ up /\ tracked \in file
  /\ enabled' = IF links THEN enabled \cup {tracked} ELSE enabled
  /\ IF up /\ tracked \in file \ running THEN Up(tracked)
     ELSE UNCHANGED <<running, passVars>>
  /\ CliGoes(AfterStart(error))
  /\ UNCHANGED <<file, marked, tracked, steady, withdrawn>>

(* The honest is-active read that decides between old and new.             *)
CheckHealth == \E known \in BOOLEAN :
  /\ step = "health"
  /\ CliGoes(IF Confirmed(known, tracked \in running) THEN "stopLegacy" ELSE "rollback")
  /\ UNCHANGED <<hostVars, passVars, steady, withdrawn>>

(* manager.uninstall removes the file and neither stops nor disables.      *)
Uninstall(at, next) == \E ok \in BOOLEAN :
  /\ step = at
  /\ file' = IF ok THEN file \ {tracked} ELSE file
  /\ withdrawn' = (withdrawn \/ ok)
  /\ CliGoes(next)
  /\ UNCHANGED <<enabled, running, marked, tracked, passVars, steady>>

Rollback == Uninstall("rollback", "aborted")
UninstallUnit == Uninstall("uninstall", "answered")

(* New up, old down: three calls whose failures are noted and passed over. *)
StopLegacy == \E stop \in BOOLEAN :
  /\ step = "stopLegacy"
  /\ IF stop THEN Down(Legacy) ELSE UNCHANGED <<running, passVars>>
  /\ CliGoes("disableLegacy")
  /\ UNCHANGED <<file, enabled, marked, tracked, steady, withdrawn>>

DisableLegacy == \E links \in BOOLEAN :
  /\ step = "disableLegacy"
  /\ enabled' = IF links THEN enabled \ {Legacy} ELSE enabled
  /\ CliGoes("removeLegacy")
  /\ UNCHANGED <<file, running, marked, tracked, passVars, steady, withdrawn>>

RemoveLegacy == \E ok \in BOOLEAN :
  /\ step = "removeLegacy"
  /\ file' = IF ok THEN file \ {Legacy} ELSE file
  /\ CliGoes("migrated")
  /\ UNCHANGED <<enabled, running, marked, tracked, passVars, steady, withdrawn>>

StopUnit == \E stop \in BOOLEAN :
  /\ step = "stop"
  /\ IF stop THEN Down(tracked) ELSE UNCHANGED <<running, passVars>>
  /\ CliGoes(IF verb = "uninstall" THEN "uninstall" ELSE "answered")
  /\ UNCHANGED <<file, enabled, marked, tracked, steady, withdrawn>>

(* The unit goes down and may come up again.                               *)
RestartUnit ==
  /\ step = "restart"
  /\ \/ Up(tracked) /\ tracked \in file
     \/ Down(tracked)
     \/ UNCHANGED <<running, passVars>>
  /\ CliGoes("answered")
  /\ UNCHANGED <<file, enabled, marked, tracked, steady, withdrawn>>

KillCommand ==
  /\ ~Finished
  /\ CliGoes("idle")
  /\ UNCHANGED <<hostVars, passVars, steady, withdrawn>>

Next ==
  \/ \E d \in Daemons :
       \/ Boot(d) \/ Die(d)
       \/ CheckActive(d) \/ CheckMainPid(d) \/ CheckLegacy(d)
       \/ CheckEndpoint(d) \/ ReadMarker(d)
       \/ DisableNow(d) \/ Reinspect(d) \/ RemoveFile(d)
  \/ \E v \in Verbs : Command(v)
  \/ InstallUnit \/ StartUnit \/ CheckHealth \/ Rollback
  \/ StopLegacy \/ DisableLegacy \/ RemoveLegacy
  \/ StopUnit \/ RestartUnit \/ UninstallUnit \/ KillCommand

Spec == Init /\ [][Next]_vars

-----------------------------------------------------------------------------
TypeOK ==
  /\ file \subseteq Units
  /\ enabled \subseteq Units
  /\ running \subseteq Daemons
  /\ marked \in BOOLEAN
  /\ tracked \in Units
  /\ pass \in [Daemons -> PassAt]
  /\ late \subseteq Daemons
  /\ verb \in Verbs
  /\ step \in Steps
  /\ steady \in BOOLEAN
  /\ withdrawn \in BOOLEAN

(* A host with two distinct units never ends with neither: whatever the    *)
(* subcommands and the passes do to each other, a pass or a migration      *)
(* removes the old unit's file only with the managed one's in place.  Only *)
(* an uninstall, or the rollback of a migration, may leave none.           *)
AUnitRemains == tracked = Managed /\ ~withdrawn => file # {}

(* A migration that does not get as far as the healthy verdict costs the   *)
(* user nothing: the old daemon that ran when it began still runs, enabled *)
(* and with its file, even though the new daemon's own pass has been       *)
(* looking at that unit all the while.                                     *)
AbortCostsNothing ==
  /\ verb = "migrate"
  /\ step \in {"install", "start", "health", "rollback", "aborted"}
  /\ steady
  => Legacy \in file \cap enabled \cap running

(* The unattended pass never stops a running legacy daemon, unless it was  *)
(* started after the pass had seen its unit idle.                          *)
StopsOnlyLateStarters ==
  [][\A d \in Daemons :
       /\ pass[d] = "disable" /\ pass'[d] # "disable"
       /\ Legacy \in running \ running'
       => d \in late]_vars

(* The unattended pass leaves no enablement link without its file: it      *)
(* removes the file only once the unit is disabled, whatever reply its     *)
(* disable got.                                                            *)
DisabledBeforeRemoved ==
  [][\A d \in Daemons :
       /\ tracked = Managed
       /\ pass[d] = "remove" /\ pass'[d] # "remove"
       /\ Legacy \in file \ file'
       => Legacy \notin enabled]_vars

(* The unattended pass stops nothing but a late starter and removes a file *)
(* only once its links are gone (legacy-daemon-reconcile.ts).              *)
PassIsCareful == []TypeOK /\ StopsOnlyLateStarters /\ DisabledBeforeRemoved
=============================================================================
