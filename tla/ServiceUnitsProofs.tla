------------------------- MODULE ServiceUnitsProofs -------------------------
(***************************************************************************)
(* Proofs about ServiceUnits: what the model checker finds of its finitely *)
(* many states, as an argument.  Each property rests on one fact about a   *)
(* process that is between its look and its deed: the look's answer still  *)
(* holds, or the variable that records who spoiled it says so.             *)
(***************************************************************************)
EXTENDS ServiceUnits, TLAPS

-----------------------------------------------------------------------------
LEMMA InitTypeOK == Init => TypeOK
<1> SUFFICES ASSUME Init PROVE TypeOK
  OBVIOUS
<1>1. pass \in [Daemons -> PassAt] /\ verb \in Verbs /\ step \in Steps
  BY DEF Init, PassAt, Verbs, Steps
<1>2. QED
  BY <1>1 DEF Init, TypeOK, Daemons

LEMMA StepTypeOK == TypeOK /\ [Next]_vars => TypeOK'
<1> SUFFICES ASSUME TypeOK, [Next]_vars PROVE TypeOK'
  OBVIOUS
<1> USE DEF TypeOK, hostVars, passVars, cliVars, Units, Daemons
<1>1. ASSUME NEW d \in Daemons, Boot(d) \/ Die(d) PROVE TypeOK'
  BY <1>1 DEF Boot, Die, Up, Down, StartsPass, PassAt
<1>2. ASSUME NEW d \in Daemons,
             CheckActive(d) \/ CheckMainPid(d) \/ CheckLegacy(d) \/ CheckEndpoint(d)
               \/ ReadMarker(d) \/ Reinspect(d)
      PROVE  TypeOK'
  BY <1>2 DEF CheckActive, CheckMainPid, CheckLegacy, CheckEndpoint, ReadMarker, Reinspect,
              Guard, PassGoes, PassAt
<1>3. ASSUME NEW d \in Daemons, DisableNow(d) PROVE TypeOK'
  <2>1. PICK status \in {"zero", "nonzero", "null"}, links \in BOOLEAN, stop \in BOOLEAN :
          /\ enabled' = IF links THEN enabled \ {Legacy} ELSE enabled
          /\ running' = IF stop THEN running \ {Legacy} ELSE running
          /\ pass' = [pass EXCEPT ![d] = AfterDisable(status),
                                  ![Legacy] = IF stop THEN "none" ELSE @]
          /\ UNCHANGED <<file, marked, tracked, late, cliVars>>
    BY <1>3 DEF DisableNow
  <2>2. AfterDisable(status) \in PassAt
    BY DEF AfterDisable, AfterNullReply, PassAt
  <2>3. pass' \in [Daemons -> PassAt]
    BY <2>1, <2>2 DEF PassAt
  <2>4. QED
    BY <2>1, <2>3
<1>4. ASSUME NEW d \in Daemons, RemoveFile(d) PROVE TypeOK'
  BY <1>4 DEF RemoveFile, PassGoes, PassAt
<1>5. ASSUME NEW v \in Verbs, Command(v) PROVE TypeOK'
  <2>1. FirstStep(v) \in Steps
    BY DEF FirstStep, Verbs, Steps
  <2>2. QED
    BY <1>5, <2>1 DEF Command, Steps
<1>6. CASE InstallUnit
  BY <1>6 DEF InstallUnit, CliGoes, Steps
<1>7. CASE StartUnit
  BY <1>7 DEF StartUnit, AfterStart, Up, StartsPass, CliGoes, Steps, PassAt
<1>8. CASE CheckHealth \/ Rollback \/ UninstallUnit \/ KillCommand
  BY <1>8 DEF CheckHealth, Rollback, UninstallUnit, Uninstall, KillCommand, CliGoes, Steps
<1>9. CASE StopLegacy \/ StopUnit
  BY <1>9 DEF StopLegacy, StopUnit, Down, CliGoes, Steps, PassAt
<1>10. CASE DisableLegacy \/ RemoveLegacy
  BY <1>10 DEF DisableLegacy, RemoveLegacy, CliGoes, Steps
<1>11. CASE RestartUnit
  BY <1>11 DEF RestartUnit, Up, Down, StartsPass, CliGoes, Steps, PassAt
<1>12. CASE UNCHANGED vars
  BY <1>12 DEF vars
<1>13. QED
  BY <1>1, <1>2, <1>3, <1>4, <1>5, <1>6, <1>7, <1>8, <1>9, <1>10, <1>11, <1>12 DEF Next

(* ServiceUnits keeps its types.                                           *)
THEOREM UnitsTypeCorrect == Spec => []TypeOK
<1>1. Init => TypeOK
  BY InitTypeOK
<1>2. TypeOK /\ [Next]_vars => TypeOK'
  BY StepTypeOK
<1>3. QED
  BY <1>1, <1>2, PTL DEF Spec

-----------------------------------------------------------------------------
(* A pass past its look at the legacy unit, with that unit's daemon        *)
(* running, has been overtaken by a start.                                 *)
OvertakenIsLate ==
  \A d \in Daemons : pass[d] \in PastGuards /\ Legacy \in running => d \in late

LEMMA StepOvertakenIsLate ==
  TypeOK /\ OvertakenIsLate /\ [Next]_vars => OvertakenIsLate'
<1> SUFFICES ASSUME TypeOK, OvertakenIsLate, [Next]_vars PROVE OvertakenIsLate'
  OBVIOUS
<1> USE DEF TypeOK, OvertakenIsLate, hostVars, passVars, cliVars, PastGuards, Daemons, Units
<1>1. ASSUME NEW u \in Daemons, Up(u) PROVE OvertakenIsLate'
  BY <1>1 DEF Up, StartsPass, Legacy, Managed, ByHand
<1>2. ASSUME NEW u \in Daemons, Down(u) PROVE OvertakenIsLate'
  BY <1>2 DEF Down
<1>3. ASSUME UNCHANGED <<running, passVars>> PROVE OvertakenIsLate'
  BY <1>3
<1>4. ASSUME NEW d \in Daemons, Boot(d) \/ Die(d) PROVE OvertakenIsLate'
  BY <1>1, <1>2, <1>4 DEF Boot, Die
<1>5. ASSUME NEW d \in Daemons, CheckActive(d) \/ CheckMainPid(d) PROVE OvertakenIsLate'
  BY <1>5 DEF CheckActive, CheckMainPid, Guard, PassGoes
<1>6. ASSUME NEW d \in Daemons, CheckLegacy(d) PROVE OvertakenIsLate'
  BY <1>6 DEF CheckLegacy, Guard, PassGoes, Confirmed, MayRetireFrom
<1>7. ASSUME NEW d \in Daemons, CheckEndpoint(d) \/ ReadMarker(d) \/ Reinspect(d)
      PROVE  OvertakenIsLate'
  BY <1>7 DEF CheckEndpoint, ReadMarker, Reinspect, Guard, PassGoes
<1>8. ASSUME NEW d \in Daemons, DisableNow(d) PROVE OvertakenIsLate'
  BY <1>8 DEF DisableNow
<1>9. ASSUME NEW d \in Daemons, RemoveFile(d) PROVE OvertakenIsLate'
  BY <1>9 DEF RemoveFile, PassGoes
<1>10. CASE StartUnit
  BY <1>1, <1>3, <1>10 DEF StartUnit
<1>11. CASE RestartUnit
  BY <1>1, <1>2, <1>3, <1>11 DEF RestartUnit
<1>12. CASE StopLegacy \/ StopUnit
  BY <1>2, <1>3, <1>12 DEF StopLegacy, StopUnit
<1>13. CASE InstallUnit \/ CheckHealth \/ Rollback \/ DisableLegacy \/ RemoveLegacy
              \/ UninstallUnit \/ KillCommand \/ UNCHANGED vars
  BY <1>3, <1>13 DEF InstallUnit, CheckHealth, Rollback, DisableLegacy, RemoveLegacy,
                     UninstallUnit, Uninstall, KillCommand, vars
<1>14. ASSUME NEW v \in Verbs, Command(v) PROVE OvertakenIsLate'
  BY <1>3, <1>14 DEF Command
<1>15. QED
  BY <1>4, <1>5, <1>6, <1>7, <1>8, <1>9, <1>10, <1>11, <1>12, <1>13, <1>14 DEF Next

(* ServiceUnits never lets the unattended pass stop a running legacy       *)
(* daemon, but for one started after the pass had seen its unit idle.      *)
THEOREM PassStopsOnlyLateStarters == Spec => StopsOnlyLateStarters
<1>1. Init => TypeOK /\ OvertakenIsLate
  BY InitTypeOK DEF Init, OvertakenIsLate, PastGuards
<1>2. TypeOK /\ OvertakenIsLate /\ [Next]_vars => TypeOK' /\ OvertakenIsLate'
  BY StepTypeOK, StepOvertakenIsLate
<1>3. OvertakenIsLate
      => [\A d \in Daemons :
            /\ pass[d] = "disable" /\ pass'[d] # "disable"
            /\ Legacy \in running \ running'
            => d \in late]_vars
  BY DEF OvertakenIsLate, PastGuards
<1>4. QED
  BY <1>1, <1>2, <1>3, PTL DEF Spec, StopsOnlyLateStarters

-----------------------------------------------------------------------------
(* A pass about to remove the file has disabled the unit, and nobody       *)
(* enables it again: the subcommands enable the tracked unit only.         *)
RemovesDisabled ==
  tracked = Managed =>
    \A d \in Daemons : pass[d] = "remove" => Legacy \notin enabled

LEMMA StepRemovesDisabled ==
  TypeOK /\ RemovesDisabled /\ [Next]_vars => RemovesDisabled'
<1> SUFFICES ASSUME TypeOK, RemovesDisabled, [Next]_vars PROVE RemovesDisabled'
  OBVIOUS
<1> USE DEF TypeOK, RemovesDisabled, hostVars, passVars, cliVars, Daemons, Units
<1>1. ASSUME NEW u \in Daemons, Up(u) \/ Down(u) \/ UNCHANGED <<running, passVars>>,
             UNCHANGED tracked, enabled' \subseteq enabled \cup {tracked}
      PROVE  RemovesDisabled'
  BY <1>1 DEF Up, Down, StartsPass, Legacy, Managed
<1>2. ASSUME NEW d \in Daemons, Boot(d) \/ Die(d) PROVE RemovesDisabled'
  BY <1>1, <1>2 DEF Boot, Die
<1>3. ASSUME NEW d \in Daemons,
             CheckActive(d) \/ CheckMainPid(d) \/ CheckLegacy(d) \/ CheckEndpoint(d)
               \/ ReadMarker(d)
      PROVE  RemovesDisabled'
  BY <1>3 DEF CheckActive, CheckMainPid, CheckLegacy, CheckEndpoint, ReadMarker, Guard, PassGoes
<1>4. ASSUME NEW d \in Daemons, Reinspect(d) PROVE RemovesDisabled'
  BY <1>4 DEF Reinspect, Guard, PassGoes, Confirmed
<1>5. ASSUME NEW d \in Daemons, DisableNow(d) PROVE RemovesDisabled'
  BY <1>5 DEF DisableNow, AfterDisable, AfterNullReply
<1>6. ASSUME NEW d \in Daemons, RemoveFile(d) PROVE RemovesDisabled'
  BY <1>6 DEF RemoveFile, PassGoes
<1>7. tracked \in Daemons /\ Legacy \in Daemons
  OBVIOUS
<1>8. CASE StartUnit \/ RestartUnit
  BY <1>1, <1>7, <1>8 DEF StartUnit, RestartUnit
<1>9. CASE StopLegacy \/ StopUnit \/ DisableLegacy
  BY <1>1, <1>7, <1>9 DEF StopLegacy, StopUnit, DisableLegacy
<1>10. CASE InstallUnit \/ CheckHealth \/ Rollback \/ RemoveLegacy
              \/ UninstallUnit \/ KillCommand \/ UNCHANGED vars
  BY <1>10 DEF InstallUnit, CheckHealth, Rollback, RemoveLegacy,
               UninstallUnit, Uninstall, KillCommand, vars
<1>11. ASSUME NEW v \in Verbs, Command(v) PROVE RemovesDisabled'
  BY <1>11 DEF Command
<1>12. QED
  BY <1>2, <1>3, <1>4, <1>5, <1>6, <1>8, <1>9, <1>10, <1>11 DEF Next

(* ServiceUnits never lets the unattended pass remove the file of a unit   *)
(* that is still enabled.                                                  *)
THEOREM PassRemovesOnlyDisabled == Spec => DisabledBeforeRemoved
<1>1. Init => TypeOK /\ RemovesDisabled
  BY InitTypeOK DEF Init, RemovesDisabled
<1>2. TypeOK /\ RemovesDisabled /\ [Next]_vars => TypeOK' /\ RemovesDisabled'
  BY StepTypeOK, StepRemovesDisabled
<1>3. RemovesDisabled
      => [\A d \in Daemons :
            /\ tracked = Managed
            /\ pass[d] = "remove" /\ pass'[d] # "remove"
            /\ Legacy \in file \ file'
            => Legacy \notin enabled]_vars
  BY DEF RemovesDisabled
<1>4. QED
  BY <1>1, <1>2, <1>3, PTL DEF Spec, DisabledBeforeRemoved

-----------------------------------------------------------------------------
(* Unless it was withdrawn, the managed unit is in place under its running *)
(* daemon, behind every pass that has confirmed it, and behind a migration *)
(* that retires the old one.                                               *)
Confirming == {"mainpid", "legacy"} \cup PastGuards
Retiring == {"stopLegacy", "disableLegacy", "removeLegacy"}

ManagedInPlace ==
  tracked = Managed /\ ~withdrawn =>
    /\ file # {}
    /\ Managed \in running => Managed \in file
    /\ \A d \in Daemons : pass[d] \in Confirming => Managed \in file
    /\ step \in Retiring => Managed \in file

LEMMA StepManagedInPlace ==
  TypeOK /\ ManagedInPlace /\ [Next]_vars => ManagedInPlace'
<1> SUFFICES ASSUME TypeOK, ManagedInPlace, [Next]_vars PROVE ManagedInPlace'
  OBVIOUS
<1> USE DEF TypeOK, ManagedInPlace, hostVars, passVars, cliVars, Daemons, Units,
            Confirming, Retiring, PastGuards
<1>1. ASSUME NEW u \in Daemons,
             (Up(u) /\ (u \in Units => u \in file)) \/ Down(u) \/ UNCHANGED <<running, passVars>>,
             UNCHANGED <<file, tracked, withdrawn>>, step' \in Retiring => step \in Retiring
      PROVE  ManagedInPlace'
  BY <1>1 DEF Up, Down, StartsPass, Legacy, Managed, ByHand
<1>2. ASSUME NEW d \in Daemons, Boot(d) \/ Die(d) PROVE ManagedInPlace'
  BY <1>1, <1>2 DEF Boot, Die
<1>3. ASSUME NEW d \in Daemons, CheckActive(d) PROVE ManagedInPlace'
  BY <1>3 DEF CheckActive, Guard, PassGoes, Confirmed
<1>4. ASSUME NEW d \in Daemons,
             CheckMainPid(d) \/ CheckLegacy(d) \/ CheckEndpoint(d) \/ ReadMarker(d) \/ Reinspect(d)
      PROVE  ManagedInPlace'
  BY <1>4 DEF CheckMainPid, CheckLegacy, CheckEndpoint, ReadMarker, Reinspect, Guard, PassGoes
<1>5. ASSUME NEW d \in Daemons, DisableNow(d) PROVE ManagedInPlace'
  BY <1>5 DEF DisableNow, AfterDisable, AfterNullReply
<1>6. ASSUME NEW d \in Daemons, RemoveFile(d) PROVE ManagedInPlace'
  BY <1>6 DEF RemoveFile, PassGoes, Legacy, Managed
<1>7. tracked \in Daemons /\ Legacy \in Daemons
  OBVIOUS
<1>8. CASE StartUnit \/ RestartUnit
  BY <1>1, <1>7, <1>8 DEF StartUnit, RestartUnit, CliGoes, AfterStart
<1>9. CASE StopLegacy \/ StopUnit
  BY <1>1, <1>7, <1>9 DEF StopLegacy, StopUnit, CliGoes
<1>10. CASE CheckHealth
  BY <1>10 DEF CheckHealth, CliGoes, Confirmed
<1>11. CASE InstallUnit
  BY <1>11 DEF InstallUnit, CliGoes
<1>12. CASE Rollback \/ UninstallUnit
  BY <1>12 DEF Rollback, UninstallUnit, Uninstall, CliGoes
<1>13. CASE DisableLegacy \/ RemoveLegacy
  BY <1>13 DEF DisableLegacy, RemoveLegacy, CliGoes, Legacy, Managed
<1>14. ASSUME NEW v \in Verbs, Command(v) PROVE ManagedInPlace'
  BY <1>14 DEF Command, FirstStep, Verbs
<1>15. CASE KillCommand \/ UNCHANGED vars
  BY <1>15 DEF KillCommand, CliGoes, vars
<1>16. QED
  BY <1>2, <1>3, <1>4, <1>5, <1>6, <1>8, <1>9, <1>10, <1>11, <1>12, <1>13, <1>14, <1>15 DEF Next

(* ServiceUnits: a host with two distinct units is never left with neither *)
(* by the passes and a migration's retirement of the old one.              *)
THEOREM AUnitAlwaysRemains == Spec => []AUnitRemains
<1>1. Init => TypeOK /\ ManagedInPlace
  BY InitTypeOK DEF Init, ManagedInPlace, Confirming, Retiring, PastGuards, Managed, ByHand
<1>2. TypeOK /\ ManagedInPlace /\ [Next]_vars => TypeOK' /\ ManagedInPlace'
  BY StepTypeOK, StepManagedInPlace
<1>3. ManagedInPlace => AUnitRemains
  BY DEF ManagedInPlace, AUnitRemains
<1>4. QED
  BY <1>1, <1>2, <1>3, PTL DEF Spec

-----------------------------------------------------------------------------
(* Before its verdict a migration has another unit in hand than the legacy *)
(* one, and while the old daemon stays up no pass gets past its guards.    *)
BeforeVerdict == {"install", "start", "health", "rollback", "aborted"}

MigratesAnother ==
  verb = "migrate" /\ step \notin {"idle", "answered"} => tracked # Legacy

OldOneHolds ==
  verb = "migrate" /\ step \in BeforeVerdict /\ steady =>
    /\ Legacy \in file \cap enabled \cap running
    /\ \A d \in Daemons : pass[d] \notin PastGuards

LEMMA StepMigratesAnother ==
  TypeOK /\ MigratesAnother /\ [Next]_vars => MigratesAnother'
<1> SUFFICES ASSUME TypeOK, MigratesAnother, [Next]_vars PROVE MigratesAnother'
  OBVIOUS
<1> USE DEF TypeOK, MigratesAnother, hostVars, passVars, cliVars
<1>1. ASSUME UNCHANGED <<verb, step, tracked>> PROVE MigratesAnother'
  BY <1>1
<1>2. ASSUME NEW d \in Daemons,
             \/ Boot(d) \/ Die(d) \/ CheckActive(d) \/ CheckMainPid(d) \/ CheckLegacy(d)
             \/ CheckEndpoint(d) \/ ReadMarker(d) \/ DisableNow(d) \/ Reinspect(d) \/ RemoveFile(d)
      PROVE  MigratesAnother'
  BY <1>1, <1>2 DEF Boot, Die, CheckActive, CheckMainPid, CheckLegacy, CheckEndpoint, ReadMarker,
                    DisableNow, Reinspect, RemoveFile, Guard
<1>3. ASSUME NEW v \in Verbs, Command(v) PROVE MigratesAnother'
  BY <1>3 DEF Command, Proceeds, MayMigrate, Verbs
<1>4. ASSUME NEW next, CliGoes(next), UNCHANGED tracked, step \notin {"idle", "answered"}
      PROVE  MigratesAnother'
  BY <1>4 DEF CliGoes
<1>5. CASE InstallUnit \/ StartUnit \/ CheckHealth \/ Rollback \/ StopLegacy \/ DisableLegacy
             \/ RemoveLegacy \/ StopUnit \/ RestartUnit \/ UninstallUnit
  BY <1>4, <1>5 DEF InstallUnit, StartUnit, CheckHealth, Rollback, StopLegacy, DisableLegacy,
                    RemoveLegacy, StopUnit, RestartUnit, UninstallUnit, Uninstall
<1>6. CASE KillCommand \/ UNCHANGED vars
  BY <1>6 DEF KillCommand, CliGoes, vars
<1>7. QED
  BY <1>2, <1>3, <1>5, <1>6 DEF Next

LEMMA StepOldOneHolds ==
  TypeOK /\ MigratesAnother /\ OldOneHolds /\ [Next]_vars => OldOneHolds'
<1> SUFFICES ASSUME TypeOK, MigratesAnother, OldOneHolds, [Next]_vars PROVE OldOneHolds'
  OBVIOUS
<1> USE DEF TypeOK, OldOneHolds, BeforeVerdict, hostVars, passVars, cliVars, Daemons, Units, PastGuards
<1>1. ASSUME NEW u \in Daemons, Up(u) \/ (u # Legacy /\ Down(u)) \/ UNCHANGED <<running, passVars>>,
             Legacy \in file => Legacy \in file', enabled \subseteq enabled',
             UNCHANGED <<verb, steady>>, step' \in BeforeVerdict => step \in BeforeVerdict
      PROVE  OldOneHolds'
  BY <1>1 DEF Up, Down, StartsPass
<1>2. ASSUME NEW d \in Daemons, Boot(d) \/ Die(d) PROVE OldOneHolds'
  <2>1. CASE Boot(d)
    BY <1>1, <2>1 DEF Boot
  <2>2. CASE Die(d)
    BY <2>2 DEF Die, Down
  <2>3. QED
    BY <1>2, <2>1, <2>2
<1>3. ASSUME NEW d \in Daemons, CheckActive(d) \/ CheckMainPid(d) PROVE OldOneHolds'
  BY <1>3 DEF CheckActive, CheckMainPid, Guard, PassGoes
<1>4. ASSUME NEW d \in Daemons, CheckLegacy(d) PROVE OldOneHolds'
  BY <1>4 DEF CheckLegacy, Guard, PassGoes, Confirmed, MayRetireFrom
<1>5. ASSUME NEW d \in Daemons,
             CheckEndpoint(d) \/ ReadMarker(d) \/ Reinspect(d) \/ DisableNow(d) \/ RemoveFile(d)
      PROVE  OldOneHolds'
  BY <1>5 DEF CheckEndpoint, ReadMarker, Reinspect, DisableNow, RemoveFile, Guard
<1>6. ASSUME NEW v \in Verbs, Command(v) PROVE OldOneHolds'
  BY <1>6 DEF Command
<1>7. CASE InstallUnit \/ CheckHealth
  BY <1>7 DEF InstallUnit, CheckHealth, CliGoes
<1>8. CASE StartUnit
  BY <1>1, <1>8 DEF StartUnit, CliGoes
<1>9. CASE Rollback
  BY <1>9 DEF Rollback, Uninstall, CliGoes, MigratesAnother
<1>10. CASE StopLegacy \/ DisableLegacy \/ RemoveLegacy \/ StopUnit \/ RestartUnit \/ UninstallUnit
  BY <1>10 DEF StopLegacy, DisableLegacy, RemoveLegacy, StopUnit, RestartUnit, UninstallUnit,
               Uninstall, CliGoes
<1>11. CASE KillCommand \/ UNCHANGED vars
  BY <1>11 DEF KillCommand, CliGoes, vars
<1>12. QED
  BY <1>2, <1>3, <1>4, <1>5, <1>6, <1>7, <1>8, <1>9, <1>10, <1>11 DEF Next

(* ServiceUnits: a migration that stops short of its verdict leaves an old *)
(* daemon that ran throughout running, enabled and with its file.          *)
THEOREM AbortedMigrationCostsNothing == Spec => []AbortCostsNothing
<1> DEFINE IInv == TypeOK /\ MigratesAnother /\ OldOneHolds
<1>1. Init => IInv
  BY InitTypeOK DEF Init, MigratesAnother, OldOneHolds
<1>2. IInv /\ [Next]_vars => IInv'
  BY StepTypeOK, StepMigratesAnother, StepOldOneHolds
<1>3. IInv => AbortCostsNothing
  BY DEF OldOneHolds, BeforeVerdict, AbortCostsNothing
<1>4. QED
  BY <1>1, <1>2, <1>3, PTL DEF Spec

(* The unattended pass stops nothing but a late starter and removes a file *)
(* only once its links are gone (legacy-daemon-reconcile.ts).              *)
THEOREM PassStaysCareful == Spec => PassIsCareful
BY UnitsTypeCorrect, PassStopsOnlyLateStarters, PassRemovesOnlyDisabled DEF PassIsCareful
=============================================================================
