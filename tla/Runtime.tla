------------------------------ MODULE Runtime -------------------------------
(***************************************************************************)
(* The command line, the boot and the runtime's own compositions, each its *)
(* own module, composed for one run: a behaviour is one of one family,     *)
(* `focus', and leaves the variables of the others as they were            *)
(* initialised.                                                            *)
(***************************************************************************)
EXTENDS Naturals, Sequences

CONSTANTS
  focusses,                     \* the families that run
  Tokens, MaxTokens,            \* of DaemonLife
  Questions,                    \* of DaemonCommands
  Channels, Edits, MaxCommands, \* of OperatorCommands
  Gates, Asks,                  \* of HostedTrust
  Calls,                        \* of WorkspaceCheckpoints
  MaxMessages,                  \* of ConversationRewind
  Starts                        \* of ClusterStart

VARIABLES
  focus,
  lArgv, lFits, lStage, lOwners, lReleased, lSeam, lServers, lShutdown, lExit,
  cAsk, cHttp, cWs, cCalls, cDid, cFrames, cLocal, cExit,
  oSettings, oBundles, oShell, oPlan, oBefore, oRan, oSend, oRead, oDelivered,
  tFile, tLevel, tLoaded, tAsk, tSaid, tInherited,
  wRegistered, wGuarded, wManager, wCall,
  rLive, rConv, rSaid, rAnchors, rSnapshots, rOverwritten,
  gCall, gStarted, gGroup, gElection, gMaster, gRoster, gReturned, gLone

(* The constants of a family are those of the same name.                   *)
Life == INSTANCE DaemonLife WITH
  argv <- lArgv, fits <- lFits, stage <- lStage, owners <- lOwners, released <- lReleased,
  seam <- lSeam, servers <- lServers, shutdown <- lShutdown, exit <- lExit
Commands == INSTANCE DaemonCommands WITH
  ask <- cAsk, http <- cHttp, ws <- cWs, calls <- cCalls, did <- cDid, frames <- cFrames,
  local <- cLocal, exit <- cExit
Operator == INSTANCE OperatorCommands WITH
  settings <- oSettings, bundles <- oBundles, shell <- oShell, plan <- oPlan, before <- oBefore,
  ran <- oRan, send <- oSend, read <- oRead, delivered <- oDelivered
Trust == INSTANCE HostedTrust WITH
  file <- tFile, level <- tLevel, loaded <- tLoaded, ask <- tAsk, said <- tSaid,
  inherited <- tInherited
Files == INSTANCE WorkspaceCheckpoints WITH
  registered <- wRegistered, guarded <- wGuarded, manager <- wManager, call <- wCall
Talk == INSTANCE ConversationRewind WITH
  live <- rLive, conv <- rConv, said <- rSaid, anchors <- rAnchors, snapshots <- rSnapshots,
  overwritten <- rOverwritten
Cluster == INSTANCE ClusterStart WITH
  call <- gCall, started <- gStarted, group <- gGroup, election <- gElection, master <- gMaster,
  roster <- gRoster, returned <- gReturned, lone <- gLone

(* A bound is a number, a process holds a trust manager, and an operator   *)
(* edits keys there are.                                                   *)
ASSUME RuntimeAssumption ==
  /\ {MaxTokens, MaxCommands, MaxMessages} \subseteq Nat
  /\ Gates # {} /\ Edits \subseteq Operator!Keys

lVars == <<lArgv, lFits, lStage, lOwners, lReleased, lSeam, lServers, lShutdown, lExit>>
cVars == <<cAsk, cHttp, cWs, cCalls, cDid, cFrames, cLocal, cExit>>
oVars == <<oSettings, oBundles, oShell, oPlan, oBefore, oRan, oSend, oRead, oDelivered>>
tVars == <<tFile, tLevel, tLoaded, tAsk, tSaid, tInherited>>
wVars == <<wRegistered, wGuarded, wManager, wCall>>
rVars == <<rLive, rConv, rSaid, rAnchors, rSnapshots, rOverwritten>>
gVars == <<gCall, gStarted, gGroup, gElection, gMaster, gRoster, gReturned, gLone>>
vars == <<focus, lVars, cVars, oVars, tVars, wVars, rVars, gVars>>

(* A family out of focus starts, and stays, in one of its initial states.  *)
Init ==
  /\ focus \in focusses
  /\ Life!Init /\ (focus = "life" \/ (lArgv = <<>> /\ lFits))
  /\ Commands!Init
  /\ focus = "commands" \/ cAsk = [command |-> "status", remote |-> FALSE, wellFormed |-> TRUE, yes |-> FALSE]
  /\ Operator!Init
  /\ focus = "operator" \/ oSettings = [key \in DOMAIN oSettings |-> Operator!Shipped(key)]
  /\ Trust!Init /\ (focus = "trust" \/ tFile = "none")
  /\ Files!Init /\ Talk!Init /\ Cluster!Init

Next ==
  /\ UNCHANGED focus
  /\ \/ focus = "life" /\ Life!Next
        /\ UNCHANGED <<cVars, oVars, tVars, wVars, rVars, gVars>>
     \/ focus = "commands" /\ Commands!Next
        /\ UNCHANGED <<lVars, oVars, tVars, wVars, rVars, gVars>>
     \/ focus = "operator" /\ Operator!Next
        /\ UNCHANGED <<lVars, cVars, tVars, wVars, rVars, gVars>>
     \/ focus = "trust" /\ Trust!Next
        /\ UNCHANGED <<lVars, cVars, oVars, wVars, rVars, gVars>>
     \/ focus = "files" /\ Files!Next
        /\ UNCHANGED <<lVars, cVars, oVars, tVars, rVars, gVars>>
     \/ focus = "talk" /\ Talk!Next
        /\ UNCHANGED <<lVars, cVars, oVars, tVars, wVars, gVars>>
     \/ focus = "cluster" /\ Cluster!Next
        /\ UNCHANGED <<lVars, cVars, oVars, tVars, wVars, rVars>>

(* Each family's own fairness, while it is the one that runs.              *)
Fairness ==
  /\ WF_lVars(focus = "life" /\ Life!Ends)
  /\ WF_cVars(focus = "commands" /\ Commands!Ticks)
  /\ \A a \in Asks : WF_tVars(focus = "trust" /\ Trust!Expires(a))

Spec == Init /\ [][Next]_vars /\ Fairness

-----------------------------------------------------------------------------
(* The type invariant of each family.                                      *)
TypesOK ==
  /\ Life!TypeOK /\ Commands!TypeOK /\ Operator!TypeOK /\ Trust!TypeOK
  /\ Files!TypeOK /\ Talk!TypeOK /\ Cluster!TypeOK

(* A daemon starts only where the command line asks for one                *)
(* (daemon/cli.ts, cli/command-catalog.ts).                                *)
OnlyServeServes == Life!OnlyServeServes

(* A shutdown that reports success has stopped and released everything, in *)
(* order (daemon/cli.ts, runtime/disposal-wiring.ts).                      *)
ShutdownIsTotal == Life!ShutdownIsTotal

(* What a command reports, by exit code or on a line, is what happened and *)
(* what was answered (daemon/status-command.ts, pair-command.ts,           *)
(* sessions-command.ts, cluster/).                                         *)
CommandsTellTheTruth == Commands!ExitSaysWhatWasDone /\ Commands!ReportedIsAnswered

(* The web UI is enabled only over a bundle, the network posture last; a   *)
(* message reaches the channel it was meant for (daemon/webui-command.ts,  *)
(* daemon/send).                                                           *)
SettingsAndSends == Operator!EnableIsOrdered /\ Operator!SentWhereMeant

(* The decision whether a workspace is trusted is somebody's, and stands;  *)
(* an automatic checkpoint is taken only in a workspace on record          *)
(* (runtime/trust, runtime/workspace-checkpointing.ts).                    *)
WorkspaceDecisionsStand ==
  [](Trust!SomebodyDecided /\ Trust!NeverAskedAgain) /\ Files!TakenOnlyIfEligible

(* No rewind loses a message that no snapshot holds                        *)
(* (runtime/conversation-rewind-port.ts).                                  *)
RewindsLoseNothing == Talk!RewindsLoseNothing

(* A first start elects over the group it has loaded                       *)
(* (runtime/cluster-group-composition.ts).                                 *)
ElectionOverGroup == Cluster!ElectionOverGroup

(* Nothing waits for good: a signalled daemon ends, a command over the     *)
(* websocket exits and an open trust question closes, whatever the other   *)
(* side does.                                                              *)
Waits(a) ==
  \/ focus = "life" /\ Life!Waits
  \/ focus = "commands" /\ Commands!Waits
  \/ focus = "trust" /\ Trust!Waits(a)
EveryRunEnds == \A a \in Asks : Waits(a) ~> ~Waits(a)
=============================================================================
