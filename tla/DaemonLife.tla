----------------------------- MODULE DaemonLife -----------------------------
(***************************************************************************)
(* One run of the daemon's program, from its command line to its exit:     *)
(* main in daemon/cli.ts.  A command line that asks for anything else is   *)
(* answered and the process exits; one that asks to serve composes the     *)
(* runtime graph (runtime/services.ts), starts it in stages, and ends by a *)
(* signal, whose shutdown has 15 seconds.                                  *)
(*                                                                         *)
(* The boot is one async function and the shutdown another: between        *)
(* awaits they interleave.  What the SDK's servers and group layer do      *)
(* inside start and stop is external: a start or a stop settles, fails or  *)
(* never answers.                                                          *)
(***************************************************************************)
EXTENDS CommandLine

CONSTANTS Tokens,      \* what a command line is made of
          MaxTokens    \* bound: tokens on one command line

VARIABLES argv,       \* the command line
          fits,       \* the run's settings overrides are accepted
          stage,      \* where main is
          owners,     \* the disposal scope's owners, in the order they were added
          released,   \* those whose release ran, in the order they ran
          seam,       \* a browser-checkout seam is held
          servers,    \* the control-plane server and the HTTP listener
          shutdown,   \* where the shutdown is
          exit        \* Running, an exit code, or Killed by a signal

vars == <<argv, fits, stage, owners, released, seam, servers, shutdown, exit>>

Servers == {"daemon", "listener"}
Stages == {"dispatch", "compose", "prepare", "cluster", "servers", "tasks", "tail", "banner", "serving"}
Codes == 0..4
Running == 5
Killed == 6

CommandLines == UNION {[1..n -> Tokens] : n \in 0..MaxTokens}

Init ==
  /\ argv \in CommandLines /\ fits \in BOOLEAN
  /\ stage = "dispatch"
  /\ owners = <<>> /\ released = <<>> /\ seam = FALSE
  /\ servers = [s \in Servers |-> "off"]
  /\ shutdown = "none" /\ exit = Running

-----------------------------------------------------------------------------
(* Boot.                                                                   *)

(* A command line that does not ask to serve is answered and the process   *)
(* exits, before any graph exists.                                         *)
Dispatch ==
  /\ stage = "dispatch"
  /\ LET verdict == Verdict(argv, fits)
     IN IF verdict.to = "serve"
        THEN stage' = "compose" /\ UNCHANGED exit
        ELSE exit' \in verdict.code /\ UNCHANGED stage
  /\ UNCHANGED <<argv, fits, owners, released, seam, servers, shutdown>>

(* The owners the graph registers with its disposal scope, in order: the   *)
(* browser's sessions when a browser could be built, the seam's holder     *)
(* after them, and the product's handler surfaces last of all.             *)
AllOwners(browser) ==
  <<"wrfc fix engine">> \o (IF browser THEN <<"browser sessions">> ELSE <<>>)
  \o <<"browser checkout seam holder", "config event bridge", "graph pollers",
       "durability housekeeping", "device housekeeping", "wake-word housekeeping",
       "daemon handler surfaces">>
OwnersHandlersForgotten(browser) ==  \* bug: the handler surfaces are left to each shutdown path
  SelectSeq(AllOwners(browser), LAMBDA owner : owner # "daemon handler surfaces")
Owners(browser) == AllOwners(browser)

(* createRuntimeServices: synchronous.                                     *)
Compose ==
  /\ stage = "compose" /\ stage' = "prepare"
  /\ \E browser \in BOOLEAN : owners' = Owners(browser) /\ seam' = browser
  /\ UNCHANGED <<argv, fits, released, servers, shutdown, exit>>

(* Persisted providers, the two servers' construction, the tokens.         *)
Prepare ==
  /\ stage = "prepare" /\ stage' = "cluster"
  /\ UNCHANGED <<argv, fits, owners, released, seam, servers, shutdown, exit>>

(* The group and the coordinator are up; both servers' starts are called,  *)
(* the listener's only when it is configured.                              *)
ClusterStarted ==
  /\ stage = "cluster" /\ stage' = "servers"
  /\ \E listening \in BOOLEAN :
       servers' = [s \in Servers |-> IF s = "daemon" \/ listening THEN "starting" ELSE "off"]
  /\ UNCHANGED <<argv, fits, owners, released, seam, shutdown, exit>>

(* A server's start answers; boot waits for all of them.                   *)
ServerUp(s) ==
  /\ stage = "servers" /\ servers[s] \in {"starting", "stopped"}
  /\ servers' = [servers EXCEPT ![s] = "up"]
  /\ UNCHANGED <<argv, fits, stage, owners, released, seam, shutdown, exit>>
ServersUp ==
  /\ stage = "servers" /\ \A s \in Servers : servers[s] # "starting"
  /\ stage' = "tasks"
  /\ UNCHANGED <<argv, fits, owners, released, seam, servers, shutdown, exit>>

(* runDaemonBootTasks; from its end SIGINT and SIGTERM are handled.        *)
BootTasksDone ==
  /\ stage = "tasks" /\ stage' = "tail"
  /\ UNCHANGED <<argv, fits, owners, released, seam, servers, shutdown, exit>>

(* The legacy unit's reconcile never fails the boot.                       *)
Reconciled ==
  /\ stage = "tail" /\ stage' = "banner"
  /\ UNCHANGED <<argv, fits, owners, released, seam, servers, shutdown, exit>>
Banner ==
  /\ stage = "banner" /\ stage' = "serving"
  /\ UNCHANGED <<argv, fits, owners, released, seam, servers, shutdown, exit>>

(* Whatever a stage throws ends the process, a shutdown in progress too.   *)
MayThrow == {"compose", "prepare", "cluster", "servers", "tasks", "banner"}
BootFails ==
  /\ stage \in MayThrow
  /\ exit' = 1
  /\ UNCHANGED <<argv, fits, stage, owners, released, seam, servers, shutdown>>

-----------------------------------------------------------------------------
(* Shutdown.                                                               *)

(* The stages at which the handlers are installed.                         *)
Handling == {"tail", "banner", "serving"}

(* A second signal during a shutdown is ignored.                           *)
Signal ==
  /\ stage # "dispatch" /\ shutdown = "none"
  /\ IF stage \in Handling
     THEN shutdown' = "stopping" /\ UNCHANGED exit
     ELSE exit' = Killed /\ UNCHANGED shutdown
  /\ UNCHANGED <<argv, fits, stage, owners, released, seam, servers>>

(* listener.stop and daemon.stop settle, in either order.                  *)
StopSettles(s) ==
  /\ shutdown = "stopping" /\ servers[s] # "stopped"
  /\ servers' = [servers EXCEPT ![s] = "stopped"]
  /\ UNCHANGED <<argv, fits, stage, owners, released, seam, shutdown, exit>>

(* dispose unwinds the scope newest first; the seam's owner forgets it.    *)
Dispose ==
  /\ shutdown = "stopping" /\ \A s \in Servers : servers[s] = "stopped"
  /\ released' = Reverse(owners)
  /\ seam' = (seam /\ ~\E i \in DOMAIN owners : owners[i] = "browser checkout seam holder")
  /\ shutdown' = "released"
  /\ UNCHANGED <<argv, fits, stage, owners, servers, exit>>

ExitClean ==
  /\ shutdown = "released"
  /\ exit' = 0
  /\ UNCHANGED <<argv, fits, stage, owners, released, seam, servers, shutdown>>

(* The deadline wins the race when the stops have not settled.             *)
Deadline ==
  /\ shutdown = "stopping"
  /\ exit' = 1
  /\ UNCHANGED <<argv, fits, stage, owners, released, seam, servers, shutdown>>

-----------------------------------------------------------------------------
Ends == exit = Running /\ (ExitClean \/ Deadline)
Next ==
  /\ exit = Running
  /\ \/ Dispatch \/ Compose \/ Prepare \/ ClusterStarted \/ ServersUp \/ BootTasksDone
     \/ Reconciled \/ Banner \/ BootFails \/ Signal \/ Dispose \/ ExitClean \/ Deadline
     \/ \E s \in Servers : ServerUp(s) \/ StopSettles(s)

(* A timer fires and what is ready runs; a stop need not settle.           *)
Fairness == WF_vars(Ends)
Spec == Init /\ [][Next]_vars /\ Fairness

-----------------------------------------------------------------------------
(* Type invariant.                                                         *)
TypeOK ==
  /\ argv \in Seq(Tokens) /\ Len(argv) <= MaxTokens /\ fits \in BOOLEAN
  /\ stage \in Stages
  /\ owners \in {<<>>, Owners(TRUE), Owners(FALSE)} /\ released \in {<<>>, Reverse(owners)}
  /\ seam \in BOOLEAN
  /\ servers \in [Servers -> {"off", "starting", "up", "stopped"}]
  /\ shutdown \in {"none", "stopping", "released"}
  /\ exit \in {Running, Killed} \cup Codes

(* A graph is composed only for a command line that asks to serve: a       *)
(* misspelled or misplaced command never starts a daemon.                  *)
OnlyServeServes == stage # "dispatch" => AsksToServe(argv)

(* A shutdown that reports success stopped both servers, then released     *)
(* every owner, newest first: the product's handler surfaces before the    *)
(* pollers, the seam before the browser it reaches into; and nothing comes *)
(* up once it has released.                                                *)
ShutdownIsTotal ==
  shutdown = "released" =>
    /\ \A s \in Servers : servers[s] = "stopped"
    /\ released # <<>> /\ released[1] = "daemon handler surfaces"
    /\ released = Reverse(owners)
    /\ ~seam

(* A daemon told to end ends, whatever its servers' stops do.              *)
Waits == shutdown # "none" /\ exit = Running
SignalledDaemonEnds == Waits ~> ~Waits
=============================================================================
