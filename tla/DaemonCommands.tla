--------------------------- MODULE DaemonCommands ---------------------------
(***************************************************************************)
(* One command that asks a running daemon something and exits: status,     *)
(* update, sessions list, sessions kill and pair                           *)
(* (daemon/status-command.ts and its kin), over HTTP routes read in their  *)
(* stated envelope (cluster/raw-reply-route.ts) and over one websocket     *)
(* call (cluster/daemon-ws-call.ts) to the daemon, which acts, answers,    *)
(* drops the connection or stays silent.                                   *)
(*                                                                         *)
(* Taken from outside the repository: how the shared reader                *)
(* (callDaemonVerb) tells data from a refusal, and the daemon itself.      *)
(***************************************************************************)
EXTENDS Naturals

CONSTANTS Questions  \* which of status's HTTP questions, after its first, are asked

VARIABLES ask,     \* the command line
          http,    \* each HTTP question: not asked, asked, lost or its reply
          ws,      \* where the websocket call is
          calls,   \* call frames the daemon has received and not acted on
          did,     \* how often the daemon did what was asked
          frames,  \* its answers to this call, on the wire
          local,   \* what the report says of this machine's own files
          exit     \* Running or the exit code

vars == <<ask, http, ws, calls, did, frames, local, exit>>

Routes == {"identity"} \cup Questions
(* A reply has a status, 401 for the three the shared reader refuses on,   *)
(* and a body: the payload itself, the wrapped { ok, data } or             *)
(* { ok: false, error }, or nothing that parses.                           *)
Replies == [status : {200, 401, 502}, body : {"payload", "wrapped", "refusal", "junk"}]
State(what) == [status |-> 0, body |-> what]
Unasked == State("unasked")
Asked == State("asked")
Lost == State("lost")
Outcomes == {"data", "refused"}
Commands == {"status", "update", "list", "kill", "pair"}
Markers == {"none", "torn", "running", "from the future", "clean"}
Running == 3

(* Type invariant.                                                         *)
TypeOK ==
  /\ ask \in [command : Commands, remote : BOOLEAN, wellFormed : BOOLEAN, yes : BOOLEAN]
  /\ http \in [Routes -> Replies \cup {Unasked, Asked, Lost}]
  /\ ws \in {"unasked", "connecting", "authing", "waiting"} \cup Outcomes
  /\ calls \in 0..2 /\ did \in 0..2
  /\ frames \subseteq BOOLEAN
  /\ local \in {"nothing", "unavailable", "uptime", "clean shutdown", "not recorded"}
  /\ exit \in {0, 1, 2, Running}

AskIs(what) == ask.command \in what

Init ==
  /\ ask \in [command : Commands, remote : BOOLEAN, wellFormed : BOOLEAN, yes : BOOLEAN]
  /\ ask.wellFormed \/ AskIs({"list", "kill"})
  /\ ask.yes => AskIs({"pair"})
  /\ http = [r \in Routes |-> Unasked]
  /\ ws = "unasked" /\ calls = 0 /\ did = 0 /\ frames = {}
  /\ local = "nothing" /\ exit = Running

Exits(code) == exit' = code /\ UNCHANGED <<ask, http, ws, calls, did, frames, local>>
Started == ws # "unasked" \/ http["identity"] # Unasked

-----------------------------------------------------------------------------
(* Before anything is sent.                                                *)

(* sessions: no subcommand, an unknown one, no id, an argument too many.   *)
UsageRefused ==
  /\ ~Started /\ AskIs({"list", "kill"}) /\ ~ask.wellFormed
  /\ Exits(2)

(* pair on this machine reprints the link of the token it finds.           *)
Reprints ==
  /\ ~Started /\ AskIs({"pair"}) /\ ~ask.remote
  /\ \E code \in {0, 1} : Exits(code)

Resolvable == ~Started /\ (AskIs({"list", "kill"}) => ask.wellFormed) /\ (AskIs({"pair"}) => ask.remote)
TargetUnresolved == Resolvable /\ Exits(1)

(* pair --host without -y prints its plan.                                 *)
Plans == Resolvable /\ AskIs({"pair"}) /\ ~ask.yes /\ Exits(0)

Consented == Resolvable /\ (AskIs({"pair"}) => ask.yes)

(* Constructing the socket throws, or the connection is on its way.        *)
Connects ==
  /\ Consented /\ AskIs({"list", "kill", "pair"})
  /\ ws' \in {"connecting", "refused"}
  /\ UNCHANGED <<ask, http, calls, did, frames, local, exit>>
AsksIdentity ==
  /\ Resolvable /\ AskIs({"status", "update"})
  /\ http' = [http EXCEPT !["identity"] = Asked]
  /\ UNCHANGED <<ask, ws, calls, did, frames, local, exit>>

-----------------------------------------------------------------------------
(* HTTP.                                                                   *)

Envelope(route) == IF route = "cluster" THEN "wrapped" ELSE "raw"

(* rawReplyReader restates what a raw route said for the shared reader.    *)
Restated(reply) ==
  IF reply.status = 401 THEN reply
  ELSE IF reply.body = "junk" THEN [reply EXCEPT !.status = 200]
  ELSE IF reply.status = 200 THEN [status |-> 200, body |-> "wrapped"]
  ELSE [status |-> 502, body |-> "refusal"]
SharedReader(reply) ==
  IF reply.status = 401 \/ reply.body # "wrapped" THEN "refused" ELSE "data"
Read(route, reply) ==
  IF reply \in {Unasked, Asked, Lost} THEN "refused"
  ELSE SharedReader(IF Envelope(route) = "raw" THEN Restated(reply) ELSE reply)
Tells(route) == Read(route, http[route]) = "data"

(* The call ends with a reply, or with none.                               *)
Answered(route) ==
  /\ http[route] = Asked
  /\ \E reply \in Replies \cup {Lost} : http' = [http EXCEPT ![route] = reply]
  /\ UNCHANGED <<ask, ws, calls, did, frames, local, exit>>

IdentityRefused == http["identity"] \notin {Unasked, Asked} /\ ~Tells("identity") /\ Exits(1)

(* status goes on with its four questions at once.                         *)
AsksTheRest ==
  /\ Tells("identity") /\ AskIs({"status"}) /\ ws = "unasked"
  /\ http' = [r \in Routes |-> IF r = "identity" THEN http[r] ELSE Asked]
  /\ ws' \in {"connecting", "refused"}
  /\ UNCHANGED <<ask, calls, did, frames, local, exit>>

(* describeLocalDaemonState: the marker of this machine's own daemon, read *)
(* for a daemon on this machine only; torn is absent, and an uptime needs  *)
(* a running marker that is not from the future.                           *)
LocalState(marker) ==
  IF ask.remote THEN "unavailable"
  ELSE CASE marker = "running" -> "uptime" [] marker = "clean" -> "clean shutdown"
         [] OTHER -> "not recorded"
Reports ==
  /\ Tells("identity")
  /\ AskIs({"status"}) => ws \in Outcomes /\ (\A r \in Routes : http[r] # Asked)
  /\ \E marker \in Markers : local' = LocalState(marker)
  /\ exit' = 0
  /\ UNCHANGED <<ask, http, ws, calls, did, frames>>

-----------------------------------------------------------------------------
(* The websocket call.                                                     *)
Pending == ws \in {"connecting", "authing", "waiting"}
Settle(outcome) == ws' = outcome /\ UNCHANGED <<ask, http, did, local, exit>>

Opened == ws = "connecting" /\ Settle("authing") /\ UNCHANGED <<calls, frames>>
AuthAccepted ==
  /\ ws \in {"authing", "waiting"} /\ calls + did < 2
  /\ calls' = calls + 1
  /\ Settle("waiting") /\ UNCHANGED frames
AuthRefused == ws \in {"authing", "waiting"} /\ Settle("refused") /\ UNCHANGED <<calls, frames>>

(* The daemon acts on a call and answers, or refuses it.                   *)
DaemonActs ==
  /\ calls > 0
  /\ calls' = calls - 1
  /\ \E accepts \in BOOLEAN :
       did' = (IF accepts THEN did + 1 ELSE did) /\ frames' = frames \cup {accepts}
  /\ UNCHANGED <<ask, http, ws, local, exit>>

(* A response frame: this call's, or one with another id.                  *)
AnyResponse(frame) == TRUE  \* bug: the id is not compared
MyResponse(frame) == frame \in frames
Response ==
  /\ ws = "waiting"
  /\ \E frame \in BOOLEAN :
       MyResponse(frame) /\ Settle(IF frame THEN "data" ELSE "refused")
  /\ UNCHANGED <<calls, frames>>

(* An error frame, onerror, onclose.                                       *)
Breaks == Pending /\ Settle("refused") /\ UNCHANGED <<calls, frames>>
NoTimer == FALSE /\ UNCHANGED vars  \* bug: a silent daemon is waited for
TimesOut == Pending /\ Settle("refused") /\ UNCHANGED <<calls, frames>>

(* list, kill and pair exit with the call's outcome.                       *)
CallEnds ==
  /\ AskIs({"list", "kill", "pair"}) /\ ws \in Outcomes
  /\ Exits(IF ws = "data" THEN 0 ELSE 1)

-----------------------------------------------------------------------------
Decides == UsageRefused \/ Reprints \/ TargetUnresolved \/ Plans \/ Connects \/ AsksIdentity
SocketGoes == Opened \/ AuthAccepted \/ AuthRefused \/ Response \/ Breaks \/ TimesOut
Next ==
  /\ exit = Running
  /\ \/ Decides \/ SocketGoes \/ DaemonActs \/ CallEnds
     \/ \E route \in Routes : Answered(route)
     \/ IdentityRefused \/ AsksTheRest \/ Reports

Ticks == exit = Running /\ (Decides \/ TimesOut \/ CallEnds)
Fairness == WF_vars(Ticks)
Spec == Init /\ [][Next]_vars /\ Fairness

-----------------------------------------------------------------------------
(* What an exit code says happened did: a kill or a mint reported done was *)
(* done by this call, one that was refused, planned or reprinted asked the *)
(* daemon nothing.                                                         *)
ExitSaysWhatWasDone ==
  /\ exit = 0 /\ AskIs({"kill"}) => did > 0
  /\ exit = 0 /\ AskIs({"pair"}) /\ ask.remote /\ ask.yes => did > 0
  /\ exit = 2 \/ (AskIs({"pair"}) /\ (~ask.remote \/ ~ask.yes)) => calls + did = 0 /\ ~Started

(* A line of a report states data only when its own route answered well in *)
(* its own envelope: an error body is never taken for the answer.          *)
ReportedIsAnswered ==
  \A r \in Routes : Tells(r) =>
     /\ http[r].status \in {200, 502} /\ http[r].body # "junk"
     /\ IF Envelope(r) = "raw" THEN http[r].status = 200 ELSE http[r].body = "wrapped"

(* A command over the websocket ends, whatever the daemon does.            *)
Waits == AskIs({"list", "kill", "pair"}) /\ exit = Running
EveryCallEnds == Waits ~> ~Waits
=============================================================================
