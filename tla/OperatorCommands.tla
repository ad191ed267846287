-------------------------- MODULE OperatorCommands --------------------------
(***************************************************************************)
(* The commands an operator runs against the daemon's settings: webui      *)
(* enable, disable and status, config list, get, set and unset, each a     *)
(* process that writes one key at a time, and send, which reads the        *)
(* settings once and delivers one message.  A write may be refused, and    *)
(* any of them may be killed.                                              *)
(*                                                                         *)
(* Taken from outside the repository: a ConfigManager loads the settings   *)
(* when it is made, a set or reset it refuses changes nothing, and the     *)
(* delivery router sends or throws, perhaps after the provider accepted.   *)
(***************************************************************************)
EXTENDS Naturals, Sequences

CONSTANTS Channels,    \* the surfaces of SURFACE_CONFIGS with a destination key
          Edits,       \* the keys the operator sets or unsets
          MaxCommands  \* settings commands run

VARIABLES settings,  \* what the settings files hold
          bundles,   \* the directories that hold a built web UI
          shell,     \* the settings command: its name, arguments and exit
          plan,      \* the writes it still has to make, in order
          before,    \* the settings it was given
          ran,       \* settings commands started
          send,      \* the send command: its phase, arguments and channel
          read,      \* the settings send was made with
          delivered  \* what a provider was handed

vars == <<settings, bundles, shell, plan, before, ran, send, read, delivered>>

(***************************************************************************)
(* A settings key is <<section, name>>.  Bundle directories: b1 and b2.    *)
(***************************************************************************)
Web(name) == <<"webui", name>>
Origins == {"this machine", "the network"}
Values(key) ==
  CASE key = Web("bundleDir") -> {"", "b1", "b2"}
    [] key \in {Web("serve"), Web("enabled")} -> {"off", "on"}
    [] key \in {Web("controlPlane"), Web("web")} -> {"local", "network"}
    [] key = Web("publicBaseUrl") -> {"shipped", "chosen"} \cup Origins
    [] key[2] = "destination" -> {"", "configured"}
    [] OTHER -> {"off", "on"}
WebKeys == {Web(n) : n \in {"bundleDir", "serve", "enabled", "controlPlane", "web", "publicBaseUrl"}}
Keys == WebKeys \cup Channels \X {"enabled", "destination", "capabilities"}
Shipped(key) ==
  CASE key = Web("publicBaseUrl") -> "shipped"
    [] key \in {Web("controlPlane"), Web("web")} -> "local"
    [] key = Web("bundleDir") \/ key[2] = "destination" -> ""
    [] key[2] = "capabilities" -> "on"
    [] OTHER -> "off"
Any == UNION {Values(key) : key \in Keys}

Idle == [verb |-> "none", dir |-> "", posture |-> "unchanged", exit |-> "none"]
NoSend == [phase |-> "none", named |-> "", to |-> "", channel |-> "", exit |-> "none"]
Exits == {"none", "0", "1", "2", "killed"}
Postures == {"lan", "loopback", "unchanged"}

(* Type invariant.                                                         *)
TypeOK ==
  /\ settings \in [Keys -> Any] /\ before \in [Keys -> Any] /\ read \in [Keys -> Any]
  /\ \A key \in Keys : {settings[key], before[key], read[key]} \subseteq Values(key)
  /\ bundles \subseteq {"b1", "b2"}
  /\ shell \in [verb : {"none", "enable", "disable", "config", "show", "misused"},
                dir : {"", "b1", "b2"}, posture : Postures, exit : Exits]
  /\ plan \in Seq(Keys \X Any)
  /\ ran \in 0..MaxCommands
  /\ send \in [phase : {"none", "resolved", "checked", "over"}, named : Channels \cup {"", "unknown"},
               to : {"", "address"}, channel : Channels \cup {""}, exit : Exits]
  /\ delivered \subseteq [channel : Channels, address : {"", "configured", "address"},
                          text : {"literal", "escaped"}]

Init ==
  /\ \E configured, on \in SUBSET Channels :
       settings = [key \in Keys |->
         CASE key[2] = "destination" /\ key[1] \in configured -> "configured"
           [] key[2] = "enabled" /\ key[1] \in on -> "on"
           [] OTHER -> Shipped(key)]
  /\ bundles = {"b1"}
  /\ shell = Idle /\ plan = <<>> /\ before = settings /\ ran = 0
  /\ send = NoSend /\ read = settings /\ delivered = {}

SendUnchanged == UNCHANGED <<send, read, delivered>>

-----------------------------------------------------------------------------
(* One settings command at a time.                                         *)

Idling == shell.exit # "none" \/ shell.verb = "none"
Begins(verb, dir, posture, exit, writes) ==
  /\ Idling /\ ran < MaxCommands
  /\ shell' = [verb |-> verb, dir |-> dir, posture |-> posture, exit |-> exit]
  /\ plan' = writes /\ before' = settings /\ ran' = ran + 1
  /\ UNCHANGED <<settings, bundles>> /\ SendUnchanged

(* A flag without its value, an unknown word, --lan with --loopback; a     *)
(* config verb that is none, lacks its key or has an argument too many.    *)
Misused == Begins("misused", "", "unchanged", "2", <<>>)

(* webui status, config list and get; a key the schema lacks is refused.   *)
Shows == \E code \in {"0", "1"} : Begins("show", "", "unchanged", code, <<>>)

(* config set, and unset, which is a set to the shipped value.             *)
Configures ==
  \E key \in Edits : \E value \in Values(key) :
    Begins("config", "", "unchanged", "none", << <<key, value>> >>)

Disables == Begins("disable", "", "unchanged", "none", << <<Web("serve"), "off">> >>)

PostureWrites(posture) ==
  CASE posture = "lan" -> << <<Web("controlPlane"), "network">>, <<Web("web"), "network">> >>
    [] posture = "loopback" -> << <<Web("controlPlane"), "local">>, <<Web("web"), "local">> >>
    [] OTHER -> <<>>
ServeFirst(dir, posture) ==  \* bug: the switch is thrown before the bundle is named
  << <<Web("serve"), "on">>, <<Web("bundleDir"), dir>>, <<Web("enabled"), "on">> >> \o PostureWrites(posture)
EnableWrites(dir, posture) ==
  << <<Web("bundleDir"), dir>>, <<Web("serve"), "on">>, <<Web("enabled"), "on">> >> \o PostureWrites(posture)

(* webui enable: the directory asked for or the one already configured,    *)
(* which must hold the app shell before anything is written.               *)
Enables ==
  \E asked \in Values(Web("bundleDir")), posture \in Postures :
    LET dir == IF asked = "" THEN settings[Web("bundleDir")] ELSE asked IN
    IF dir = "" THEN Begins("enable", dir, posture, "2", <<>>)
    ELSE IF dir \notin bundles THEN Begins("enable", dir, posture, "1", <<>>)
    ELSE Begins("enable", dir, posture, "none", EnableWrites(dir, posture))

Running == shell.verb # "none" /\ shell.exit = "none"
Ends(code) == shell' = [shell EXCEPT !.exit = code] /\ UNCHANGED <<bundles, before, ran>> /\ SendUnchanged

Writes ==
  /\ Running /\ plan # <<>>
  /\ settings' = [settings EXCEPT ![Head(plan)[1]] = Head(plan)[2]]
  /\ plan' = Tail(plan)
  /\ UNCHANGED <<bundles, shell, before, ran>> /\ SendUnchanged
WriteRefused ==
  /\ Running /\ plan # <<>>
  /\ Ends("1") /\ UNCHANGED <<settings, plan>>

(* enable replaces a public URL that is blank or shipped by the serving    *)
(* origin, and exits 0 even when that one write is refused.                *)
Origin == IF settings[Web("controlPlane")] = "network" THEN "the network" ELSE "this machine"
Concludes ==
  /\ Running /\ plan = <<>>
  /\ settings' \in {settings} \cup
       IF shell.verb = "enable" /\ settings[Web("publicBaseUrl")] = "shipped"
         THEN {[settings EXCEPT ![Web("publicBaseUrl")] = Origin]} ELSE {}
  /\ Ends("0") /\ UNCHANGED plan

Killed == Running /\ Ends("killed") /\ UNCHANGED <<settings, plan>>

-----------------------------------------------------------------------------
(* send.                                                                   *)
ShellUnchanged == UNCHANGED <<settings, bundles, shell, plan, before, ran>>

(* inert-text.ts: the transform of every channel that has one; SEND_CHANNELS *)
(* leaves out a surface with none.                                         *)
Transform == [c \in Channels \ {"sms"} |-> IF c = "discord" THEN "escaped" ELSE "literal"]
SendChannels == DOMAIN Transform

Qualifying == {c \in SendChannels :
                 settings[<<c, "enabled">>] = "on" /\ settings[<<c, "destination">>] # ""}
DefaultChannel == IF \E c \in SendChannels : Qualifying = {c} THEN {Qualifying} ELSE {}

(* Misuse, help and --list send nothing; an unknown name and no single     *)
(* default are refused; otherwise the channel is settled and the message   *)
(* may still have to be read from stdin, for as long as it takes.          *)
SendStarts ==
  /\ send.phase = "none"
  /\ read' = settings
  /\ \E named \in Channels \cup {"", "unknown"}, to \in {"", "address"} :
       LET settled == IF named = "" THEN DefaultChannel
                      ELSE IF named \in SendChannels THEN {{named}} ELSE {} IN
       send' \in
         IF settled = {}
           THEN {[phase |-> "over", named |-> named, to |-> to, channel |-> "", exit |-> "2"]}
           ELSE {[phase |-> "resolved", named |-> named, to |-> to, channel |-> c, exit |-> "none"] :
                   c \in UNION settled}
  /\ UNCHANGED delivered /\ ShellUnchanged

NotASend ==
  /\ send.phase = "none"
  /\ \E code \in {"0", "2"} : send' = [send EXCEPT !.phase = "over", !.exit = code]
  /\ read' = settings
  /\ UNCHANGED delivered /\ ShellUnchanged

SendEnds(code) == send' = [send EXCEPT !.phase = "over", !.exit = code] /\ UNCHANGED read /\ ShellUnchanged

EmptyMessage == send.phase = "resolved" /\ SendEnds("2") /\ UNCHANGED delivered

Usable(c) == read[<<c, "enabled">>] = "on" /\ read[<<c, "capabilities">>] = "on"
ChecksUsable ==
  /\ send.phase = "resolved"
  /\ IF Usable(send.channel)
       THEN send' = [send EXCEPT !.phase = "checked"] /\ UNCHANGED read /\ ShellUnchanged
       ELSE SendEnds("1")
  /\ UNCHANGED delivered

(* The router uses --to, or else the configured destination, and throws    *)
(* when there is neither.                                                  *)
Address == IF send.to # "" THEN send.to ELSE read[<<send.channel, "destination">>]
Message == [channel |-> send.channel, address |-> Address, text |-> Transform[send.channel]]
Delivers ==
  /\ send.phase = "checked" /\ Address # ""
  /\ delivered' = delivered \cup {Message}
  /\ \E code \in {"0", "1"} : SendEnds(code)
DeliveryFails == send.phase = "checked" /\ SendEnds("1") /\ UNCHANGED delivered
SendKilled == send.phase \in {"resolved", "checked"} /\ SendEnds("killed") /\ UNCHANGED delivered

Next ==
  \/ Misused \/ Shows \/ Configures \/ Disables \/ Enables
  \/ Writes \/ WriteRefused \/ Concludes \/ Killed
  \/ SendStarts \/ NotASend \/ EmptyMessage \/ ChecksUsable
  \/ Delivers \/ DeliveryFails \/ SendKilled

Spec == Init /\ [][Next]_vars

-----------------------------------------------------------------------------
(* However far webui enable got before it was refused or killed, it never  *)
(* turned serving on over a directory it did not examine, never opened a   *)
(* listener to the network for a bundle that is not being served, and exit *)
(* 0 means every key it was asked for.                                     *)
EnableIsOrdered ==
  shell.verb = "enable" =>
    /\ settings[Web("serve")] = "on" /\ before[Web("serve")] = "off"
         => settings[Web("bundleDir")] = shell.dir /\ shell.dir \in bundles
    /\ \A key \in {Web("controlPlane"), Web("web")} :
         settings[key] = "network" /\ before[key] = "local" => settings[Web("serve")] = "on"
    /\ shell.exit = "0" =>
         /\ settings[Web("bundleDir")] = shell.dir
         /\ settings[Web("serve")] = "on" /\ settings[Web("enabled")] = "on"
         /\ shell.posture = "lan" => settings[Web("controlPlane")] = "network" /\ settings[Web("web")] = "network"
         /\ shell.posture = "loopback" => settings[Web("controlPlane")] = "local" /\ settings[Web("web")] = "local"

(* A message goes out only where it was meant: on the channel that was     *)
(* named and on no other, or on the only one that qualified, which was     *)
(* switched on with its capabilities when send read the settings.          *)
SentWhereMeant ==
  \A m \in delivered :
    /\ read[<<m.channel, "enabled">>] = "on" /\ read[<<m.channel, "capabilities">>] = "on"
    /\ send.named \in {"", m.channel}
    /\ send.named = "" =>
         \A c \in SendChannels \ {m.channel} :
           read[<<c, "enabled">>] = "off" \/ read[<<c, "destination">>] = ""

=============================================================================
