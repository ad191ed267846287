---------------------------- MODULE CommandLine ----------------------------
(***************************************************************************)
(* The daemon's command line: its vocabulary (cli/command-catalog.ts) read *)
(* by the shared argument engine (cli/parser.ts), and the order in which   *)
(* main (daemon/cli.ts) asks what a command line wants before it serves.   *)
(*                                                                         *)
(* A command line is a sequence of tokens.  What the engine does with the  *)
(* catalog is modelled from the catalog's fields and the parser's tests.   *)
(***************************************************************************)
EXTENDS Naturals, Sequences, SequencesExt

(* DAEMON_COMMANDS, by what main does with them, and their other spellings *)
ServiceCommands == {"install-service", "uninstall-service", "service-status", "migrate-service",
                    "start-service", "stop-service", "restart-service"}
RemoteCommands == {"status", "update", "sessions", "pair"}
RawInterceptCommands == {"send", "cluster", "webui", "provision-wake-model"}
OwnCommands == {"completion", "help", "version", "config", "serve"}
Commands == ServiceCommands \cup RemoteCommands \cup RawInterceptCommands \cup OwnCommands

Resolve(word) ==
  CASE word \in {"qr", "qrcode"} -> "pair" [] word = "session" -> "sessions"
    [] word = "completions" -> "completion" [] OTHER -> word

(* The flags, each under one of its spellings, and who takes them.         *)
GlobalFlags == {"--daemon-home", "--working-dir", "--help", "--version"}
RemoteTargetFlags == {"--host", "--port", "--token"}
ServeFlags == {"--hostname", "--host", "--port", "--provider", "--model", "--config",
               "--enable", "--disable"}
RejectedFlags == {"--resume", "--continue", "--fork", "--print", "--prompt", "--output",
                  "--open", "--no-alt-screen", "--session", "--strict"}
FlagsOf(command) ==
  CASE command = "serve" -> ServeFlags
    [] command = "service-status" -> {"--json"}
    [] command = "migrate-service" -> {"--yes"}
    [] command = "status" -> {"--json"} \cup RemoteTargetFlags
    [] command = "update" -> {"--json", "--check"} \cup RemoteTargetFlags
    [] command = "sessions" -> {"--json", "--all"} \cup RemoteTargetFlags
    [] command = "pair" -> {"--json", "--yes"} \cup RemoteTargetFlags
    [] command = "config" -> {"--json"}
    [] OTHER -> {}
ValueFlags == RemoteTargetFlags \cup ServeFlags
              \cup {"--daemon-home", "--working-dir", "--prompt", "--output", "--session"}
Flags == GlobalFlags \cup RejectedFlags \cup ValueFlags
         \cup {"--json", "--yes", "--check", "--all", "--nonsense"}
Shells == {"bash", "zsh", "fish"}
Ports == {"7777"}

-----------------------------------------------------------------------------
(* parseWithCatalog.  The command word is the first that is neither a flag *)
(* nor, by the one arity table all commands share, a flag's value.         *)
ValueAt(argv, i) == i > 1 /\ argv[i - 1] \in ValueFlags /\ argv[i] \notin Flags
IsWord(argv, i) == argv[i] \notin Flags /\ ~ValueAt(argv, i)
WordsOf(argv) == {i \in DOMAIN argv : IsWord(argv, i)}
HasWord(argv) == WordsOf(argv) # {}
WordAt(argv) == Min(WordsOf(argv))

(* unmatchedFirstToken: 'reject'; bare, the default command is serve.      *)
Known(word) == Resolve(word) \in Commands
CommandOrServe(argv) ==  \* bug: an unmatched word is a positional of the default command
  IF HasWord(argv) /\ Known(argv[WordAt(argv)]) THEN Resolve(argv[WordAt(argv)]) ELSE "serve"
Command(argv) ==
  IF ~HasWord(argv) THEN "serve"
  ELSE IF Known(argv[WordAt(argv)]) THEN Resolve(argv[WordAt(argv)]) ELSE "unknown"

(* A passthrough command keeps what follows it as it is.                   *)
Parsed(argv) ==
  IF Command(argv) \in RawInterceptCommands THEN SubSeq(argv, 1, WordAt(argv)) ELSE argv
Has(argv, flag) == \E i \in DOMAIN Parsed(argv) : argv[i] = flag
Args(argv) ==
  IF ~HasWord(argv) THEN <<>>
  ELSE LET rest == SubSeq(argv, WordAt(argv) + 1, Len(argv))
       IN [i \in {j \in DOMAIN rest : IsWord(argv, WordAt(argv) + j)} |-> rest[i]]

FlagIsWrong(argv, i) ==
  \/ argv[i] \in RejectedFlags
  \/ argv[i] \notin GlobalFlags \cup FlagsOf(Command(argv))
  \/ argv[i] \in ValueFlags /\ ~(i < Len(argv) /\ ValueAt(argv, i + 1))
  \/ argv[i] = "--port" /\ i < Len(argv) /\ argv[i + 1] \notin Ports
Refused(argv) ==
  \/ Command(argv) = "unknown"
  \/ \E i \in DOMAIN Parsed(argv) : argv[i] \in Flags /\ FlagIsWrong(argv, i)

-----------------------------------------------------------------------------
Serve == [to |-> "serve", code |-> {}]
Refusal == [to |-> "refusal", code |-> {2}]
Page == [to |-> "page", code |-> {0}]
Runs(codes) == [to |-> "command", code |-> codes]

(* help and --help: a command's page, or the list of them.                 *)
HelpFor(argv) ==
  LET topics == {i \in DOMAIN Args(argv) : TRUE}
  IN IF Command(argv) = "help" /\ topics # {} /\ ~Known(Args(argv)[CHOOSE i \in topics : \A j \in topics : i <= j])
     THEN Refusal ELSE Page

(* runCompletionCommand: one shell, and one it generates for.              *)
CompletionFor(argv) ==
  IF \E i \in DOMAIN Args(argv) : DOMAIN Args(argv) = {i} /\ Args(argv)[i] \in Shells
  THEN Runs({0}) ELSE Runs({2})

(* main, up to the composition of the runtime.  The settings of this run   *)
(* are good or not.                                                        *)
Verdict(argv, overridesFit) ==
  LET command == Command(argv)
  IN CASE argv # <<>> /\ argv[1] \in RawInterceptCommands -> Runs({0, 1, 2})
       [] argv = <<>> \/ argv[1] \notin RawInterceptCommands ->
            IF Refused(argv) THEN Refusal
            ELSE IF Has(argv, "--help") \/ command = "help" THEN HelpFor(argv)
            ELSE IF Has(argv, "--version") \/ command = "version" THEN Page
            ELSE IF command \in RawInterceptCommands THEN Refusal
            ELSE IF command = "completion" THEN CompletionFor(argv)
            ELSE IF ~overridesFit THEN Refusal
            ELSE IF command \in RemoteCommands \cup {"config"} THEN Runs({0, 1, 2})
            ELSE IF command \in ServiceCommands THEN Runs({0, 1, 2, 3, 4})
            ELSE Serve

(* What the operator may have typed that means serving: no word at all, or *)
(* serve before any other word, and no flag but the ones serving takes.    *)
AsksToServe(argv) ==
  LET words == {i \in DOMAIN argv : argv[i] \notin Flags /\ ~(i > 1 /\ argv[i - 1] \in ValueFlags)}
  IN /\ \A i \in DOMAIN argv :
           argv[i] \in Flags => argv[i] \in (ServeFlags \cup GlobalFlags) \ {"--help", "--version"}
     /\ words # {} => \E i \in words : argv[i] = "serve" /\ \A j \in words : i <= j
=============================================================================
