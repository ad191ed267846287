SPECIFICATION Spec
CONSTANTS
  focusses = {"life", "commands", "operator", "trust", "files", "talk", "cluster"}
  Tokens = {"serve", "status", "send", "doctor", "completion", "bash", "--help", "--json",
            "--port", "7777", "--resume"}
  MaxTokens = 3
  Questions = {"health", "cluster"}
  Channels = {"discord", "telegram"}  Edits <- MCEdits  MaxCommands = 1
  Gates = {"daemon", "floors"}  Asks = {1, 2}
  Calls = {c1, c2}
  MaxMessages = 2
  Starts = {s1, s2}
INVARIANTS
  TypesOK
  OnlyServeServes
  ShutdownIsTotal
  CommandsTellTheTruth
  SettingsAndSends
  RewindsLoseNothing
  ElectionOverGroup
PROPERTIES
  WorkspaceDecisionsStand
  EveryRunEnds
CHECK_DEADLOCK FALSE
