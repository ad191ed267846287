----------------------------- MODULE TriageTags -----------------------------
(***************************************************************************)
(* The triage tagger: applyTags of daemon/handlers/triage/tagger/index.ts  *)
(* and what it does at the provider, an IMAP flag over a connection of its *)
(* own with bounded retries (tagger/imap.ts), a reaction per tag           *)
(* (tagger/slack.ts, tagger/discord.ts), or the tags of a forum thread,    *)
(* read, merged and written back whole.                                    *)
(*                                                                         *)
(* One message per surface; each answer of the provider may be lost after  *)
(* its effect.                                                             *)
(***************************************************************************)
EXTENDS Naturals, FiniteSets

CONSTANTS
  Calls,        \* applyTags in flight
  Tags,         \* the tags of the triage labels
  Foreign,      \* a tag somebody else has put on the thread
  MaxAttempts,  \* attempts of one IMAP store
  None

TagSurfaces == {"imap", "slack", "discord", "thread", "other"}
Phases == {"greeting", "login", "select", "store", "logout"}

VARIABLES
  marks,    \* the tags at the provider, by surface
  call,     \* the calls
  imap      \* the IMAP connection of each

vars == <<marks, call, imap>>

Idle == [at |-> "idle", surface |-> "other", confirmed |-> FALSE, left |-> {}, done |-> {},
         seen |-> {}, answer |-> "none"]
NoConnection == [phase |-> "greeting", completed |-> FALSE, attempt |-> 0]

Init ==
  /\ marks = [s \in TagSurfaces |-> IF s = "thread" THEN {Foreign} ELSE {}]
  /\ call = [c \in Calls |-> Idle]
  /\ imap = [c \in Calls |-> NoConnection]

Answer(c, answer) == call' = [call EXCEPT ![c].at = "idle", ![c].answer = answer]

-----------------------------------------------------------------------------
(* applyTags up to the provider's first await; the configuration enables   *)
(* it or not at each call.                                                 *)
Unconfirmed(confirmed) == FALSE  \* bug: nobody asks
Refuses(confirmed) == ~confirmed
Apply(c, surface, tags, enabled, confirmed) ==
  /\ call[c].at = "idle"
  /\ LET asked == [Idle EXCEPT !.surface = surface, !.confirmed = confirmed, !.left = tags]
         answer == IF ~enabled THEN "skipped" ELSE IF Refuses(confirmed) THEN "refused"
                   ELSE IF surface = "other" \/ tags = {} THEN "skipped" ELSE "none"
     IN call' = [call EXCEPT ![c] = IF answer = "none" THEN [asked EXCEPT !.at = "credential"]
                                    ELSE [Idle EXCEPT !.answer = answer]]
  /\ imap' = [imap EXCEPT ![c] = NoConnection]
  /\ UNCHANGED marks

(* The provider, the message's place or the credential is missing.         *)
NoCredential(c) ==
  /\ call[c].at = "credential"
  /\ Answer(c, "skipped")
  /\ UNCHANGED <<marks, imap>>

(* The credential is there: the first request goes out.                    *)
Begin(c) ==
  /\ call[c].at = "credential"
  /\ call' = [call EXCEPT ![c].at = CASE call[c].surface = "imap" -> "imap"
                                      [] call[c].surface = "thread" -> "reading"
                                      [] OTHER -> "reacting"]
  /\ imap' = [imap EXCEPT ![c] = [NoConnection EXCEPT !.attempt = 1]]
  /\ UNCHANGED marks

(* The tags are applied in the order they are listed.                      *)
Tag(c) == CHOOSE tag \in call[c].left : TRUE

(* A tag is applied: the next one, or the answer.                          *)
Applied(c, tags) ==
  LET left == call[c].left \ tags
  IN call' = [call EXCEPT ![c].left = left, ![c].done = @ \cup tags,
                          ![c].at = IF left = {} THEN "idle" ELSE @,
                          ![c].answer = IF left = {} THEN "applied" ELSE @]

(* reactions.add, PUT .../reactions: one per tag, one already there is     *)
(* a success.                                                              *)
React(c) ==
  /\ call[c].at = "reacting"
  /\ marks' = [marks EXCEPT ![call[c].surface] = @ \cup {Tag(c)}]
  /\ Applied(c, {Tag(c)})
  /\ UNCHANGED imap

(* An error status, or the request or its answer is lost: the call throws. *)
RequestFails(c) ==
  /\ call[c].at \in {"reacting", "reading", "writing"}
  /\ \/ UNCHANGED marks
     \/ /\ call[c].at = "reacting"
        /\ marks' = [marks EXCEPT ![call[c].surface] = @ \cup {Tag(c)}]
     \/ /\ call[c].at = "writing"
        /\ marks' = [marks EXCEPT !["thread"] = call[c].seen \cup call[c].left]
  /\ Answer(c, "failed")
  /\ UNCHANGED imap

(* fetchDiscordAppliedTags; a failed read ends the call (RequestFails).    *)
ReadThread(c) ==
  /\ call[c].at = "reading"
  /\ call' = [call EXCEPT ![c].at = "writing", ![c].seen = marks["thread"]]
  /\ UNCHANGED <<marks, imap>>

WriteThread(c) ==
  /\ call[c].at = "writing"
  /\ marks' = [marks EXCEPT !["thread"] = call[c].seen \cup call[c].left]
  /\ Applied(c, call[c].left)
  /\ UNCHANGED imap

-----------------------------------------------------------------------------
(* imapStoreFlagOverTls, one tag after the other.  A command's OK sends    *)
(* the next command; the OK of LOGOUT ends the store well.                 *)
After(phase) == CASE phase = "greeting" -> "login" [] phase = "login" -> "select"
                  [] phase = "select" -> "store" [] OTHER -> "logout"

Stored(c) ==
  /\ Applied(c, {Tag(c)})
  /\ imap' = [imap EXCEPT ![c] = [NoConnection EXCEPT !.attempt = 1]]

InImap(c) == call[c].at = "imap"

ServerOk(c) ==
  /\ InImap(c)
  /\ marks' = IF imap[c].phase = "store"
              THEN [marks EXCEPT !["imap"] = @ \cup {Tag(c)}] ELSE marks
  /\ IF imap[c].phase = "logout"
     THEN Stored(c)
     ELSE imap' = [imap EXCEPT ![c].phase = After(@)] /\ UNCHANGED call

(* NO, BAD: the failure is no transient one, and the call throws.          *)
ServerRefuses(c) ==
  /\ InImap(c) /\ imap[c].phase # "greeting"
  /\ Answer(c, "failed")
  /\ UNCHANGED <<marks, imap>>

(* The server says BYE.  Only the one that answers LOGOUT is expected.     *)
CompletedBy(phase) == phase = "logout"
ServerBye(c) ==
  /\ InImap(c) /\ imap[c].phase # "greeting"
  /\ imap' = [imap EXCEPT ![c].completed = @ \/ CompletedBy(imap[c].phase)]
  /\ UNCHANGED <<marks, call>>

(* makeRetryingImapStoreFlag: again after a transient failure.             *)
RetriesAlways(c) == TRUE  \* bug: no bound
Retries(c) == imap[c].attempt < MaxAttempts
TransientFailure(c) ==
  IF Retries(c)
  THEN /\ imap' = [imap EXCEPT ![c] = [NoConnection EXCEPT
                                         !.attempt = (imap[c].attempt % MaxAttempts) + 1]]
       /\ UNCHANGED call
  ELSE Answer(c, "failed") /\ UNCHANGED imap

(* The socket closes, fails or times out; the server may have acted on the *)
(* command whose answer did not come.                                      *)
ConnectionEnds(c, closed) ==
  /\ InImap(c)
  /\ IF closed /\ imap[c].completed
     THEN Stored(c) /\ UNCHANGED marks
     ELSE /\ \/ UNCHANGED marks
             \/ /\ imap[c].phase = "store"
                /\ marks' = [marks EXCEPT !["imap"] = @ \cup {Tag(c)}]
          /\ TransientFailure(c)

Step(c) ==
  \/ NoCredential(c) \/ Begin(c)
  \/ React(c) \/ ReadThread(c) \/ WriteThread(c) \/ RequestFails(c)
  \/ ServerOk(c) \/ ServerRefuses(c) \/ ServerBye(c)
  \/ \E closed \in BOOLEAN : ConnectionEnds(c, closed)

Next ==
  \/ \E c \in Calls, s \in TagSurfaces, tags \in SUBSET Tags :
       \E enabled, confirmed \in BOOLEAN : Apply(c, s, tags, enabled, confirmed)
  \/ \E c \in Calls : Step(c)

(* A request is answered or fails, and the idle socket times out.          *)
Fairness == \A c \in Calls : WF_vars(Step(c))

Spec == Init /\ [][Next]_vars /\ Fairness
-----------------------------------------------------------------------------
(* Type invariant.                                                         *)
TypeOK ==
  /\ marks \in [TagSurfaces -> SUBSET (Tags \cup {Foreign})]
  /\ call \in [Calls -> [at : {"idle", "credential", "imap", "reading", "writing", "reacting"},
                         surface : TagSurfaces, confirmed : BOOLEAN, left : SUBSET Tags,
                         done : SUBSET Tags, seen : SUBSET (Tags \cup {Foreign}),
                         answer : {"none", "skipped", "refused", "failed", "applied"}]]
  /\ imap \in [Calls -> [phase : Phases, completed : BOOLEAN, attempt : 0..MaxAttempts]]

(* Nothing changes at a provider but for a call the user confirmed, and    *)
(* then only by its own tags and what it read (tagger/index.ts:156-163).   *)
OnlyConfirmedTags ==
  [][\A s \in TagSurfaces : marks'[s] # marks[s] =>
       \E c \in Calls : /\ call[c].confirmed /\ call[c].surface = s
                        /\ marks'[s] \ marks[s] \subseteq call[c].left \cup call[c].seen]_vars

(* A flag or reaction a call counts as applied is on the message, whatever *)
(* the connection did on the way; a tag of a thread may be lost to another *)
(* call that read the thread before.                                       *)
AppliedIsThere ==
  \A c \in Calls : call[c].surface # "thread" => call[c].done \subseteq marks[call[c].surface]

(* No connection, however it behaves, keeps a call from its answer.        *)
Waits(c) == call[c].at # "idle"
EveryApplyEnds == \A c \in Calls : Waits(c) ~> ~Waits(c)
=============================================================================
