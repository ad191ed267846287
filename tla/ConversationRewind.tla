-------------------------- MODULE ConversationRewind --------------------------
(***************************************************************************)
(* The daemon's port for rewinding a conversation it hosts: truncation to  *)
(* a turn's end, its undo and its redo (runtime/conversation-rewind-port.ts). *)
(*                                                                         *)
(* Taken from outside the repository: a turn's anchor, which is the number *)
(* of messages at its end.                                                 *)
(***************************************************************************)
EXTENDS Naturals, Sequences, SequencesExt

CONSTANTS MaxMessages  \* messages ever said

VARIABLES live,        \* the conversation registered for the session, or none
          conv,        \* the messages of each conversation object
          said,        \* messages said so far
          anchors,     \* message counts recorded at the ends of turns
          snapshots,   \* each truncation's conversation, before and after it
          overwritten  \* a restore replaced messages no snapshot holds

vars == <<live, conv, said, anchors, snapshots, overwritten>>

Conversations == {"first", "second"}

(* Type invariant.                                                         *)
TypeOK ==
  /\ live \in Conversations \cup {"none"}
  /\ conv \in [Conversations -> Seq(1..MaxMessages)] /\ said \in 0..MaxMessages
  /\ anchors \subseteq 0..MaxMessages
  /\ \A s \in snapshots : s.conv \in Conversations /\ IsPrefix(s.after, s.before)
  /\ overwritten \in BOOLEAN

Init ==
  /\ live = "none" /\ conv = [c \in Conversations |-> <<>>] /\ said = 0
  /\ anchors = {} /\ snapshots = {} /\ overwritten = FALSE

-----------------------------------------------------------------------------
RegisterConversation ==
  /\ live' \in Conversations
  /\ UNCHANGED <<conv, said, anchors, snapshots, overwritten>>
UnregisterConversation ==
  /\ live # "none" /\ live' = "none"
  /\ UNCHANGED <<conv, said, anchors, snapshots, overwritten>>

Say ==
  /\ live # "none" /\ said < MaxMessages
  /\ said' = said + 1 /\ conv' = [conv EXCEPT ![live] = Append(@, said + 1)]
  /\ UNCHANGED <<live, anchors, snapshots, overwritten>>
TurnEnds ==
  /\ live # "none" /\ anchors' = anchors \cup {Len(conv[live])}
  /\ UNCHANGED <<live, conv, said, snapshots, overwritten>>

(* keepFor: an anchor beyond the conversation keeps all of it, and so does *)
(* a turn that recorded none.                                              *)
Smaller(a, b) == IF a < b THEN a ELSE b
Keep(count) == Smaller(count, Len(conv[live]))
KeptTail(count) ==  \* bug: the newest messages are kept
  SubSeq(conv[live], Len(conv[live]) - Keep(count) + 1, Len(conv[live]))
Kept(count) == SubSeq(conv[live], 1, Keep(count))
RewindTo(count, before) ==
  LET after == Kept(count) IN
  /\ conv' = [conv EXCEPT ![live] = after]
  /\ snapshots' = snapshots \cup {[conv |-> live, before |-> before, after |-> after]}
TruncateFirst ==  \* bug: the conversation is serialized after the truncation
  /\ live # "none"
  /\ \E count \in anchors \cup {Len(conv[live])} :
       RewindTo(count, Kept(count))
  /\ UNCHANGED <<live, said, anchors, overwritten>>
Rewind ==
  /\ live # "none"
  /\ \E count \in anchors \cup {Len(conv[live])} : RewindTo(count, conv[live])
  /\ UNCHANGED <<live, said, anchors, overwritten>>

(* restoreBefore and restoreAfter put a snapshot back into the             *)
(* conversation it was taken from, whatever that holds by now.             *)
Held(s) == ToSet(s.before)
Restore ==
  \E s \in snapshots : \E which \in {s.before, s.after} :
    /\ conv' = [conv EXCEPT ![s.conv] = which]
    /\ overwritten' = (overwritten \/
         ~(ToSet(conv[s.conv]) \subseteq ToSet(which) \cup UNION {Held(t) : t \in snapshots}))
    /\ UNCHANGED <<live, said, anchors, snapshots>>

Next ==
  \/ RegisterConversation \/ UnregisterConversation
  \/ Say \/ TurnEnds \/ Rewind \/ Restore

Spec == Init /\ [][Next]_vars

-----------------------------------------------------------------------------
(* Rewinding loses no message for good: every message said is still in a   *)
(* conversation or in what a snapshot can put back, until somebody         *)
(* restores a snapshot over messages said since the last rewind.           *)
RewindsLoseNothing ==
  overwritten \/
    \A m \in 1..said :
      \/ \E c \in Conversations : m \in ToSet(conv[c])
      \/ \E s \in snapshots : m \in Held(s)

=============================================================================
