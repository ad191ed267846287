---------------------------- MODULE ClusterStart ----------------------------
(***************************************************************************)
(* Starting the LAN cluster (runtime/cluster-group-composition.ts and      *)
(* cluster-composition.ts): the group layer, which owns the socket and     *)
(* loads the group key, asks to be taken back, and only then does the      *)
(* leader election coordinate over the group's transport, while the        *)
(* group's replication asks the election whether this machine is master.   *)
(*                                                                         *)
(* Taken from outside the repository: the group runtime and the election.  *)
(***************************************************************************)
CONSTANTS Starts  \* calls of startCluster

VARIABLES call,      \* each call's step
          started,   \* the group layer's own flag
          group,     \* the group runtime: down, coming, up
          election,  \* the coordinator: down or up
          master,    \* the role the election gave this machine
          roster,    \* this machine's belief: no member, removed, on the roster
          returned,  \* what became of the announcement of its return
          lone       \* no call came before an earlier one had succeeded

vars == <<call, started, group, election, master, roster, returned, lone>>

Steps == {"uncalled", "starting", "announcing", "grouped", "over", "failed"}
Outcomes == {"rejoined", "removed", "unverifiable", "alone"}

(* Type invariant.                                                         *)
TypeOK ==
  /\ call \in [Starts -> Steps]
  /\ started \in BOOLEAN /\ master \in BOOLEAN /\ lone \in BOOLEAN
  /\ group \in {"down", "coming", "up"} /\ election \in {"down", "up"}
  /\ roster \in {"no member", "removed", "on it"}
  /\ returned \in {"unasked", "asked"} \cup Outcomes

Init ==
  /\ call = [c \in Starts |-> "uncalled"] /\ started = FALSE
  /\ group = "down" /\ election = "down" /\ master = FALSE
  /\ roster = "on it" /\ returned = "unasked" /\ lone = TRUE

Goes(c, step) == call' = [call EXCEPT ![c] = step]

(* The flag is set before the first await.                                 *)
StartCluster(c) ==
  /\ call[c] = "uncalled"
  /\ Goes(c, IF started THEN "grouped" ELSE "starting")
  /\ started' = TRUE
  /\ group' = IF started THEN group ELSE "coming"
  /\ lone' = (lone /\ \A d \in Starts : call[d] \in {"uncalled", "over"})
  /\ UNCHANGED <<election, master, roster, returned>>

(* announceReturn: only a member that still finds itself on the roster.    *)
GroupUp(c) ==
  /\ call[c] = "starting"
  /\ group' = "up"
  /\ IF roster = "on it"
       THEN Goes(c, "announcing") /\ returned' = "asked"
       ELSE Goes(c, "grouped") /\ UNCHANGED returned
  /\ UNCHANGED <<started, election, master, roster, lone>>
Returned(c) ==
  /\ call[c] = "announcing"
  /\ returned' \in Outcomes
  /\ Goes(c, "grouped")
  /\ UNCHANGED <<started, group, election, master, roster, lone>>

AsSoonAsCalled(c) == call[c] \in {"starting", "grouped"}  \* bug: the group is not awaited
GroupDone(c) == call[c] = "grouped"
ElectionUp(c) ==
  /\ GroupDone(c)
  /\ election' = "up" /\ Goes(c, "over")
  /\ UNCHANGED <<started, group, master, roster, returned, lone>>

(* The socket or the key cannot be had, the announcement throws, or the    *)
(* coordinator does not start.                                             *)
Fails(c) ==
  /\ call[c] \in {"starting", "announcing", "grouped"}
  /\ Goes(c, "failed")
  /\ group' = IF call[c] = "starting" THEN "down" ELSE group
  /\ UNCHANGED <<started, election, master, roster, returned, lone>>

Elected == election = "up" /\ master' = ~master
           /\ UNCHANGED <<call, started, group, election, roster, returned, lone>>

(* The operator joins, leaves, or is removed by another member.            *)
RosterChanges ==
  /\ roster' \in {"no member", "removed", "on it"}
  /\ UNCHANGED <<call, started, group, election, master, returned, lone>>

Next ==
  \/ \E c \in Starts : StartCluster(c) \/ GroupUp(c) \/ Returned(c) \/ ElectionUp(c) \/ Fails(c)
  \/ Elected \/ RosterChanges

Spec == Init /\ [][Next]_vars

-----------------------------------------------------------------------------
(* The election never coordinates over a group that has not loaded its     *)
(* key, and nobody replicates as master before it ran - as long as no call *)
(* of startCluster comes before an earlier one has succeeded.              *)
ElectionOverGroup ==
  /\ lone /\ election = "up" => group = "up"
  /\ master => election = "up"

=============================================================================
