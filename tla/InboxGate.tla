----------------------------- MODULE InboxGate -----------------------------
(***************************************************************************)
(* The lifecycle of one inbox provider's polling: the surface's bootstrap  *)
(* and teardown and the start/stop control handed to the leadership gate   *)
(* (daemon/handlers/inbox/index.ts), the poller's interval loop            *)
(* (inbox/poller.ts), and the opening and closing of the cursor store with *)
(* its retention timer (inbox/cursor-store.ts).                            *)
(*                                                                         *)
(* The cluster coordinator, which is not part of this repository, may call *)
(* start and stop whenever leadership changes, a stop while a start is     *)
(* still pending included.                                                 *)
(***************************************************************************)
EXTENDS Naturals, FiniteSets

CONSTANTS
  Starts,  \* calls of the control's start
  Tick,    \* the interval timer as the one that polls
  None

ASSUME GateAssumption == Tick \notin Starts /\ None \notin Starts

VARIABLES
  boot,       \* the store's init, which the promise ready follows
  open,       \* the database is open
  sweepTimer, \* the retention timer is armed
  closing,    \* the store's close
  timer,      \* the provider's interval loop is armed
  released,   \* the poller was stopped for good
  inFlight,   \* the poller's mark that a poll is under way
  polling,    \* who has a poll under way
  start,      \* where each start call is
  wanted      \* the gate's last request: a start call, or None for stop

storeVars == <<boot, open, sweepTimer, closing>>
pollVars == <<timer, inFlight, polling>>
vars == <<storeVars, pollVars, released, start, wanted>>

Init ==
  /\ boot = "opening"
  /\ open = FALSE
  /\ sweepTimer = FALSE
  /\ closing = "no"
  /\ timer = FALSE
  /\ released = FALSE
  /\ inFlight = FALSE
  /\ polling = {}
  /\ start = [s \in Starts |-> "none"]
  /\ wanted = None

-----------------------------------------------------------------------------
(* store.init: the database opens, or the bootstrap has failed.            *)
OpenStore(ok) ==
  /\ boot = "opening"
  /\ boot' = IF ok THEN "sweeping" ELSE "settled"
  /\ open' = ok
  /\ UNCHANGED <<sweepTimer, closing, pollVars, released, start, wanted>>

ArmedAnyway == TRUE  \* bug: the timer is armed without a look at closed
ArmedSweepTimer == closing = "no"

(* The sweep at init is over and the retention timer armed, unless close   *)
(* has been called in the meantime.                                        *)
BootEnds ==
  /\ boot = "sweeping"
  /\ boot' = "settled"
  /\ sweepTimer' = ArmedSweepTimer
  /\ UNCHANGED <<open, closing, pollVars, released, start, wanted>>

-----------------------------------------------------------------------------
(* startProvider: nothing once released, or while the loop is armed.       *)
ArmProvider == timer \/ ~released

(* The control's start waits for ready; the coordinator is not told of a   *)
(* release and may still call it.                                          *)
CallStart(s) ==
  /\ start[s] = "none"
  /\ start' = [start EXCEPT ![s] = "waiting"]
  /\ wanted' = s
  /\ UNCHANGED <<storeVars, pollVars, released>>

(* An overlapping poll is skipped.                                         *)
AlwaysPolls == FALSE  \* bug: no check for a poll under way
Overlaps == inFlight

(* The seed poll: skipped when it overlaps another, otherwise under way    *)
(* once the cursor is read.  Without a database that read throws, before   *)
(* the try whose finally clears the mark.                                  *)
ArmedAfterSkip == ArmProvider
NoAnswer == "waiting"  \* bug: a skipped poll answers nobody
AnswerAfterSkip == "done"

SeedSkipped(s) ==
  /\ start[s] = "waiting" /\ boot = "settled"
  /\ Overlaps
  /\ timer' = ArmedAfterSkip
  /\ start' = [start EXCEPT ![s] = AnswerAfterSkip]
  /\ UNCHANGED <<storeVars, inFlight, polling, released, wanted>>

Seed(s) ==
  /\ start[s] = "waiting" /\ boot = "settled"
  /\ ~Overlaps
  /\ inFlight' = TRUE
  /\ IF open
     THEN polling' = polling \cup {s} /\ start' = [start EXCEPT ![s] = "seeding"]
     ELSE start' = [start EXCEPT ![s] = "rejected"] /\ UNCHANGED polling
  /\ UNCHANGED <<storeVars, timer, released, wanted>>

(* The seed poll ends, well or not, and the loop is armed.                 *)
SeedEnds(s) ==
  /\ s \in polling
  /\ polling' = polling \ {s}
  /\ inFlight' = FALSE
  /\ timer' = ArmProvider
  /\ start' = [start EXCEPT ![s] = "done"]
  /\ UNCHANGED <<storeVars, released, wanted>>

(* The control's stop clears the interval, if there is one.                *)
CallStop ==
  /\ wanted # None
  /\ timer' = FALSE
  /\ wanted' = None
  /\ UNCHANGED <<storeVars, inFlight, polling, released, start>>

(* The interval fires.                                                     *)
TickPolls ==
  /\ timer
  /\ ~Overlaps
  /\ Tick \notin polling
  /\ inFlight' = TRUE
  /\ polling' = IF open THEN polling \cup {Tick} ELSE polling
  /\ UNCHANGED <<storeVars, timer, released, start, wanted>>

TickEnds ==
  /\ Tick \in polling
  /\ polling' = polling \ {Tick}
  /\ inFlight' = FALSE
  /\ UNCHANGED <<storeVars, timer, released, start, wanted>>

-----------------------------------------------------------------------------
(* The surface is unregistered: the poller is released and the store's     *)
(* close called, which flushes first.                                      *)
Unregister ==
  /\ ~released
  /\ released' = TRUE
  /\ timer' = FALSE
  /\ closing' = "flushing"
  /\ sweepTimer' = FALSE
  /\ UNCHANGED <<boot, open, inFlight, polling, start, wanted>>

CloseStore ==
  /\ closing = "flushing"
  /\ closing' = "done"
  /\ open' = FALSE
  /\ UNCHANGED <<boot, sweepTimer, pollVars, released, start, wanted>>

StartStep(s) == SeedSkipped(s) \/ Seed(s) \/ SeedEnds(s)

Next ==
  \/ \E ok \in BOOLEAN : OpenStore(ok)
  \/ BootEnds
  \/ \E s \in Starts : CallStart(s) \/ StartStep(s)
  \/ CallStop
  \/ TickPolls \/ TickEnds
  \/ Unregister \/ CloseStore

Spec == Init /\ [][Next]_vars

(* What is awaited settles: the bootstrap, the polls, the flush of close.  *)
Fairness ==
  /\ WF_vars(\E ok \in BOOLEAN : OpenStore(ok))
  /\ WF_vars(BootEnds)
  /\ \A s \in Starts : WF_vars(StartStep(s))
  /\ WF_vars(TickEnds)
  /\ WF_vars(CloseStore)

FairSpec == Spec /\ Fairness
-----------------------------------------------------------------------------
(* Type invariant.                                                         *)
TypeOK ==
  /\ boot \in {"opening", "sweeping", "settled"}
  /\ open \in BOOLEAN /\ sweepTimer \in BOOLEAN /\ timer \in BOOLEAN
  /\ released \in BOOLEAN /\ inFlight \in BOOLEAN
  /\ closing \in {"no", "flushing", "done"}
  /\ polling \in SUBSET (Starts \cup {Tick})
  /\ start \in [Starts -> {"none", "waiting", "seeding", "done", "rejected"}]
  /\ wanted \in Starts \cup {None}

(* Once the surface is released no timer is armed again, not by a start    *)
(* and not by a bootstrap that was already in flight (poller.ts:68-75,     *)
(* cursor-store.ts:152-160).                                               *)
NothingArmedAfterRelease == released => ~timer /\ ~sweepTimer

(* The account is read by one poll at a time, seeds and ticks together.    *)
OnePollAtATime == Cardinality(polling) <= 1

(* A start that resolved has the loop running until the gate takes the     *)
(* account away or the surface is released (index.ts:57-62).               *)
StartedIsPolling ==
  wanted # None /\ ~released =>
     (start[wanted] = "done" => timer)

(* A start call is answered, one way or the other.                         *)
EveryStartSettles ==
  \A s \in Starts : (start[s] = "waiting") ~> (start[s] \in {"done", "rejected"})

(* After a stop, and until the next start, the loop is not armed           *)
(* (inbox/index.ts:60-61, 185-189).  A start that was pending arms it.     *)
StopDisarms == wanted = None => ~timer

(* A started account is polled, by one poll at a time (poller.ts:109-198,  *)
(* inbox/index.ts).                                                        *)
GateIsKept == TypeOK /\ OnePollAtATime /\ StartedIsPolling
=============================================================================
