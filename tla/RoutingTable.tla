---------------------------- MODULE RoutingTable ----------------------------
(***************************************************************************)
(* Channel routing: the assignments of daemon/handlers/routing/            *)
(* route-store.ts, the handlers of routing/index.ts that change them, and  *)
(* the resolution of routing-resolver.ts that the inbox asks for every     *)
(* item through inbox-bridge.ts.                                           *)
(*                                                                         *)
(* A channel id is the sequence of its parts between colons: the first is  *)
(* the surface, the others are the route; Blank is a part of no characters.*)
(***************************************************************************)
EXTENDS Naturals, FiniteSets, Sequences

CONSTANTS
  Surfaces,    \* kinds of surface, Any among them
  Any,         \* WILDCARD_SURFACE
  RouteIds,
  Profiles,
  Callers,     \* calls of assign and delete that may be in flight
  MaxAssigned, \* bound of the model: assignments ever made
  Blank, None

VARIABLES
  opening,   \* initPromise: "none", "pending", "open", and "closed"
  routes,    \* the table in memory
  onFile,    \* the table on disk
  nextId,
  call       \* what each call waits for

vars == <<opening, routes, onFile, nextId, call>>

ChannelIds == {<<s>> : s \in Surfaces \cup {Blank}}
              \cup {<<s, r>> : s \in Surfaces, r \in RouteIds \cup {Blank}}
Routes == [id: 1..MaxAssigned, surface: Surfaces, route: RouteIds \cup {None},
           profile: Profiles]
Idle == [at |-> "idle", id |-> 0]

(* parseChannelId: a trailing colon is no route.                           *)
RouteOf(channelId) ==
  IF Len(channelId) = 1 \/ channelId[2] = Blank THEN None ELSE channelId[2]
Refused(channelId) == channelId[1] = Blank
BuildChannelId(surface, route) == IF route = None THEN <<surface>> ELSE <<surface, route>>

Init ==
  /\ opening = "none"
  /\ routes = {}
  /\ onFile = {}
  /\ nextId = 1
  /\ call = [c \in Callers |-> Idle]

-----------------------------------------------------------------------------
(* resolveProfile takes the first route found by each of its three rules.  *)
Wildcard(r) == r.surface = Any /\ r.route = None
SurfaceOnly(r, surface) == r.surface = surface /\ r.route = None
Exact(r, surface, route) == route # None /\ r.surface = surface /\ r.route = route
AProfile(matches) == (CHOOSE r \in matches : TRUE).profile

ResolveProfile(surface, route) ==
  LET exact == {r \in routes : Exact(r, surface, route)}
      surfaceOnly == {r \in routes : SurfaceOnly(r, surface)}
      wildcard == {r \in routes : Wildcard(r)}
  IN IF exact # {} THEN AProfile(exact)
     ELSE IF surfaceOnly # {} THEN AProfile(surfaceOnly)
     ELSE IF wildcard # {} THEN AProfile(wildcard) ELSE None

-----------------------------------------------------------------------------
(* ensureInit: a failed init is tried again by the next call.              *)
Invoke ==
  /\ opening = "none"
  /\ opening' = "pending"
  /\ UNCHANGED <<routes, onFile, nextId, call>>

Opens ==
  /\ opening = "pending"
  /\ \/ opening' = "open" /\ routes' = onFile
     \/ opening' = "none" /\ UNCHANGED routes
  /\ UNCHANGED <<onFile, nextId, call>>

Accepted(c) == opening = "open" /\ call[c].at = "idle"
Saving(c, id) == call' = [call EXCEPT ![c] = [at |-> "saving", id |-> id]]

(* upsert up to the await of its save: the existing row is updated, under  *)
(* its id, or one is inserted.                                             *)
Changed(existing, profile) == [existing EXCEPT !.profile = profile, !.id = nextId]  \* bug: a new id
Updated(existing, profile) == [existing EXCEPT !.profile = profile]
Assign(c, channelId, profile) ==
  /\ Accepted(c) /\ ~Refused(channelId)
  /\ LET surface == channelId[1]
         route == RouteOf(channelId)
         existing == {r \in routes : BuildChannelId(r.surface, r.route) = BuildChannelId(surface, route)}
     IN IF existing # {}
        THEN \E r \in existing :
               /\ routes' = (routes \ {r}) \cup {Updated(r, profile)}
               /\ Saving(c, Updated(r, profile).id)
               /\ nextId' = IF Updated(r, profile).id = r.id THEN nextId ELSE nextId + 1
        ELSE /\ nextId <= MaxAssigned
             /\ routes' = routes \cup {[id |-> nextId, surface |-> surface, route |-> route,
                                        profile |-> profile]}
             /\ Saving(c, nextId)
             /\ nextId' = nextId + 1
  /\ UNCHANGED <<opening, onFile>>

Delete(c, id) ==
  /\ Accepted(c)
  /\ \E r \in routes : r.id = id /\ routes' = routes \ {r}
  /\ Saving(c, id)
  /\ UNCHANGED <<opening, onFile, nextId>>

(* The save settles, and an assign reads back the row by its id, which a   *)
(* delete may have taken; either way the call is answered.                 *)
Settles(c) ==
  /\ call[c].at = "saving"
  /\ onFile' \in {routes, onFile}
  /\ call' = [call EXCEPT ![c] = Idle]
  /\ UNCHANGED <<opening, routes, nextId>>

(* A save in flight may still reach the file.                              *)
InFlightLands == onFile' \in {onFile} \cup {routes : c \in {d \in Callers : call[d].at = "saving"}}

Close ==
  /\ opening = "open"
  /\ opening' = "closed"
  /\ routes' = {}
  /\ InFlightLands
  /\ call' = [c \in Callers |-> Idle]
  /\ UNCHANGED nextId

(* The daemon starts again.                                                *)
Restart ==
  /\ opening' = "none"
  /\ routes' = {}
  /\ InFlightLands
  /\ call' = [c \in Callers |-> Idle]
  /\ UNCHANGED nextId

Next ==
  \/ Invoke \/ Opens \/ Close \/ Restart
  \/ \E c \in Callers :
       \/ \E channelId \in ChannelIds, profile \in Profiles : Assign(c, channelId, profile)
       \/ \E id \in 1..MaxAssigned : Delete(c, id)
       \/ Settles(c)

Spec == Init /\ [][Next]_vars
-----------------------------------------------------------------------------
(* Type invariant.                                                         *)
TypeOK ==
  /\ opening \in {"none", "pending", "open", "closed"}
  /\ routes \in SUBSET Routes
  /\ onFile \in SUBSET Routes
  /\ nextId \in 1..(MaxAssigned + 1)
  /\ call \in [Callers -> [at: {"idle", "saving"}, id: 0..MaxAssigned]]

(* What resolution is for: of the assignments that cover the channel the   *)
(* one that says most about it decides, and there is never more than one   *)
(* such, whatever was assigned, deleted and loaded                         *)
(* (routing-resolver.ts:7-16).                                             *)
Weight(r) == (IF r.route # None THEN 2 ELSE 0) + (IF r.surface # Any THEN 1 ELSE 0)
Covering(surface, route) ==
  {r \in routes : /\ r.surface \in {surface, Any}
                  /\ r.route \in {route, None}
                  /\ r.surface = Any => r.route = None \/ surface = Any}
MostSpecific(surface, route) ==
  {r \in Covering(surface, route) : \A q \in Covering(surface, route) : Weight(q) <= Weight(r)}
ResolvesMostSpecific ==
  \A surface \in Surfaces, route \in RouteIds \cup {None} :
     {r.profile : r \in MostSpecific(surface, route)} =
       {ResolveProfile(surface, route)} \ {None}

(* An assignment keeps its id until it is deleted (route-store.ts:262-286).*)
SameChannel(r, q) == r.surface = q.surface /\ r.route = q.route
IdsAreStable ==
  [][opening = "open" /\ opening' = "open" =>
       \A r \in routes, q \in routes' : SameChannel(r, q) => r.id = q.id]_vars
=============================================================================
