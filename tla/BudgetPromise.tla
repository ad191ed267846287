--------------------------- MODULE BudgetPromise ---------------------------
(***************************************************************************)
(* What a durable daily budget promises, with no file and no process in    *)
(* it: purchases take a place in a pool of Limit places, a place whose     *)
(* purchase was charged is given back only once its time has expired, and  *)
(* a restart may bring places back but never more than the pool has.       *)
(***************************************************************************)
EXTENDS Naturals, FiniteSets

CONSTANTS Purchases, Limit

VARIABLES
  counted,  \* purchases that hold a place in the pool
  charged,  \* purchases the merchant was paid for
  expired   \* purchases whose reservation is past its TTL

Init == counted = {} /\ charged = {} /\ expired = {}

(* A new purchase takes a place.                                           *)
Hold(p) ==
  /\ p \notin counted \cup charged
  /\ Cardinality(counted) < Limit
  /\ counted' = counted \cup {p}
  /\ UNCHANGED <<charged, expired>>

(* The merchant is paid, for a purchase that holds a place or let it run out. *)
Charge(p) ==
  /\ p \in counted \cup expired
  /\ charged' = charged \cup {p}
  /\ UNCHANGED <<counted, expired>>

Expire(p) ==
  /\ expired' = expired \cup {p}
  /\ UNCHANGED <<counted, charged>>

(* Places are given back: uncharged ones, or expired ones.                 *)
Free(places) ==
  /\ places \subseteq counted
  /\ places \cap charged \subseteq expired
  /\ counted' = counted \ places
  /\ UNCHANGED <<charged, expired>>

(* A restart finds places that had been given back.                        *)
Revive(places) ==
  /\ counted' = counted \cup places
  /\ Cardinality(counted') <= Limit
  /\ UNCHANGED <<charged, expired>>

Next ==
  \/ \E p \in Purchases : Hold(p) \/ Charge(p) \/ Expire(p)
  \/ \E places \in SUBSET Purchases : Free(places) \/ Revive(places)

Spec == Init /\ [][Next]_<<counted, charged, expired>>
=============================================================================
