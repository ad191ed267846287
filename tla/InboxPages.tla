----------------------------- MODULE InboxPages -----------------------------
(***************************************************************************)
(* channels.inbox.list (daemon/handlers/inbox/aggregator.ts): one reader   *)
(* walks the pages of the mirror while polls insert and refresh items and  *)
(* the retention deletes them.  Each page names every provider's standing, *)
(* which is the poller's last word on it and the mirror's count.           *)
(*                                                                         *)
(* An item's id is a number, ids compare as numbers, and receivedAt is     *)
(* what the provider says it is: equal ones happen, and so do old ones     *)
(* that arrive late.                                                       *)
(***************************************************************************)
EXTENDS Naturals, FiniteSets, FiniteSetsExt

CONSTANTS
  Providers,   \* the adapters of this node
  Stranger,    \* a provider this node has no adapter for
  Ids,         \* items a poll may bring
  MaxTime,     \* bound of the model: the largest receivedAt
  MaxChanges,  \* bound of the model: writes to the mirror and failed polls
  None

VARIABLES
  mirror,    \* the items table
  cursor,    \* nextSince of each provider
  status,    \* the poller's statuses
  changes,
  reader,    \* the walk: what is asked for, the position, what was handed out
  steady,    \* items that matched all through the walk, unchanged
  page       \* the last answer

vars == <<mirror, cursor, status, changes, reader, steady, page>>

Times == 1..MaxTime
Item == [provider : Providers, at : Times]
Status == [state : {"empty", "ready", "unavailable"}, configured : {"yes", "no", "unsaid"},
           polled : BOOLEAN]
Query == [only : {None, Stranger} \cup Providers, since : 0..MaxTime, limit : 1..2]
NoReader == [query |-> None, after |-> None, got |-> [i \in Ids |-> 0]]
NoPage == [total |-> 0, partial |-> FALSE, more |-> FALSE, states |-> {}, failing |-> {}]

Init ==
  /\ mirror = [i \in Ids |-> None]
  /\ cursor = [p \in Providers |-> 0]
  /\ status = [p \in Providers |-> [state |-> "empty", configured |-> "unsaid", polled |-> FALSE]]
  /\ changes = 0
  /\ reader = NoReader
  /\ steady = {}
  /\ page = NoPage

Present == {i \in Ids : mirror[i] # None}
Change == changes < MaxChanges /\ changes' = changes + 1
(* What becomes of the walk's items when the mirror becomes `table'.       *)
Watch(table) == steady' = {i \in steady : table[i] = mirror[i]}

-----------------------------------------------------------------------------
(* pollProvider's end.  A poll that is not unavailable stores what it      *)
(* brought from beyond its cursor, new items and refreshed ones (ON        *)
(* CONFLICT(id) DO UPDATE), and the cursor goes to the newest.             *)
PollBrings(p, batch) ==
  /\ Change
  /\ DOMAIN batch # {}
  /\ \A i \in DOMAIN batch : /\ batch[i] > cursor[p]
                              /\ i \in Present => mirror[i].provider = p
  /\ mirror' = [i \in Ids |-> IF i \in DOMAIN batch
                             THEN [provider |-> p, at |-> batch[i]] ELSE mirror[i]]
  /\ cursor' = [cursor EXCEPT ![p] = Max({batch[i] : i \in DOMAIN batch})]
  /\ Watch(mirror')
  /\ status' = [status EXCEPT ![p] = [state |-> "ready", configured |-> "yes", polled |-> TRUE]]
  /\ UNCHANGED <<reader, page>>

PollIsQuiet(p) ==
  /\ Change
  /\ status' = [status EXCEPT ![p] = [state |-> "empty", configured |-> "yes", polled |-> TRUE]]
  /\ UNCHANGED <<mirror, cursor, reader, steady, page>>

(* No credential; or a failure with credentials; or a credential store     *)
(* that failed itself, which says nothing of them.                         *)
PollFails(p, configured) ==
  /\ Change
  /\ status' = [status EXCEPT ![p] =
                  [state |-> "unavailable", configured |-> configured, polled |-> TRUE]]
  /\ UNCHANGED <<mirror, cursor, reader, steady, page>>

(* The retention sweep deletes the oldest.                                 *)
Sweep(t) ==
  /\ Change
  /\ mirror' = [i \in Ids |-> IF i \in Present /\ mirror[i].at < t THEN None ELSE mirror[i]]
  /\ mirror' # mirror
  /\ Watch(mirror')
  /\ UNCHANGED <<cursor, status, reader, page>>

-----------------------------------------------------------------------------
(* filterClause.                                                           *)
Matching(query) ==
  {i \in Present : /\ query.only \in {None, mirror[i].provider}
                   /\ mirror[i].at > query.since}

(* ORDER BY receivedAt DESC, id ASC, and what is strictly after a position *)
(* in that order.                                                          *)
Before(a, i, b, j) == a > b \/ (a = b /\ i < j)
AfterTime(position, i) == position = None \/ mirror[i].at < position.at  \* bug: ties are dropped
After(position, i) == position = None \/ Before(position.at, position.id, mirror[i].at, i)

Rows(query, position) == {i \in Matching(query) : After(position, i)}
FirstOf(n, rows) ==
  {i \in rows : Cardinality({j \in rows : Before(mirror[j].at, j, mirror[i].at, i)}) < n}
LastOf(rows) ==
  CHOOSE i \in rows : \A j \in rows \ {i} : Before(mirror[j].at, j, mirror[i].at, i)

(* listItems with a row beyond the page: hasMore is what the store holds.  *)
HasMore(query, fetched) == Cardinality(fetched) > query.limit

(* wireState: the poller's state, and whether the mirror has any item.     *)
WireState(p, stored) ==
  CASE ~status[p].polled -> "pending"
    [] status[p].polled /\ status[p].state = "unavailable" ->
         IF status[p].configured = "no" THEN "unconfigured" ELSE "error"
    [] OTHER -> IF stored > 0 THEN "ready" ELSE "empty"

(* describeProviders: the known ones, and a requested one that is not.     *)
Stored(query, p) == Cardinality({i \in Matching(query) : mirror[i].provider = p})
Reported(query) == IF query.only = None THEN Providers ELSE Providers \cap {query.only}
Described(query) ==
  {[provider |-> p, state |-> WireState(p, Stored(query, p))] : p \in Reported(query)}
    \cup (IF query.only = Stranger
          THEN {[provider |-> Stranger, state |-> "unconfigured"]} ELSE {})

(* aggregateInbox: no await, so a page is one step.                        *)
Answer(query, position, got) ==
  LET fetched == FirstOf(query.limit + 1, Rows(query, position))
      items == FirstOf(query.limit, fetched)
      states == Described(query)
  IN /\ page' = [total |-> Cardinality(Matching(query)),
                 partial |-> \E s \in states : s.state = "error",
                 more |-> HasMore(query, fetched),
                 states |-> states,
                 failing |-> {p \in Reported(query) : /\ status[p].state = "unavailable"
                                                      /\ status[p].configured # "no"}]
     /\ reader' =
          [query |-> query,
           after |-> IF items = {} THEN position
                     ELSE [at |-> mirror[LastOf(items)].at, id |-> LastOf(items)],
           got |-> [i \in Ids |-> IF i \in items THEN got[i] + 1 ELSE got[i]]]

FirstPage(query) ==
  /\ reader = NoReader
  /\ Answer(query, None, NoReader.got)
  /\ steady' = Matching(query)
  /\ UNCHANGED <<mirror, cursor, status, changes>>

NextPage ==
  /\ page.more
  /\ Answer(reader.query, reader.after, reader.got)
  /\ UNCHANGED <<mirror, cursor, status, changes, steady>>

(* The reader is done, or gives up; another walk may begin.                *)
Leave ==
  /\ reader # NoReader
  /\ reader' = NoReader
  /\ page' = NoPage
  /\ steady' = {}
  /\ UNCHANGED <<mirror, cursor, status, changes>>

Next ==
  \/ \E p \in Providers : \/ \E some \in SUBSET Ids : \E batch \in [some -> Times] : PollBrings(p, batch)
                          \/ PollIsQuiet(p)
                          \/ \E c \in {"yes", "no", "unsaid"} : PollFails(p, c)
  \/ \E t \in Times : Sweep(t)
  \/ \E query \in Query : FirstPage(query)
  \/ NextPage \/ Leave

Spec == Init /\ [][Next]_vars
-----------------------------------------------------------------------------
(* Type invariant.                                                         *)
TypeOK ==
  /\ mirror \in [Ids -> Item \cup {None}]
  /\ cursor \in [Providers -> 0..MaxTime]
  /\ status \in [Providers -> Status]
  /\ changes \in 0..MaxChanges
  /\ reader = NoReader \/ reader.query \in Query
  /\ \A i \in Ids : reader.got[i] \in Nat
  /\ steady \in SUBSET Ids
  /\ {page.partial, page.more} \subseteq BOOLEAN

(* A walk that came to its last page handed out every item that matched    *)
(* all through it, whatever was stored, refreshed and deleted meanwhile,   *)
(* and no such item twice (cursor-store.ts:117-123).                       *)
PagesMissNothing ==
  reader # NoReader =>
    \A i \in steady : /\ reader.got[i] <= 1
                      /\ ~page.more => reader.got[i] = 1

(* An answer that says it is complete hides no outage: each provider it    *)
(* covers was last heard from, was never asked, or has nothing configured  *)
(* (aggregator.ts:28-38).                                                  *)
OutagesAreSaid ==
  /\ page.failing # {} => page.partial
  /\ \A s \in page.states : s.provider \in page.failing <=> s.state = "error"
=============================================================================
