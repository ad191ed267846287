----------------------------- MODULE InboxFeed -----------------------------
(***************************************************************************)
(* How one provider's messages reach the persisted inbox: the poller       *)
(* (daemon/handlers/inbox/poller.ts), an adapter that asks the provider's  *)
(* channels one after the other (inbox/providers/slack.ts, discord.ts),    *)
(* and the cursor store (inbox/cursor-store.ts) that keeps items and       *)
(* cursor in one database and writes it out whole.                         *)
(*                                                                         *)
(* A message is its receivedAt: messages are numbered as they are posted.  *)
(* Each await of the adapter and of the store's save ends a step, and the  *)
(* retention sweep runs on a timer of its own in between.                  *)
(***************************************************************************)
EXTENDS Naturals, FiniteSets, FiniteSetsExt

CONSTANTS
  Channels,   \* the channels of the account
  Limit,      \* perProviderLimit, items a poll may return
  PageSize,   \* messages on a page of a channel's history
  ItemCap,    \* INBOX_ITEM_CAP
  MaxPosted,  \* bound of the model: messages ever posted
  MaxCrashes, \* bound of the model: restarts of the daemon
  Unposted    \* no channel

ASSUME FeedAssumption ==
  /\ {Limit, PageSize, ItemCap, MaxPosted, MaxCrashes} \subseteq Nat \ {0}
  /\ Unposted \notin Channels

Messages == 1..MaxPosted
Savers == {"poll", "sweep"}

VARIABLES
  channelOf,  \* the channel each message was posted to, once it was
  expired,    \* messages up to this one are past the retention
  db,         \* items and cursor in memory
  file,       \* items and cursor on disk
  dirty,
  poll,       \* the poll in flight
  saves,      \* the save of the poll's flush, and of the sweep's
  reclaimed,  \* items the retention has deleted
  crashes

feedVars == <<channelOf, expired, db, file, dirty, poll, saves, reclaimed, crashes>>

Snapshot == [items: SUBSET Messages, cursor: 0..MaxPosted]
EmptyFeed == [items |-> {}, cursor |-> 0]
NoPoll == [at |-> "idle", since |-> 0, left |-> {}, batch |-> {}]
NoSave == [at |-> "idle", data |-> EmptyFeed]

Posted == {m \in Messages : channelOf[m] # Unposted}

FeedInit ==
  /\ channelOf = [m \in Messages |-> Unposted]
  /\ expired = 0
  /\ db = EmptyFeed
  /\ file = EmptyFeed
  /\ dirty = FALSE
  /\ poll = NoPoll
  /\ saves = [s \in Savers |-> NoSave]
  /\ reclaimed = {}
  /\ crashes = 0

(* Somebody writes to the account.                                         *)
Post(channel) ==
  /\ Posted # Messages
  /\ channelOf' = [channelOf EXCEPT ![Cardinality(Posted) + 1] = channel]
  /\ UNCHANGED <<expired, db, file, dirty, poll, saves, reclaimed, crashes>>

-----------------------------------------------------------------------------
(* pollProvider, up to the adapter's first await; an overlapping tick is   *)
(* skipped.                                                                *)
PollStarts ==
  /\ poll.at = "idle"
  /\ poll' = [at |-> "fetching", since |-> db.cursor, left |-> Channels, batch |-> {}]
  /\ UNCHANGED <<channelOf, expired, db, file, dirty, saves, reclaimed, crashes>>

(* What a channel holds beyond the poll's cursor, and the newest of it.    *)
Unseen(channel) == {m \in Posted : channelOf[m] = channel /\ m > poll.since}
Newest(n, set) == {m \in set : Cardinality({k \in set : k > m}) < n}

(* The history of one channel, newest first, until the poll's budget is    *)
(* spent.  A page that fails ends the channel with the pages before it;    *)
(* the poll goes on with the others.                                       *)
FetchChannel(channel, pages) ==
  /\ poll.at = "fetching"
  /\ channel \in poll.left
  /\ poll' = [poll EXCEPT
        !.left = @ \ {channel},
        !.batch = @ \cup Newest(Min({pages * PageSize, Limit - Cardinality(poll.batch)}),
                                Unseen(channel))]
  /\ UNCHANGED <<channelOf, expired, db, file, dirty, saves, reclaimed, crashes>>

(* The provider is unavailable: nothing is stored, the cursor stays.       *)
PollFails ==
  /\ poll.at = "fetching"
  /\ poll' = NoPoll
  /\ UNCHANGED <<channelOf, expired, db, file, dirty, saves, reclaimed, crashes>>

(* Where the cursor stands after a poll: the newest of what it returned.   *)
CursorAtPollTime == Cardinality(Posted)  \* bug: the time of the poll
NextCursor == Max(poll.batch \cup {poll.since, db.cursor})

(* upsertItems and advanceCursor, in one span, up to the flush's await.    *)
Store ==
  /\ poll.at = "fetching" /\ poll.left = {}
  /\ db' = [items |-> db.items \cup poll.batch, cursor |-> NextCursor]
  /\ dirty' = (dirty \/ poll.batch # {})
  /\ IF dirty'
     THEN /\ saves' = [saves EXCEPT !["poll"] = [NoSave EXCEPT !.at = "mkdir"]]
          /\ poll' = [NoPoll EXCEPT !.at = "flushing"]
     ELSE poll' = NoPoll /\ UNCHANGED saves
  /\ UNCHANGED <<channelOf, expired, file, reclaimed, crashes>>

-----------------------------------------------------------------------------
Expire ==
  /\ expired < Cardinality(Posted)
  /\ expired' = expired + 1
  /\ UNCHANGED <<channelOf, db, file, dirty, poll, saves, reclaimed, crashes>>

(* What a sweep keeps: by age first, then by count.                        *)
Young(items) == {m \in items : m > expired}
OldestKept(items) == {m \in Young(items) : Cardinality({k \in Young(items) : k < m}) < ItemCap}  \* bug: ASC
Kept(items) == Newest(ItemCap, Young(items))

(* runSweep: nothing more when nothing is reclaimed.                       *)
Sweep ==
  /\ saves["sweep"].at = "idle"
  /\ Kept(db.items) # db.items
  /\ db' = [db EXCEPT !.items = Kept(@)]
  /\ reclaimed' = reclaimed \cup (db.items \ Kept(db.items))
  /\ dirty' = TRUE
  /\ saves' = [saves EXCEPT !["sweep"] = [NoSave EXCEPT !.at = "mkdir"]]
  /\ UNCHANGED <<channelOf, expired, file, poll, crashes>>

-----------------------------------------------------------------------------
(* save: the export follows the await of mkdir.                            *)
Export(s) ==
  /\ saves[s].at = "mkdir"
  /\ saves' = [saves EXCEPT ![s] = [at |-> "exported", data |-> db]]
  /\ UNCHANGED <<channelOf, expired, db, file, dirty, poll, reclaimed, crashes>>

Ends(s) ==
  /\ saves' = [saves EXCEPT ![s] = NoSave]
  /\ poll' = IF s = "poll" THEN NoPoll ELSE poll

(* The rename lands, and flush clears the flag.                            *)
Saved(s) ==
  /\ saves[s].at = "exported"
  /\ file' = saves[s].data
  /\ dirty' = FALSE
  /\ Ends(s)
  /\ UNCHANGED <<channelOf, expired, db, reclaimed, crashes>>

SaveFails(s) ==
  /\ saves[s].at # "idle"
  /\ Ends(s)
  /\ UNCHANGED <<channelOf, expired, db, file, dirty, reclaimed, crashes>>

(* The daemon dies and comes back with what the file holds.                *)
Restart ==
  /\ crashes < MaxCrashes
  /\ crashes' = crashes + 1
  /\ db' = file
  /\ dirty' = FALSE
  /\ poll' = NoPoll
  /\ saves' = [s \in Savers |-> NoSave]
  /\ UNCHANGED <<channelOf, expired, file, reclaimed>>

Fetches == \E channel \in Channels : \E pages \in 0..MaxPosted : FetchChannel(channel, pages)
FetchesAll == \E channel \in Channels : FetchChannel(channel, MaxPosted)

FeedNext ==
  \/ \E channel \in Channels : Post(channel)
  \/ PollStarts \/ Fetches \/ PollFails \/ Store
  \/ Expire \/ Sweep
  \/ \E s \in Savers : Export(s) \/ Saved(s) \/ SaveFails(s)
  \/ Restart

FeedSpec == FeedInit /\ [][FeedNext]_feedVars

(* The interval timer starts polls, and file operations settle.  What is   *)
(* asked of the provider is that the polls that reach it are not all cut   *)
(* short: again and again one answers in full, and one that had something  *)
(* to report gets through to its end.                                      *)
FeedFairness ==
  /\ WF_feedVars(PollStarts)
  /\ SF_feedVars(FetchesAll)
  /\ SF_feedVars(Store /\ poll.batch # {})
  /\ WF_feedVars(Store)
  /\ \A s \in Savers : WF_feedVars(Export(s) \/ Saved(s) \/ SaveFails(s))

FairFeedSpec == FeedSpec /\ FeedFairness
-----------------------------------------------------------------------------
(* Type invariant.                                                         *)
FeedTypeOK ==
  /\ channelOf \in [Messages -> Channels \cup {Unposted}]
  /\ expired \in 0..MaxPosted
  /\ db \in Snapshot
  /\ file \in Snapshot
  /\ dirty \in BOOLEAN
  /\ poll \in [at: {"idle", "fetching", "flushing"}, since: 0..MaxPosted,
               left: SUBSET Channels, batch: SUBSET Messages]
  /\ saves \in [Savers -> [at: {"idle", "mkdir", "exported"}, data: Snapshot]]
  /\ reclaimed \in SUBSET Messages
  /\ crashes \in 0..MaxCrashes

(* The cursor, in memory and in any file a restart may load, never passes  *)
(* a message that did not reach the feed: what it passed is stored or was  *)
(* reclaimed by the retention.                                             *)
Covers(feed) == \A m \in Posted : m <= feed.cursor => m \in feed.items \cup reclaimed
NothingSkipped == Covers(db) /\ Covers(file)

(* A sweep deletes an item before its time only when the newer ones alone  *)
(* fill the cap (cursor-store.ts:239-243).                                 *)
SweepKeepsNewest ==
  [][crashes' = crashes =>
       \A m \in db.items \ db'.items :
          \/ m <= expired
          \/ Cardinality({k \in db'.items : k > m}) = ItemCap]_feedVars

(* Every message posted is in the feed at some time, or came and went.     *)
EveryMessageArrives ==
  \A m \in Messages : (m \in Posted) ~> (m \in db.items \cup reclaimed)

(* The feed keeps what it should: the cursor passes nothing the feed has   *)
(* not had, and a sweep keeps the newest (poller.ts, cursor-store.ts).     *)
FeedIsKept == [](FeedTypeOK /\ NothingSkipped) /\ SweepKeepsNewest
=============================================================================
