# A formal model of goodvibes-daemon

TLA+ modules for the parts of the GoodVibes daemon that keep state across
awaits, failures and restarts, the TLC configurations that check them, and
TLAPS proofs of their invariants. The modules are translated from the source
(`src/src/...`); `PROJECT.json` maps every definition to its lines. What the
daemon takes from `@pellux/goodvibes-sdk` is not in the repository and appears
only as far as this repository's code relies on it, marked external in the map.

## The system

The daemon is one process per machine that composes the SDK's services and adds
handler families of its own. All handlers run on one JavaScript event loop: code
between two awaits runs undisturbed, and every await lets other calls in. That
is the unit of interleaving everywhere below: one step is one synchronous span.
The same program, given another word on its command line, is a command: it asks
a running daemon something, edits the settings, sends a message or changes the
host's service units, and exits.

| Component | State | Operations | Hard about it | What makes it correct |
| --- | --- | --- | --- | --- |
| Daily budget (`payments/budget-store.ts`) | spend records and reservations in memory, a JSON file, a missed-write flag | reserve, commit, release, sweep, load, prune | each write may fail differently; crash before a retry; expiry against commit | a charged purchase keeps counting; the limit holds in memory and after a restart |
| Owner approvals (`payments/approval-store.ts`) | a bounded list and its file | grant, take, pendingCount, load | eviction with a rollback; take before a crash | spent once; a restart changes nothing; only the next to expire is evicted |
| Checkout journal (`payments/checkout-journal-store.ts`) | purchase to phase, and its file | put, remove, list, load | put throws, remove only logs | a submit that may have happened is on file |
| Checkout handlers (`payments/checkout-handlers.ts`) | a gate cell, one service with its page registry, the browser seam | approve, begin, fillCard | one cell for concurrent calls; spent approval, then a refusal or a crash | every purchase was approved, decided on its own facts, one per page |
| Cards (`payments/card-store.ts`) | a metadata row per card, material in the secret tier | create, remove, list, read | an await per field, failing deletes, damaged file, stale rows | no material without a row, no half card reported as created |
| Payments verbs and purchase ledger (`payments/register.ts`, `purchase-ledger.ts`) | the catalog's slots, a JSON file | register, attach, unregister, record, list | the SDK attaches a beat later; a torn file reads as empty | the daemon's handlers end up on top; nothing after the teardown; the ledger holds what was recorded since the tear |
| SQLite base (`sqlite-store.ts`) | database in memory, file, temporary files, quarantined copies | init, run, save, close | saves overlap at three awaits; unreadable files | saved is durable; salvage is bounded and left long enough |
| Inbox (`inbox/poller.ts`, `cursor-store.ts`, `providers/`) | items and a cursor per provider, dirty flag, timers | poll, upsert, advance, sweep, flush | paging under a limit, failing pages, crash between save steps | the cursor passes nothing unseen; every message arrives |
| Inbox lifecycle (`inbox/index.ts`) | bootstrap promise, interval per provider, released and closed flags | register, start, stop, unregister | start awaits twice; stop and teardown in between | nothing armed after the release; one poll at a time |
| Inbox aggregator (`inbox/aggregator.ts`) | none; reads store and poller | list | paging over a changing feed | pages lose and repeat nothing that stayed; an outage is said |
| Drafts and their cipher (`drafts/`, `credentials.ts`) | rows over the SQLite base, cipher key | list, get, save, delete | encryption awaited between read and write; remembered rejections | every body readable under the key on file; a call is answered |
| Routing (`routing/`) | table over the SQLite base | list, assign, delete, resolve | most specific match; replaced rules | resolution agrees with its definition; ids are stable |
| Triage (`triage/`) | scores over the SQLite base; marks at the provider | run, list, apply tags | two handles on one file; retries of what may have been done | scores persist; nothing is changed unconfirmed; applied is there |
| Remote peers (`remote/`) | registry, identity files, children | register, dispatch, teardown | sweeps against writes; timeouts; children that hold their output | a running command has its key; a credential lives as long as its command |
| Cluster (`runtime/cluster-*.ts`) | group, election, roster | start, announce, elect | start called twice, failing halfway | the election runs over a loaded group |
| Boot and shutdown (`daemon/cli.ts`, `runtime/services.ts`, `disposal-wiring.ts`) | the boot's stage, owners to dispose, servers | dispatch, compose, start, signal, shut down | a signal at any stage; stops that never settle | only serve serves; a shutdown releases everything; it ends |
| Commands (`status`, `update`, `sessions`, `pair`; `cluster/`) | one process and its calls | ask, call, report | a timer against an answer; foreign frames; unparsable replies | what is reported happened |
| Settings and send (`config`, `webui`, `send/`) | settings keys, one delivery | get, set, enable, disable, send | several writes, each of which may be the last | no listener before its bundle; a message goes where it was meant |
| Hosted runs (`runtime/trust`, `hosted-session-composition.ts`, `conversation-rewind-port.ts`, `workspace-checkpointing.ts`) | a trust decision per workspace, snapshots, checkpoints | ask, decide, rewind, restore, checkpoint | late answers; a conversation that goes on | decisions are somebody's; rewinds lose nothing |
| Service units (`service-commands.ts`, `runtime/legacy-daemon-*.ts`) | two systemd units: file, link, process | service subcommands, migrate, a reconcile pass per daemon start | calls that fail or time out; passes and a subcommand interleave; crash between any two calls | a unit remains; no working daemon is stopped unattended |

Interactions: the checkout handlers call approvals, cards, budget and journal
synchronously within one begin and reach the browser through a seam filled after
registration and cleared by the shutdown; the drafts, routing, inbox and triage
stores are clients of the SQLite base; the poller writes the cursor store, the
aggregator reads both; the leadership coordinator calls the inbox control's
start and stop; a hosted run asks the trust gate before its floor lets it write.
The service subcommands and the passes of the daemons they start meet in systemd.

## The modules

| Module | Models | Uses |
| --- | --- | --- |
| `DurableBudget` | the budget ledger, its file, its failures | `BudgetPromise` by refinement |
| `BudgetPromise` | what the budget promises: a pool of places, no file, no process | |
| `OwnerApprovals` | the approval store | |
| `CheckoutJournal` | the journal's operations | |
| `Checkout` | approve and begin | extends `OwnerApprovals`, whose actions it takes, and has `CheckoutJournal` by INSTANCE |
| `CardStore` | create and remove of cards against the secret tier | |
| `SqliteStore` | saves, quarantine, close | |
| `InboxFeed` | one provider's way from account to persisted feed | |
| `InboxGate` | one provider's polling lifecycle | |
| `ServiceUnits` | the service subcommands, the migration, the reconcile pass at every start | |
| `DraftMirror`, `RoutingTable`, `InboxPages`, `TriageScores`, `TriageTags`, `RemoteRun`, `PaymentsVerbs` | one handler family each | composed by `Handlers` |
| `CommandLine` | the vocabulary, the parse and main's decision what a command line asks for | |
| `DaemonLife` | one run of the program | extends `CommandLine` |
| `DaemonCommands`, `OperatorCommands`, `HostedTrust`, `WorkspaceCheckpoints`, `ConversationRewind`, `ClusterStart` | the commands and the runtime's own compositions | with `DaemonLife`, composed by `Runtime` |
| `Handlers`, `Runtime` | the composition of their families: which one runs, the fairness, the properties | the families by INSTANCE |
| `DurableBudgetProofs`, `CardStoreProofs`, `ServiceUnitsProofs`, `SqliteStoreProofs`, `HandlersProofs`, `RuntimeProofs` | theorems about the module they are named for | |
| `CheckoutProofs`, `InboxProofs` | theorems about `OwnerApprovals` and `Checkout`, about `InboxGate` and `InboxFeed` | |
| `MCCheckout`, `MCCardStore`, `MCRuntime` | the symmetry sets, and a set of settings, of their runs; the other runs take their module as it is | |

Definitions whose comment starts with `bug:` are deliberate mistakes, none of
which any specification uses. Each stands before the definition it would
replace; with the replacement, TLC finds the property named in
`PROJECT.json` ("mutants") violated, which shows that the property looks at
that code.

### How state and actions correspond to the code

**DurableBudget.** `memory` is the ledger (`spend`, `reservations`), `file` the
JSON file, `persistPending` the field of that name. One action per method; the
flags `retried` and `wrote` are the outcomes of the two writes a call can make:
the silent retry of a missed commit (`retryPendingPersist`) and the call's own.
The calls are synchronous, so a crash is a step of its own between them. Every
purchase costs one unit and one day is followed: `Limit` counts places. `lapsed`
and `aged` are absolute expiry times passing. A purchase id is reserved once.

**OwnerApprovals.** An approval is its deed and its grant number; the
fingerprint comparison is equality of deeds. The array of the code is in grant
order whatever happens (a push at its end, a shift at its front, an unshift of
what was just shifted, filters), so it is a set here and its first element is
`Oldest`; `take` finds the first that matches,
the one of the least grant. Every approval lives five minutes, so
`Expire` takes them in grant order. `take` is three actions by its outcome:
handed out and removed from the file, removal not written and rolled back, no
match and swept.

**Checkout.** A call is the span up to `Promise.all` (refuse without a seam;
consume an approval when the caller claims to be the owner), and the span from
there to `beginCheckout`'s first await (write the cell, pass the gates, open the
page). Afterwards the SDK's flow goes through its phases as this repository
states them: journal `awaiting-window`, journal `submit-pending`, submit, remove
the record. `paidWith` remembers the approval each call spent, for the
properties only. `fillCard` is not modelled: it is one SDK call guarded by the same
registry. The seam is set once and cleared once in a process.

**CardStore.** `creating` and `removing` are the program counters of the calls.
A create writes its row, then one field per await; a remove reads the rows, then
clears one field per await, then writes the rows it read. `tangled` is a history
variable: the cards of calls that overlapped a remove. The order of the fields
is left open, which covers the code's fixed order.

**SqliteStore.** Each caller changes the database and saves it. `save` is cut at
its awaits: `Change` (up to mkdir), `Export`, `WriteTmp`, `Rename`. `Open` is
`init` from a start of the process, with the quarantine (`moved`: whether the
rename worked) and the reaping. `shared` and `broken` are history variables.

**InboxFeed.** Messages are numbered as they are posted; a number is a
`receivedAt`. `FetchChannel` is one channel's history, with the pages it got
through; `Store` is the synchronous span of upsert, cursor and the start of the
flush; the flush's save is cut at its awaits, and so is the sweep's.

**InboxGate.** `boot` is the promise `ready`; `inFlight` is the poller's mark,
`polling` who is really in a poll (the two differ when `getCursor` throws);
`wanted` is the last thing the gate asked for.

**ServiceUnits.** `pass[d]` is where daemon `d`'s reconcile pass is, named for
the systemctl call it makes next; `verb` and `step` are the subcommand and the
manager or systemctl call it makes next. A call's reply (`known`, `status`,
`error`, `ok`) and its effects (`links`, `stop`, `up`) are chosen separately: a
call that failed or timed out may have had any of them, one that succeeded had
all. `late`, `steady` and `withdrawn` are history variables. What
`PlatformServiceManager` does is taken from how its results are used here: start
is `enable --now` (`service-commands.ts:294-296`), uninstall removes the file
and neither stops nor disables (`service-commands.ts:366-370`).

**DraftMirror.** `opening` is `initPromise`, `cipher` and `load` the remembered
promise of the key and what its load has come to, `tier` the key a later process
will find. A row is the key its body is encrypted under and its `createdAt`; a
body has no other content. The save's export and rename are two steps; a save
that fails leaves its change in memory.

**RoutingTable.** A channel id is the sequence of its parts between colons, with
`Blank` for an empty one, so the parse of `a:` and `:b` is modelled by what it
does. `ResolveProfile` is the resolver's cascade; `MostSpecific` in the property
is the definition it is compared with, by weight instead of by order.

**InboxPages.** `mirror` is the items table. A poll stores an item, new or
known, with any `receivedAt`; the sweep deletes. `reader` holds the query, the
keyset position and how often each item was handed out; `steady` is the history
variable of the items that matched through the whole walk. `WireState` and
`Described` are the provider rows of an answer.

**TriageScores.** A run opens a database of its own, upserts its batch in one
transaction, saves and closes; the decorated list shares one promise and one
handle. An item's wording is two strengths; `Label` is the scorer's decision
between them.

**TriageTags.** `marks` is what the provider has. An IMAP store goes through the
phases of `imapStoreFlagOverTls`; the server may answer, refuse, say BYE, fall
silent or lose the connection after it did what was asked. A thread's tags are
read, merged and written back whole.

**RemoteRun.** `files` is the identity directories. A dispatch resolves its
reference, waits for the sweep, writes its key, starts the child; the child's
exit and the end of its output are two steps, and so are the teardown and its
sweep. `overtaken` and `leaked` are history variables: calls whose key a newer
registration removed, and files an operation that failed left behind.

**PaymentsVerbs.** A verb's slot names the registration whose handler it holds
and whether that is the SDK's or the daemon's. `SdkAttaches` is the SDK's half
of `ready`, `AttachLocal` the continuation. Three verbs stand for the five
replaced ones and one for the two that stay the SDK's; they are treated alike.
A page of the ledger is the set of its newest rows, up to the limit, and the total.

**CommandLine, DaemonLife.** A command line is a sequence of tokens; the shared
engine is modelled from the catalog's fields and the parser's tests
(`parser.ts:10-21`). `stage` is where `main` is between two awaits; a signal
before its handlers are installed kills the process. `shutdown` runs beside the
boot: a second signal is ignored, the deadline ends the process.

**DaemonCommands.** `http` and `ws` are the questions and the call of one
command; `calls` and `frames` are what the daemon has received and answered, so
that a report can be compared with what it did (`did`). A reply is a status and
what its body parses to; `Restated` is the raw routes' reader.

**OperatorCommands.** `plan` is the list of writes a settings command still has
to make; each may be refused, and the process may be killed before any. `read`
is what `send` loaded; the settings may change under it.

**HostedTrust, WorkspaceCheckpoints, ConversationRewind.** A gate is a trust
manager (the daemon's own, or the one behind the hosted floors); an ask loads,
consults, asks and is answered, by a client or by nobody. A checkpoint reads the
register anew. A conversation is its messages; a rewind takes the snapshot
before it truncates.

**ClusterStart.** A call of `startCluster` brings up the group, announces its
return, and brings up the election; any of it may fail. `lone` is a history
variable: no call came before an earlier one had succeeded.

## Runs

| Run | Instance | What it shows |
| --- | --- | --- |
| `budget` | 3 purchases, limit 2 | charges stay counted, missed writes are known, no hold in memory alone, the limit holds on both sides, and the ledger implements `BudgetPromise` |
| `approvals` | 2 deeds, store of 2, 4 grants | single use across crashes; failed grants and takes leave no trace; only the right approval is evicted |
| `checkout` | 2 calls, 2 pages, 2 deeds, 2 grants | approvals, gates, registry and journal hold together when calls interleave and the process dies |
| `sqlite` | 3 callers, 3 damages, 4 ticks, 2 copies | no save breaks another; a save that ran alone is durable; quarantined files are bounded and trimmed for cause |
| `cards` | 2 cards, 2 removes, 2 fields | nothing stranded, nothing half created, nothing half removed where calls did not overlap a remove |
| `feed` | 1 channel, 4 messages, cap 2, 1 crash, fairness | nothing skipped in memory or on disk, sweeps keep the newest, every message arrives |
| `gate` | 3 starts, fairness | release is final, polls do not overlap, a start that resolved polls, a start is answered |
| `units` | 2 units, 3 daemons, either as the tracked unit, 1 subcommand at a time | a unit remains, an aborted migration costs nothing, the unattended pass stops only late starters and removes only what is disabled |
| `handlers` | seven families, one per behaviour, 2 calls each, 1 restart, fairness | `DraftsAreKept`: bodies readable, `createdAt` kept; `RoutesAreKept`: the most specific rule, stable ids; `PagesTellAll`; `LoneRunKeepsScores`; `TagsAreTrue`; `KeysAreWhereNeeded`; `VerbsStayTrue`; every call is answered |
| `runtime` | seven families, one per behaviour, command lines of up to 3 of 11 tokens, fairness | only serve serves; a shutdown is total; commands, settings and sends do what they say; rewinds lose nothing; the election has its group; decisions stand; every run ends |

Two more runs are expected to find a violation. Each checks one sentence of a
comment against the code:

| Run | The comment | What happens |
| --- | --- | --- |
| `cards_tangled` | never material without a row (`card-store.ts:393`) | a remove writes rows it read before its awaits |
| `feed_channels` | no channel silently lost (`slack.ts:167`) | one cursor for channels read one after the other |

Further disagreements between the code and its comments, or between the code
and what a reader would expect of it, are in the models, which do what the code
does, and have no run of their own; where a property has an exception, it is
for one of these.

Payments and storage:

- of two saves in flight the older export may be renamed last and take back a
  change reported saved (`sqlite-store.ts:274`), although every mutation is
  saved so that it survives a restart (`drafts/register.ts:256-258`); a save that
  ran alone does (`SavesAreKept`);
- a file moved aside keeps the mtime of its last save, and reaping goes by
  mtime, so a store not written for two weeks loses its quarantined copy in the
  init that made it (`sqlite-store.ts:32-39`, 117-152);
- a file that could not be moved aside is renamed over by the next save
  (`sqlite-store.ts:94-99`, 281);
- the unwind of a create passes over a delete that fails and drops the row
  (`card-store.ts:338-341`, 476-485), which is why `LoneCallsStrandNothing`
  excepts failed creates; a create whose read-back fails answers 500 though the
  card is stored (`payments/register.ts:521-545`);
- a second registration on a catalog in use may restore or remove the first
  one's handlers (`payments/register.ts:574-631`), which is why
  `ReadyServesItsOwn` speaks of a lone registration.

Inbox:

- `stop()` says "no further poll can run" (`inbox/index.ts:60-61`), but a start
  waiting for the bootstrap or its seed poll arms the interval afterwards
  (`inbox/index.ts:176-184`);
- more news than `perProviderLimit` are cut off and the cursor passes the rest
  (`poller.ts:183-188`), which is why `feed` keeps the limit above the news;
- `flush` clears the flag after its await, also for what came in meanwhile
  (`cursor-store.ts:456-460`);
- `getCursor` is called outside the try and leaves the mark of a poll behind
  when it throws (`poller.ts:153`, 161-165), which is why a start may be
  `rejected`;
- a close while init is pending leaves the database open
  (`inbox/index.ts:114-118`, `cursor-store.ts:196`, 463);
- the watermark compares `receivedAt > since` (`cursor-store.ts:360-362`), so a
  reader that resumes from it misses what arrives late with an older date;
- a provider whose last poll failed still contributes the items stored before,
  although it "contributes no items" by `aggregator.ts:34-35`.

Drafts, routing, triage, remote:

- a delete whose save failed answers an error, its retry `deleted: false`, and
  the draft is back after a restart (`drafts/register.ts:303-309`);
- saving a listed draft back stores `[redacted]` as its webhook
  (`draft-store.ts:33-34`, 417-418);
- before list or assign has opened the store, the resolver throws
  `ROUTING_STORE_UNINITIALIZED` (`route-store.ts:190-196`), although the bridge
  "NEVER throws" (`inbox-bridge.ts`); a delete of a rule during an assign's save
  makes that assign answer 500;
- overlapping triage runs lose each other's scores, and the decorator's handle
  never sees scores written after it opened, or is left open by a teardown during
  its open (`pipeline.ts:152-170`, `integration.ts:103-130`); `runInboxTriage`
  has no caller outside the tests;
- two applies to one Discord thread lose a tag (`tagger/discord.ts:86-158`), and
  a read that answers 200 with something unparsable counts as no tags;
- a child that leaves a grandchild holding its output keeps the dispatch waiting
  past its hard timeout, and the timer is armed only after the input is written
  (`process-runner.ts:39-127`);
- concurrent first SSH dispatches leave one identity file behind, a dispatch in
  flight at the teardown writes its key after the sweep, and a reference
  registered anew removes a key in use (`backends/ssh.ts:35-71`).

The process and its commands:

- extra words after `serve` are ignored;
- `runBootMemoryFold` is outside any try, a banner that throws ends a shutdown
  in progress with exit 1, and signals before the handlers kill the process
  without a release (`cli.ts:732-880`);
- a timeout or a closed socket after the call was sent is reported as a failure
  though the daemon may have done it, and a second `auth-ok` sends the call twice
  (`daemon-ws-call.ts:155-233`);
- `webui enable --lan` that fails at its last write leaves the control plane on
  the network and exits 1 (`webui-command.ts:251-264`); the send command says a
  message "did NOT go out" when the provider may have accepted it, and sends to a
  channel that was switched off while it read its input;
- two hosted runs that ask while trust is undecided raise the question twice and
  the last answer wins, although sessions "cannot end up having been asked the
  trust question twice" (`hosted-session-composition.ts:112-117`);
- restoring a snapshot drops what was said after it, and restoring one of a
  session registered anew changes the old object
  (`conversation-rewind-port.ts:101-140`); `registerSessionConversation` has no
  caller in the repository;
- a second `startCluster` while the first is under way, or after it failed, runs
  the election over a group that is not loaded, although "a composition root that
  reaches this twice is fine" (`cluster-group-composition.ts:211-218`), which is
  why `ElectionOverGroup` speaks of lone calls.

Service units:

- the reconcile pass "NEVER stops a RUNNING legacy daemon"
  (`legacy-daemon-reconcile.ts:176`), but one started while the pass awaits the
  endpoint's answer is stopped by its `disable --now`: `late` marks these, and
  `PassIsCareful` says that there are no others;
- the rollback of a migration says that the old unit "was never touched"
  (`legacy-daemon-migration.ts:566`); when that unit was idle, the new daemon's
  own pass may have retired it by then, and the host is left with neither, which
  is what `withdrawn` excepts from `AUnitRemains` and `steady` from
  `AbortCostsNothing`. The rollback also leaves the new daemon's link and process;
- a migration removes the file when its stop and disable failed, and reports
  "stopped, disabled, and removed" (`legacy-daemon-migration.ts:574-600`); the
  link then dangles, which is what the reconcile pass takes care to avoid
  (`legacy-daemon-reconcile.ts:367-370`);
- when `service.serviceName` is the old unit's name, the migration refuses
  (`legacy-daemon-migration.ts:502`) but the pass does not compare the two: run
  by a daemon outside the unit, it retires the only unit if that unit's daemon
  dies between its second look and its third, which is why `AUnitRemains` and
  `PassIsCareful` speak of two distinct units;
- a migration repeated after it succeeded finds the port taken by the managed
  daemon and calls it a process this tool does not manage
  (`legacy-daemon-migration.ts:440-459`).

### Bounds

Every bound is a constant of its module, given its value in the cfg; `ServiceUnits` needs none beyond its two units and three daemons.

- Budget: three purchases over a limit of two are the fewest for which one is
  refused, one expires while another is charged, and a third takes its place.
- Approvals: a store of two with four grants evicts and refuses; `checkout`
  needs two calls for one to write the gate cell while the other reads it.
- Saves: three callers, so that a save can overlap one that overlaps another; two
  copies of a quarantined file and a time to live of one tick, so that both of
  the reaper's reasons occur.
- Cards: two cards and two removes give every pair of overlapping calls.
- Feed: more messages (4) than the store keeps (2), none over the provider's
  limit; one channel, since the second is the subject of `feed_channels`.
- Gate: three starts, so that one finds a poll of an earlier one under way and
  another comes after a stop.
- Handlers and runtime: the families share no state. `focus` picks one, the
  others stay as they were initialised, and the run checks each in full: the
  states are the sum of the families', not their product (626433 and 214526). Two calls let any two
  overlap; one restart follows any of them. `MaxFiles`, `MaxChanges` and
  `MaxMessages` are two, `MaxAssigned` three, so that an id is given out, its
  rule deleted, and the next one is not the same. Three of eleven tokens make a
  command line: a word of the program, its subcommand and an option, or any
  three in the wrong order. `TriageScores` has the threshold and one level
  below it, so every label occurs.

Symmetry is used for `checkout` and `cards`, which check no liveness. Deadlock
is off for `gate`, `handlers` and `runtime`, whose processes may finish; in the
others something can always happen.

### Fairness

`EveryMessageArrives`, `EveryStartSettles`, `EveryCallIsAnswered` and
`EveryRunEnds` are the liveness properties. What is assumed is that the event
loop goes on and that what is awaited settles; that something succeeds is
assumed for the feed only.

- `gate`: weak fairness of the bootstrap, of the steps of a start, of the end of
  an interval's poll and of the close. Each may end in a failure.
- `feed`: the interval timer and file operations get weak fairness, as Node's
  timers and calls give. That some poll reads its channels in full and stores
  news is strong fairness: a provider that answers no poll ever delivers nothing,
  and the code has no other way to its messages. No save has to succeed; crashes
  are bounded.
- `handlers`: a draft's open, its steps and its key steps; the sweep and each
  step of a dispatch while the surface is up (its commands end or their hard
  timeout does it; the exception above needs a grandchild, which the fairness
  leaves out); each step of a tag call, whose sockets have timeouts; the open of
  the triage store. Each settles one way or another. Requests, restarts and
  teardowns need never come.
- `runtime`: the end of a run (its own completion or the deadline timer of the
  shutdown), a command's own steps and its timer, and the timer of a trust
  question. The other side, daemon or operator, need never answer.

## Proofs

Each theorem holds for every value of its module's constants. The assumptions
are `BudgetAssumption` (finitely many purchases, a natural limit),
`CardsAssumption` (`Cvv` is a field, `None` no card), `GateAssumption` (`Tick`
and `None` are no starts), `FeedAssumption` (positive bounds, `Unposted` is no
channel), `ApprovalsAssumption` (a store with room for one, as `MAX_PENDING` is),
`CheckoutAssumption` (`None` is no call), `StoreAssumption` (finitely many
callers, natural bounds, room for a copy), `HandlersAssumption` (natural bounds,
at least one attempt, what stands for nothing is none of the things it stands
for the lack of, finitely many items) and `RuntimeAssumption` (natural bounds, a
trust manager, the operator edits keys there are); `ServiceUnits` needs none.
Every property of a passing run but the four of liveness is stated by a theorem;
one, `FeedIsKept`, under the hypothesis its run has too.

**DurableBudgetProofs.** `TypeCorrect` stands alone. That a charge stays counted
is not inductive: a commit whose write fails relies on the reservation the file
still holds, and on the flag of the missed write. `ChargeInv` joins the type,
that a purchase under way is held until it expires, that a missed commit is
pending and that no hold is in memory alone to `ChargeStaysCounted`; the
properties of the run other than the limit follow. `LimitHolds` counts: a granted
reservation takes the one place `Fits` saw (`OneMoreFits`), and every other step
leaves each pool inside one that was in memory or on file before
(`PoolsOnlyShrink`), by the library's facts about finite sets.
`LedgerStaysSound` states the conjunction the run checks. `PromiseIsKept` is the
refinement: `StepSimulates` maps each action to a step of `BudgetPromise` or to
none. A commit moves nothing, since the record takes the reservation's place; a
release, a sweep and the clock free places (`GivingBackIsFree`), a sweep only
expired ones; a crash revives what the file held beyond memory, which
`ChargeInv` says is all of memory and `LimitHolds` keeps within the pool.
`PlaceInv` (a purchase not yet reserved is nowhere, and only one that is over
has aged) gives the place a reservation takes.

**CardStoreProofs.** A remove writes rows it read before its awaits. `CardInv`
says that these agree with the file on every card no other call overlapped
(`RowsAgree`), that calls beside a remove are marked as overlapped
(`RemovesTangle`, `CreatesTangle`), and what each call in flight has stored or
cleared so far. The last write of a remove then changes only the row it was
called for, or a tangled one. `NothingIsStranded`, `RemovedStaysRemoved` and
`CardsStayWhole` are the properties of the run.

**InboxProofs.** For the gate, `GateInv` adds to the properties that the surface
is released exactly when the close has been called (one step in the code) and
that whoever polls holds the poller's mark. `ReleasedStaysQuiet` and
`GateStaysKept` are the properties of the run. For the feed, `FeedInv` says that
every copy of it, in memory, exported by a save or on disk, knows what its cursor
passes (`FeedsKnown`), and that a batch under way follows the cursor it started
from without a gap (`BatchFollows`): whichever save lands, and whichever file a
restart loads, skips nothing. That is so under `NewsFitAPoll`: one channel, and
never more news than a poll may return or a page holds. Without it the code does
skip, as `feed_channels` shows for two channels and the list above says for a
limit. `SweepsKeepNewest` needs no such hypothesis: `NewestAreSoMany` counts that
the newest n of a finite set of messages are n, by the number each has above it,
so an item deleted before its time has exactly `ItemCap` newer ones in the feed.
`FeedStaysKept` states what the run checks.

**ServiceUnitsProofs.** Each property has an invariant of its own.
`OvertakenIsLate` (a pass past its guards while the old daemon runs was overtaken
by a start) and `RemovesDisabled` (a pass about to remove the file has disabled
the unit) give the two halves of `PassStaysCareful`. `ManagedInPlace` (the
managed unit is on file behind its running daemon, behind a pass that confirmed
it and behind a migration that retires the other) gives `AUnitAlwaysRemains`.
`OldOneHolds`, over `MigratesAnother`, gives `AbortedMigrationCostsNothing`.

**CheckoutProofs.** The store first. `StoreInv` joins to the run's invariants
that memory and file are finite and within the store's size, and that every
approval in memory, on file or spent has the number of a grant made, so a new
grant is none of them. `RestartsChangeNothing` and `EveryApprovalIsAccounted`
follow; the eviction needs that a store with approvals has an oldest one, by the
library's well-founded order of the naturals. `CheckoutRunsTheStore` then shows
that each step of the composition is one of the store's, or leaves it alone, so
all of this holds in the checkout too. There, `PagesNamed` (a call past its
lookup has a page) and `ChargedWereSubmitted` join the properties; `OnRecord`
says of every purchase about to be submitted, submitted, or charged and not
reported that it is in the journal's file and, while a process runs, in its
memory: a put whose write fails keeps the call from submitting, and a remove
whose write fails leaves the record behind, never the other way round.
`PurchaseInv` says which approval paid for which call, and that spent approvals
stay spent, which gives `PurchasesAreApproved`. With `GatesKeepCallsApart`,
`RegistryStaysRight` and `NothingSubmittedUnseen` these are the properties of
`checkout`.

**SqliteStoreProofs.** The state that matters is what a save on its way carries.
`DbHasWhatIsCarried` says an open database has all of it, `CarriesLoneSaves` that
it has every save that ran alone before; so whichever rename lands next keeps
them, until the file is damaged. `SalvageStaysBounded` needs that the copies an
init ranks have distinct ranks, which fill the numbers from 0 on (`RanksAreFilled`
and the lemmas before it, by induction-free counting with the library's
injections and surjections): then what stays is no more than the bound, and what
is behind the bound has exactly that many newer ones before it. `SavesStayKept`
states what the run checks.

**HandlersProofs.** The families share no variable: a step of the composition is
a step of a family or leaves it alone (`EachFamilySteps`), so each has an
inductive invariant of its own, and `EveryFamilyIsTyped` joins their types.

- Drafts: one load of the key is under way in a process (`OneLoad`), what it has
  come to agrees with the tier (`KeyIsStored`, `MintedOnce`), so whatever is held,
  saved or about to be is sealed with the key on record (`DraftsAreSealed`); a
  later process finds that key, which is `DraftsStayKept`.
- Routing: no two rules have the same channel, in memory or on file, so the
  resolver's cascade and the most specific rule by weight are the same
  (`RoutesStayKept`). That needs the parse of a channel id to tell surfaces and
  routes apart (`ChannelsAreTold`).
- Remote: what keeps the files of two dispatches apart (`Apart`, `PoolOf`): a file
  is new to its call and not the pool's until its command runs. A sweep then
  removes nobody's but what `KeyFilesAreThere` excepts.
- Pages: the walk has handed out exactly those steady items that are not after
  its position (`Walked`), and a page takes the first rows that are, in an order
  that is total: an item is on the page, after it, or was before it. The last
  page leaves none (`WalksTellAll`).
- Tags: a call under way was confirmed and is at a step of its surface's protocol,
  and an acknowledged store, or one known to have completed, has set its flag,
  also when its retry is refused.
- Scores: a run writes the whole of its database over the file. `AloneMeansAlone`
  keeps other runs from it and `LoadedAll` says it loaded what the file holds.
- Payments verbs: how far a registration has come (`Stage`), that a slot holds
  only handlers of one that attached them and has not taken them off (`Holds`),
  and what a lone one has put there (`Serves`); for the ledger, that it is what
  was recorded since the last tear.

**RuntimeProofs.** In the same way.

- The command line: `ServingIsAskedFor` is decided by the words of the line,
  whatever its length, from the catalog's sets; the daemon's life keeps the
  verdict, that the owners registered are the ones the boot composed, and what a
  released shutdown means, so `ShutdownLeavesNothing` holds at whatever stage a
  signal came.
- Commands: a frame that says a call was accepted, or data that came back, means
  the daemon acted (`Acted`, `Heard`); nothing is sent before a command has
  started, and it starts only with consent (`NeedsConsent`), so each exit code
  says what was done.
- Settings and sends: `Made` says how much of the list of writes is made and that
  the plan is its rest; over a directory examined first, the network posture last.
  A message's channel is the one named or the only one that qualified when the
  settings were read (`Settled`).
- Trust and checkpoints: what a manager or the file holds somebody said, an ask
  decided has read the file, and a decision on file when the process started is
  in every manager that read it since.
- Rewinds: every message said is in a conversation or in a snapshot, and the part
  after a snapshot's anchor is the tail of what was there.
- The cluster: a lone call on its way, or failed, has no other beside it that has
  not succeeded (`OneAtATime`), finds the group up past it (`GroupBehind`), and is
  the first if it brings the group up (`FirstBringsUp`).

Only model-checked are:

- liveness under fairness, which the prover does not reach: `EveryMessageArrives`,
  `EveryStartSettles`, `EveryCallIsAnswered` and `EveryRunEnds`;
- the two comments that do not hold.

No run's property rests on what a recursive definition computes for every input:
where the code loops, the models use sets and functions.

## Not modelled, and next

`PROJECT.json` lists every component with what is left out of it and why. In
short:

- stores and calls with no interleaving or failure that the modelled ones lack:
  the address store, the notifier, the merchant judge, the composition of the
  payments services, the registration helpers and contracts, remote peer records;
- the wire: adapters' field mapping, IMAP and HTTP. The e-mail adapter orders by
  UID and filters by date (`providers/email.ts:99`), which needs a feed with two
  orders;
- what the SDK does behind this repository's calls: `fillCard`, the conversation,
  the coordinator, the services `runtime/services.ts` constructs and hands to each
  other;
- two calls of the SQLite base's `init` at once, which every store over it rules
  out for itself, and the recovery that reads the checkout journal, which is the
  SDK's (`checkout-journal-store.ts:140` leaves it a stale record);
- help text, packaging, scripts.

Next are the e-mail feed with its two orders, peer records, `fillCard`, and the
recovery that reads the checkout journal; and, for the feed, the weakest
condition on pages and limits under which nothing is skipped.
