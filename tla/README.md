# proxy-pool-sync: verification project

TLA+ models of `proxy-pool-sync`, the TLC runs that check them on small instances, and
theorems that TLAPS proves for every instance. Line numbers are those of
`src/proxy_pool_sync/` unless another file is named.

    tlc -workers 2 -config Exchange_delivery.cfg MCBindingExchange   # a run
    tlapm BindingExchange_proofs.tla                                 # a proof, about a minute

`PROJECT.json` lists the components, the runs with the properties each checks, the slips
each property is known to catch (mutants), the source lines behind every definition, the
hazards, the findings and the theorems.

## 1. Inventory

The package has two halves that share little: one keeps a *pool* of proxies and hands
them out, the other lets *two services* agree on the exit they use for one account.

| component | state | operations | who calls it |
|---|---|---|---|
| binding journal (`bindings.py`) | SQLite tables preferred, observed, seen, outbox, identity | receive, observe, pending, acknowledge, preferred, preferences | adapter, exchange, bridge, consumer |
| exchange transports (`binding_api.py:16-121`) | none | deliver, preferred, preferences, by HTTP, by the peer's file, by HTTP and then the file | the application's exchange loop |
| bridge server (`binding_api.py:124-210`) | one handler thread, a backlog of connections | GET and POST on /v1/bindings and, passed on to the peer, /v1/peer-bindings | the peer's transports, the own application |
| consumer (`binding_consumer.py`) | none; the caller holds the account's lock | checked_preference | the application, before a connection |
| pool sync (`manager.py:118-148, 255-271`, `source.py`) | an asyncio lock; the pool file | sync, pull, periodic_sync | timers, callbacks, choose and acquire |
| pool file and policy (`pool.py`, `storage.py`) | one text file, replaced whole | load, replace_text, replace_lines, replace_raw_lines | pool sync, application |
| leases (`manager.py:19-59, 212-239`) | table of leases | acquire, release | application tasks |
| health (`health.py`, `manager.py:62-77, 166-189, 241-253`) | one state per proxy | mark_success, mark_verdict, reserve, eligible, report_* | choose, acquire, application |
| account selection (`account_selection.py`) | what a call has tried; rows and bind are the application's | select_account_proxy, free_exit_candidates | application |
| notifications (`notifications.py`) | none | notify_targets, in turn or concurrent | producer, after it has replaced its export |
| auth, transport, deploy | none | a comparison, text rendering, one bounded probe | application |

How they interact. An adapter reports committed bindings to its service's journal
(`observe`). A background exchange reads `pending()`, gives every event to the peer's
`deliver()`, and acknowledges what is durable there. A consumer reads a preference, probes
its own candidates and commits one. On the other side a timer and callbacks call `sync()`,
which replaces the pool and calls the assigner; `choose()` and `acquire()` read the pool,
pull it when it is empty, probe candidates, mark their health and take leases. A producer
replaces its export as a private text file and tells its consumers, whose callbacks load it.
An application asks its own bridge what the peer prefers, and selects a proxy for each of
its accounts through callbacks that validate, bind and report.

What is hard. Requests are lost, served after their sender gave up, repeated, reordered,
and answered by replies that never come, with a second transport in between; processes
stop between a commit and its acknowledgement; two services move one account at once;
a consumer acts on a preference read seconds ago; several asyncio tasks share the pool,
the health states and the leases, and one path takes no lock; two bridges with one thread
each may wait for each other; an exit that was free is taken before it is bound; a write
stops half-way, and a consumer hangs while others wait to be told. The list of hazards, each
with its line and its properties, is in `PROJECT.json`.

What makes the parts correct. *Exchange*: preferences only advance, nothing published is
forgotten, equal versions are equal events, quiet services agree, outboxes drain.
*Consumers*: both services come to use one exit, and applying a preference is not a new
choice. *Pool*: no older answer of the producer wins under the lock (pushed lines are as old as their
sender made them), assignments match the pool, the pool
becomes current in the end. *Leases*: one owner per proxy at a time; every acquire ends.
*Health*: failures never make a proxy available sooner. *Bridges*: "accepted" means durable
at the peer, an answer is not older than its question, handlers return. *Selection*: no exit
is shared beyond its room, an account keeps a proxy that works, NoAccountProxy is the truth.
*Exports*: a file is replaced as a whole or not at all; nobody is told early or left out.

## 2. Modules

| module | models | builds on |
|---|---|---|
| `BindingEvents` | events and their versions | |
| `PreferenceSync` | abstract: preferences chosen and adopted, never back | BindingEvents |
| `BindingJournal` | both journals, one action per operation | BindingEvents |
| `BindingJournal_proofs` | lemmas about versions, tables and operations | BindingJournal |
| `BindingExchange` | deliver, retries, fallback, restarts; implements PreferenceSync | BindingJournal |
| `BindingExchange_proofs` | theorems about the exchange | BindingExchange, BindingJournal_proofs |
| `BindingRebind` | consumers and adapters over the journals | BindingJournal |
| `BindingRebind_proofs` | theorems about settling and echoes | BindingRebind, BindingJournal_proofs |
| `BindingBridge` | both bridges: handler threads, backlogs, the relay to the peer | BindingJournal |
| `BindingBridge_proofs` | theorems about deliveries and views | BindingBridge, BindingJournal_proofs |
| `PoolSync` | sync, pull, periodic_sync, the pool file | |
| `PoolSync_proofs` | theorems about the lock and the unlocked pull | PoolSync |
| `ProxyLeases` | acquire, release, leases, health | |
| `ProxyLeases_proofs` | theorems about leases | ProxyLeases |
| `FreeExits` | free_exit_candidates as an operator | |
| `AccountSelection` | select_account_proxy for several accounts at once | FreeExits |
| `AccountSelection_proofs` | theorems about candidates, sharing an exit and routes | AccountSelection |
| `AtomicFile` | abstract: a file that is replaced at one moment | |
| `PoolFile` | write_private_text and load, step by step; implements AtomicFile | |
| `ExportFanout` | notify_targets after a write, consumers that load | PoolFile |
| `ExportFanout_proofs` | theorems about files and fan-outs | ExportFanout |
| `MC...` | instances for TLC: symmetry, constant functions | the module named |

Definitions whose comment begins "A slip" are plausible bugs of the code. No specification
uses them; `PROJECT.json` says which property catches which.

### Journals (`BindingJournal`)

Each operation is one IMMEDIATE transaction on its own connection, hence one step; what is
committed survives any restart, hence a restart of the journal is no step. The key of an
event is a hash of its fields, so the event is its own key. Versions compare as tuples
(revision, source); a service is 0 or 1 in the order of its source name. Outbox rows keep
their rowid because `pending()` returns the oldest ones. Events carry one scope, and
`receive` accepts the peer's source only; credentials, encoding and validation are data.

### Exchange (`BindingExchange`)

Per service: the batch of the last `pending()`, the `deliver()` under way and where it
stands, and requests nobody waits for any more. A delivery is posted; served by the
peer's handler, refused, or failed (`httpx.RequestError`); answered; the answer may be
lost; with the fallback the file follows after a failure and never after a refusal;
what `deliver()` reported True is acknowledged by event. A request that failed on its way
may be served later (`ServeLate`). `Restart` forgets the batch and the call. The order in
which a batch is tried is left open, which includes the code's. A database that stays
locked shows as a broken reply in the handler and as an exchange that stops at the file.

The loop belongs to the application; the model takes from the code what it must do
(acknowledge only what was delivered). That is external, as is the network.

### Rebind (`BindingRebind`)

`native` is the proxy of an account's connection, `applied` the peer's event it came from.
`Consult` reads the preference, `Apply` commits a candidate of the own pool with the same
host and exit, `Decline` is every reason not to; both services also move by themselves.
The account's lock is held from Consult to Apply, which is why Move waits and Report does
not. Here the exchange is reduced to its effects on the journals: what `pending()` returns
arrives any number of times (`Deliver`), and a row goes when the peer covers its event
(`Confirm`). An event whose row has gone, replaced by a newer one or acknowledged, may have
been read before and still be on its way, by a request yet to be posted or by one that is
served after its sender gave up (`late`, `ServeLate`). It then arrives after whatever has
overtaken it, and may be acknowledged when its row is a newer event's. A proxy's exit does
not change. Consumers may read either journal: their own bridge's
/v1/bindings, or the peer's preferences through /v1/peer-bindings. A pool has at most two
endpoints of one host, one per protocol, as the code assumes where it tries the first two.

### Bridges (`BindingBridge`)

`handler` is the one thread of a bridge (`HTTPServer` serves a request at a time), `backlog`
the connections it has not accepted. `ServeOwn` is /v1/bindings; `Relay` begins
/v1/peer-bindings, which goes to the peer's bridge and, after a failure, to its file, or to
the file at once (a peer in `OverHttp` has the fallback, any other is a `BindingFilePeer`).
While it relays, a handler serves nobody, also not the peer that may be relaying to it.
`PostTimesOut`, `AppTimesOut` and `RelayTimesOut` close a connection: the request stays where
it is, is served all the same, and nobody reads the answer. `Refuse` is every status other
than 200 (authorisation and validation are data). `Break` is an error that the handler does
not catch, which `sqlite3.Error` is: the connection ends without a reply. `Restart` stops a
process with its bridge and its exchange; journals stay. The exchange of a service is
reduced to one delivery at a time. The application relays its own events only, which is
what the bridge accepts; its requests are external, as is the socket.

### Account selection (`AccountSelection`, `FreeExits`)

A call is one task of `select_account_proxy`, and each `await` (validate, report_failure,
bind) ends a step, so that anything may happen between two of them: other calls bind,
proxies fail and recover, the call is cancelled. The callbacks are the application's: the
model takes from the code what it needs of them, that `bind` persists a row atomically and
only while the exit has room, and that `validate` is right at its moment. A proxy with an
unknown exit is never offered (`Unmapped`). Rows may be left from an earlier life of the
application. `failed` and `steady` are history: what a call has found bad, and what has been
good and free ever since it began. `FreeExits` computes the candidates as the code does,
tier by tier with a sample from the middles; the run compares them with their definition.

### Pool file and notifications (`PoolFile`, `ExportFanout`)

A writer creates a temporary with a fresh name, fills it and renames it. `Fail` is an error,
after which the code unlinks the temporary; `Stop` is a process that ends, which leaves it
behind as litter. A text between its creation and the flush is not whole. A reader reads
what it opened, whatever is renamed meanwhile. `PoolSync` treats the same replacement as one
step; `ImplementsAtomicFile` is why it may. `ExportFanout` adds a producer that announces
what it has written, by requests one after the other or all at once, to consumers of which
those in `Broken` may refuse, hang or be down. That producers write first and announce
then is theirs to do; the package's README has the event as "proxy_export_changed". `told` is what a consumer has heard and not looked at.

### Pool (`PoolSync`)

Each task is somewhere between two awaits: queued for the lock, waiting for the producer,
having an answer, assigning. An export is its proxies and the number of its publication,
which is how age is seen. `Fail` is any exception or cancellation: it leaves `sync()` and
frees the lock, and the pool stays as it is. A pushed list needs no request, so reading
and replacing the pool are one step. The replacement of the file is atomic.
`force=True`, a pool without a policy (MinCount 0 and MaxDropPercent 100) and an assigner
that is absent are special cases or skip checks at the caller's wish.

### Leases and health (`ProxyLeases`)

A job is one asyncio task that acquires, works and releases in the name of an owner. The
in-memory stores never suspend, so marking the health after a probe and taking the lease
are one step, and the only waiting is for probes. Times are kept as what is left of them,
so time needs no bound. Candidates come in any order, since usage counts are the
application's, and from any pool. `Vanish` is a job that ends without releasing.
`choose()` marks health exactly as the two report actions do, at any time.

## 3. Runs

| run | instance | checks | distinct states |
|---|---|---|---|
| Exchange_delivery | 1 account, 2 proxies, 3 revisions, seen limit 1, 1 late request, fallback | TypeOK, NothingForgotten, VersionNamesOneEvent, SeenIsCovered, OutboxIsNewest, PreferencesAdvance, ImplementsSync, RowsLeaveOnlyWhenSafe | 186 000 |
| Exchange_liveness | 2 accounts, pending limit 1, fallback | Inv, QuietMeansAgreed, EventuallyAgreed, OutboxDrains | 8 700 |
| Exchange_http | 2 proxies, 2 revisions, HTTP only | OutboxDrains (with QuietMeansAgreed: agreement) | 4 300 |
| Rebind | 2 ports of one host and another host, 2 exits, 3 revisions, seen limit 0, 1 late event | TypeOK, SettledOnOneExit, EchoOnlyWhenOvertaken | 1 309 000 |
| Rebind_echo | as Rebind | NoEcho: **violated** | |
| Rebind_unverified | as Rebind | OneExitWherePossible: **violated** | |
| Pool | timer, callback with pushes, a picker, 2 proxies, 2 publications | TypeOK, OnlyPullsAreUndone, DeltaIsTheChange, AssignsThePool, EventuallyCurrent | 138 000 |
| Leases | 2 owners with one job each, 2 proxies, ttl 0 or 1, cooldowns 1 and 2 | TypeOK, HeldIsRecorded, Exclusive, FailuresNeverForgive, AcquiresReturn | 190 000 |
| Lease_jobs | 2 owners with two jobs each, 1 proxy | Exclusive: **violated** | |
| Bridge | 1 account, 1 revision of one service, both bridges over HTTP with the fallback, backlog 2 | TypeOK, DeliveredIsDurable, RelayedIsFresh, HandlersReturn | 382 000 |
| Selection | 3 accounts of which 2 select, 4 proxies on 2 exits, one of them unmapped, room 2, limit 2 | TypeOK, NoSharing, MovesOnlyFromTheBad, NothingFreeIsMissed, CandidatesAreFreest | 408 000 |
| Export | 2 producers, one of them concurrent, 2 consumers, one of them broken, 2 texts | TypeOK, AnnouncedIsThere, OthersAreTold, ImplementsAtomicFile, FanoutEnds | 141 000 |

Why the bounds are enough. Journals treat accounts apart except for the shared seen table
and the shared outbox order, so one account shows the delivery races and two accounts show
the sharing; limits of 1 make pruning and "behind the limit" happen at once (the code has
10000 and 50). Three revisions let each side answer the other and be answered; ties need
one. `Rebind` sets the seen limit to 0: every key is forgotten at once, so repeated and late
events are judged by their version alone, which is the hardest case for its properties (the
exchange runs have a seen table). Two proxies are a move and a return. One late request overtakes any other. Exits
matter only to `observe` and to consumers, so the exchange runs have none and `Rebind` has
two. For the pool, two proxies and a limit of 40 percent refuse every drop and every empty
export and accept the rest; one picker is enough to fill an empty pool behind a sync's
back. A lease of one tick can be held, expire while held and be released late, and one of
none is over when it is returned; a cooldown of two can meet one of one.
A bridge's backlog of two holds the peer's exchange or relay in front of the own application
or behind it, and full bridges relay to each other at once; one event suffices there, since
its readers only have to tell it from nothing. Three rows on exits with room for two fill one, and
two callers race for its last place through different proxies; a limit of two ends inside a
tier and between tiers. Two producers overwrite each other's export while the first one's
consumers are still being told. `MaxRevision`, `MaxLate`, `MaxVersion`, `MaxText`,
`FailBound`, `Movers` and `Callers` are bounds of the models, not of the code. The exchange runs
switch the deadlock check off: with nothing to send and no revision left, the system stops.

Fairness. `BindingExchange`: the loop goes on (weak for Poll); a process that is restarted
again and again, or a peer that refuses or loses requests, does not do so at the same point
for ever (strong for the steps of a delivery). With the fallback a failing request is as
good as a served one; over HTTP only, the peer must answer in the end, and nothing less
would do. `PoolSync`: periodic_sync always calls again; asyncio's lock serves its waiters
in turn, hence strong fairness of taking it; producer, disk and assigner do not fail every
time. `ProxyLeases`: probes have timeouts and the loop over candidates goes on.
`BindingBridge`: the handler threads run, and their own requests to the peer time out (weak
for the steps of a handler); nothing is assumed of exchanges and applications, which may
post for ever or give up. `ExportFanout`: a producer's event loop goes on, its requests time
out, and consumers that are not broken answer (httpx's timeout is per operation, so this
takes a consumer that hangs, not one that sends a byte now and then for ever). `AccountSelection` needs none: it promises
what a call that returns has done.

## 4. What the code does otherwise

* **A lease can be released by an older lease** (`Lease_jobs`, `manager.py:239`).
  `release(lease)` passes proxy and owner on, not which lease. If two jobs of an owner hold
  leases of one proxy, in turn after an expiry or at once, the first release frees the
  proxy the other still uses, and another owner gets it. README.md:61 promises "per-account
  ownership". With one job per owner at a time, exclusivity is proved (below).
* **Applying a preference can echo** (`Rebind_echo`, `bindings.py:116`). "Applying a peer
  preference produces no echo" does not hold in three cases. The preference was read from the peer's journal
  (`/v1/peer-bindings`), applied, and reported before it arrived in the service's own
  journal; this is the shortest trace, in which the service publishes revision 1 where the
  peer has published revision 1. Or the service's journal holds a newer event by then, of
  the peer or of its own adapter. Or the reported exit could not be verified and the
  exit is used through another port than the peer's. Each time
  the service publishes what it applied as its own choice. `EchoOnlyWhenOvertaken` says
  that these are the only ways, proved as `EchoesAreOvertaken`.
* **An exit verified later is never published** (`Rebind_unverified`, `bindings.py:129`).
  A first report without an exit publishes an event without one; the later report names
  the same proxy and publishes nothing; consumers ignore events without an exit. So the
  services keep different exits where one was possible. `SettledOnOneExit` says that
  nothing else leads there.

## 5. Proofs

`BindingJournal_proofs` holds what the proofs about journals share: versions are ordered, a
new event is newer than what it replaces, and what receive, observe and acknowledge leave.

`BindingExchange_proofs` proves, for any accounts, proxies, exits, limits and bounds, from
`JournalAssumption` and `ExchangeAssumption` (types of the constants; NoRow and NoExit are
not values of the data; `pending()` returns at least one row):

* `TypeCorrect`, `InvHolds`: `Inv` is inductive. Its parts need each other. That a
  service's own preference covers every event of its own, wherever copies are
  (`OwnChoicesCovered`), makes a new event newer than all of them, hence
  `VersionNamesOneEvent`. That seen keys and answered deliveries are covered
  (`SeenIsCovered`, `DeliveredIsCovered`) makes "duplicate" and the acknowledgement right,
  hence `NothingForgotten`. `Addressed` says whose events are where, and `OutboxIsNewest`
  ties rows to what travels.
* The step is proved by kind of action: reports add one newest event (`ReportPreserves`);
  deliveries only raise the receiver's preference (`DeliveryEffect`, `Delivered`); the loop
  only moves copies (`CopiesPreserve`, `LoopPreserves`).
* `NothingIsForgotten`, `VersionsAreUnique`, `SeenEventsAreCovered`, `OutboxHoldsTheNewest`
  and `QuietIsAgreement` follow; `PreferencesOnlyAdvance`,
  `RowsLeaveSafely` are the action properties from the same invariant; `Refinement` maps
  every step to a Choose, an Adopt or a stutter of `PreferenceSync`.

`BindingRebind_proofs` proves, from `JournalAssumption` and `RebindAssumption`:

* `RebindInvHolds`: `RebindInv` is inductive. Its journal half is the exchange's argument with
  the network reduced to the events in `late`, which count as copies (`Known`), and one part more: `ReportsAreChoices` says that the binding last
  reported is the one a service's own choice names. Its consumer half says that a connection
  has the exit of the preference it was applied from.
* `ServicesSettle` (`SettledOnOneExit`): with nothing queued the preferences are the same
  event (`QuietIsOnePreference`, from `OwnChoicesCovered`, `ChoicesReach` and `OneEventEach`); the service that chose it
  uses its exit since that is what it reported, and the other one since it would follow
  otherwise. `EchoesAreOvertaken`: a report of the applied exit fulfils the preference.

`PoolSync_proofs` proves, from `PoolAssumption`:

* `LockInvHolds`: `LockInv` is inductive. Past the lock, a sync's memory of the pool is right and its
  answer not older than the pool (`PoolKept`), or a picker has filled the pool and rests
  (`FilledByPicker`), which stays so because a pool that is not empty is never empty again.
* `TypeCorrect`, `OnlyPullsUndone`, `DeltaIsRight` and `AssignsWhatIsThere` follow, for any number
  of tasks and any update policy.

`BindingBridge_proofs` proves, from `JournalAssumption` and `BridgeAssumption`:

* `BridgeInvHolds`: `BridgeInv` is inductive. A connection is closed by whoever gives up, while
  the request stays in a backlog or in a handler; `Channels` says that whoever waits has exactly
  one open connection, in the backlog or with the handler, and for what it asked, and that
  nobody else has one, so an answer is for the question that is waiting. On it rest the parts
  about content (`Answers`): a 200 on its way to an exchange means that the event is in the
  addressee's table, and a view on its way to an application holds at least what was there when
  it asked, also while one bridge fetches it from the other. Tables only advance, so what once
  held there holds still.
* `TypeCorrect`, `DeliveriesAreDurable` (`DeliveredIsDurable`) and `ViewsAreFresh`
  (`RelayedIsFresh`) follow, for any accounts, events, backlogs and ways of reaching a peer.

`AccountSelection_proofs` proves, from `SelectionAssumption`:

* `SampleOfTheTier`, from the integer division alone: of any tier without repetitions the
  sample has as many entries as asked for, in the tier's order and none twice, because
  the middles of the parts lie inside the tier and grow.
* `CandidatesAreTheFreest`: for any pool, usage and limit, `free_exit_candidates` returns the
  freest proxies, as many as the limit allows. After n turns of the loop the list is the
  freest of those with a load below n (`Freest`, `NextTier`); the induction over n goes through
  the least number of a set (`UpTo`), and so does the existence of the recursive function
  (`TierByTier`), since a theorem that takes an operator cannot be instantiated.
  `OfferedAreTheFreest` (`CandidatesAreFreest`) is this for the candidates of every call.
* `ExitsAreNotShared` (`NoSharing`), from `SharingInv`: the rows fit the exits (`RowsFit`), a
  call that is under way has no connection, and a call past its bind owns its row
  (`RowsAreOwned`), so connections are never more than rows.
* `RouteInvHolds`: `RouteInv` is inductive together with `SharingInv`. A call stays with the
  account's proxy until it has found it bad (`Sticks`): only a refused bind could move it on,
  and `RowsFit` says that an account's own exit has room for it. What has been good and free
  ever since the call began is tried now or is ahead in its route (`Hopes`), and is good and
  free still (`StillFree`), so it can neither be found bad nor refused. `TurnMissesNone` says
  that the next turn of the loop keeps all this. `TypeCorrect`, `OnlyTheBadIsLeft`
  (`MovesOnlyFromTheBad`) and `NoProxyIsTheTruth` (`NothingFreeIsMissed`) follow.

`ProxyLeases_proofs` proves, from `LeaseAssumption`:

* `TypeCorrect`: types, and that a proxy which failed too often is out of service.
* `LeasesAreRecorded`: if `Jobs = 1`, an unexpired lease somebody works with is what the store
  records. A grant finds no live record of another owner, a release deletes only the owner's,
  and Tick ages both alike. `LeasesAreExclusive` is a corollary, since a proxy has one
  record. The premise `Jobs = 1` is where the finding of section 4 is.
* `FailuresOnlyDelay`: an action property, from the types and what `mark_verdict` does.

`ExportFanout_proofs` proves, from `FileAssumption` and `FanoutAssumption`:

* `FanoutInvHolds`: `FanoutInv` is inductive. A filled temporary is whole and has its
  writer's text (`WritesAreTold`), so what is renamed is whole (`TextsAreWhole`); a writer
  that announces has installed its text, so what consumers are told has been installed
  (`ToldIsInstalled`); `SendsAreKnown` says that a consumer that works has no failed request,
  and that a fan-out ends with all of them answered.
* `TypeCorrect`, `NobodyIsToldEarly` and `OthersHear` are its parts; `Refinement` maps Create
  to Ask, Replace to Write, whatever ends a write to End, and a reader's steps to theirs.

Every invariant, action property and refinement that the runs check is proved. Only
model-checked are the liveness properties `EventuallyAgreed`, `OutboxDrains`,
`EventuallyCurrent`, `AcquiresReturn`, `HandlersReturn` and `FanoutEnds`: TLAPS proves neither
liveness under fairness nor ENABLED.

## 6. Not modelled, and the plan

Left out for good: callback authorisation (one comparison), rendering of SSH and nftables
configuration, parsing and normalising of lines, encoding and validation of events,
deployment timers; no state or pure text. Wall-clock jumps are left out: time only passes.

Not modelled yet: the batches of concurrent probes in `choose()`; lease and health stores
behind a network, for which the package has only the protocol; opening a journal file with
its identity row, which happens once per process; the update policy under several processes
that replace one pool (`PoolSync` is one process).

Next, in order:

1. `choose()` in batches and read-mark-save on an external store, as further actions of
   `ProxyLeases`; two openers of one journal file.
2. The update policy with several processes on one pool file, composing `PoolSync` and
   `PoolFile`.
