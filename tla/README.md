# Sonya: a TLA+ verification project

Sonya is a message broker for web clients: a server (`sonya`) that stores and
broadcasts messages, and a proxy (`sonya-proxy`) that spreads queues over many
servers. This directory models it in TLA+, checks the models with TLC and
proves theorems about them with TLAPS.

## 1. Inventory

### The server (`src/sonya`)

*Queue store and broadcasts* (`queue/map.rs`). State: a sled database with one
tree per queue (key: id bytes followed by the sequence, value: the message), a
counter per queue and id in the default tree, and, under one mutex,
`queue_broadcasts`: a tokio broadcast channel per queue and one per id.
Operations: `create_queue`, `delete_queue`, `send_to_queue`, `close_queue`,
`subscribe_queue`, `subscribe_queue_by_id`. They run on the HTTP workers
concurrently; each sled call is atomic, sequences of calls are not, and the
mutex covers only part of each operation. Correct means: sequences are dense
and given once, answered messages stay until superseded or deleted, a
subscriber gets everything it asked for once and in order, or its stream ends.

*Handlers* (`main.rs`, `queue/connection.rs`). They call the above and drain
the returned stream: a websocket until it ends, a long poll for as many
messages as the history held, and at least one.

*Registration* (`service_discovery/etcd.rs`). State: a connection to etcd, a
lease of 5 s kept alive every 2 s, the server's key on that lease. A failure
starts the registration anew; after ten failed connections in a row the server
ends. Correct means: a healthy server stays in the list, one that is gone
leaves it.

### The proxy (`src/sonya-proxy`)

*Registry* (`registry.rs`): the ring of server addresses, shared by the
threads of a SyncArbiter. *Service discovery* (`service_discovery/`): a stream
of address lists, waiters that reload their upstream connection on an update,
a bounded number of reconnects. *Websocket clients*
(`websocket_proxy_client.rs`, `websocket_proxy.rs`): one upstream connection
per queue and id shared by many subscribers, reconnects, a timer that closes
unused ones. *HTTP handlers* (`main.rs`): a send and a long poll by id go to
the server of the id; create, delete and close go to every server; a
queue-wide long poll asks all of them, and answers when none has said anything
new for a second. Correct means: the servers agree on what exists, what was
answered can be read, what was deleted cannot, and nobody hangs on a server,
client or socket that is gone.

### Interaction

Clients reach a server directly or through a proxy. The server's handlers
share sled and the mutex and nothing else. In the proxy the discovery actor
sends lists to the registry as messages, wakes the upstream clients through
shared memory (`waiters`, `state`), and is asked by them for a subscription to
the next update; the clients ask the registry for addresses as messages.

### What is hard

* A send is five steps (sequence, open, insert, trim, broadcast), a
  subscription four (check, open, read history, join channel); a delete or a
  close may run between any two, and a close invalidates tree handles.
* A receiver that is behind by the capacity of its channel loses messages.
* Keys are bytes: prefixes, the order of big-endian numbers, `u64::MAX`.
* Registry updates, reads of the registry and wake-ups happen on different
  threads with nothing that orders them.
* etcd is read and then watched, in two requests; each may fail.
* A server that crashes loses what sled has not flushed, and may do so between
  the steps of a send.
* A call to one of several shards fails, and the shard may handle it all the
  same, later, between the steps of another request.
* Upstream clients are found, created, replaced, collected and stopped by
  different threads that share a map and mailboxes.
* A lease runs out while its keep-alive is under way.

`PROJECT.json` lists each hazard at its line with the properties aimed at it.

## 2. Modules

| module | models | role |
|---|---|---|
| `History` | keys and scans of `queue/map.rs`, the `sequence` parameter of `sonya-meta/src/message.rs` | pure operators |
| `Queue` | `queue/map.rs`, `main.rs` handlers, `queue/connection.rs` | state machine of one server |
| `QueueProps` | | properties of `Queue` |
| `MCQueue` | | constants for TLC |
| `Queue_proofs` | | types, sequences |
| `Delivery_proofs` | | what a stream is handed: nothing lost, nothing twice, in order |
| `Retention_proofs` | | what the trees keep |
| `Discovery` | `service_discovery/*`, `registry.rs`, the upstream streams of `websocket_proxy_client.rs` | state machine of the proxy's view of the cluster, with its properties |
| `Discovery_proofs` | | the invariants of `Discovery` |
| `Restart` | `Queue` with sled on disk: flushes, crashes, `Queue::new` | composes `Queue` with faults; its properties |
| `Restart_proofs` | | the invariants of `Restart` |
| `ProxyClients` | `websocket_proxy_client.rs`, `websocket_proxy.rs`, the websocket handlers of the proxy's `main.rs` | state machine of the shared upstream clients, with its properties |
| `ProxyClients_proofs` | | the invariants of `ProxyClients` |
| `Membership` | | what registration promises: the abstract specification |
| `Registration` | `sonya/src/service_discovery/etcd.rs`, the start of it in `main.rs` | state machine of the servers and etcd's leases, with its properties; implements `Membership` |
| `Registration_proofs` | | the invariants of `Registration` and its refinement |
| `FanOut` | the HTTP handlers of the proxy's `main.rs` over several servers | composes the proxy with its shards; its properties |
| `FanOut_proofs` | | the invariants of `FanOut` |
| `MCDiscovery`, `MCRestart`, `MCProxyClients`, `MCRegistration`, `MCFanOut` | | constants for TLC |

### `Queue`: state and actions

`trees`, `store` and `ids` are sled: the names of the trees, their messages,
and the counters of the default tree. `channels` and `lock` are
`queue_broadcasts` and its mutex. Each worker in `Threads` and each
subscription in `Conns` has a `pc` and the local variables of its handler
(`queue`, `msg`, `batch`, `want`, `prev`, `quota`); `inbox` and `rx` are its
receiver. A step ends before the next sled call or the next lock, so a handler
is a chain of actions:

| code | actions |
|---|---|
| `send_to_queue` | `SendToQueue`, `GenerateNextId`, `OpenTree`, `Insert`, `ScanSurplus`, `Trim`, `Broadcast`; `SendFails` when the tree was dropped |
| `create_queue` | `CreateQueue` |
| `delete_queue` | `DeleteQueue`, `DeleteScan`, `DeleteApply` |
| `close_queue` | `CloseQueue`, `DropTree` |
| `subscribe_queue`, `subscribe_queue_by_id` | `Subscribe`, `SubscribeOpen`, `SubscribeRead`, `SubscribeLock` |
| `prepare_stream` and who drains it | `YieldPrev`, `YieldLive`, `StreamEnds`, `ClientGone` |

The remaining variables (`generated`, `inserted`, `removed`, `acked`,
`before`, `replayed`, `live`, `overlap`, `horizon`) are histories that the
properties talk about and no action reads.

Abstractions: a payload is the number of its request (`uid`); an id is a
string of which only order and prefix relation count (`IdRank`, `Extends`); a
scan of a tree is one step (sled's iterators are not snapshots, so a scan that
meets a concurrent insert is placed before or after it); a subscription is
used once; sled and the tokio channel are modelled from how they are used.

### `Discovery`: state and actions

`members` is the truth (the keys in etcd, or the last list posted), `feed`
what the stream has not received. `phase`, `known` and `attempts` are the
stream and the actor; `epoch` numbers the broadcasters, since every update
replaces the current one (`std::mem::take`), and those below `fired` have
`state = true`. `mailbox`, `hand` and `registry` are the SyncArbiter and the
shared table. A client goes `ask`, `asked`, `connect`, `join`, then is polled:
`poll` (push the waker), `load` (read the state), `parked`.

| code | actions |
|---|---|
| etcd `factory` | `Connected`, `GetList`, `StartWatch`, `YieldFirst`, `YieldEvent`, `StreamFails` |
| api `factory`, `service_registry_api` | `service_registry_api`, `YieldPosted` |
| `handle(UpdateRegistry)`, `finished` | `HandleUpdate`, `StoreState`, `WakeWaiters`, `Finished` |
| `RegistryActor` | `Take`, `ApplyUpdate`, `Reply` |
| `WebSocketProxyClient` | `Start`, `SendAsk`, `Connect`, `SubscribeUpdates`, `PollRegister`, `PollLoad`, `Frame`, `Break`, `Collect` |

Changes of etcd are unrestricted (any server may register or lapse at any
time), which is more than the servers' registration loop can do. The Maglev
table is a constant function from the node set to the shard of one key.
`missed`, `raced` and `failures` are histories. A client that is stopped while
its question is in the registry's mailbox is stopped right after the answer
instead, which nobody can tell apart.

### `Restart`: state and actions

`Restart` extends `Queue`: `Serve` is any step of the server, and `disk` is
the image that a restart finds. sled writes one log for all trees and recovers
a prefix of it, so that an image is the state of sled at one moment: `Flush`
takes one at any time, which stands for the background flush. `Crash` loses
everything in memory (`Forget`) in the middle of any request and runs
`Queue::new` on the image: the trees and counters as flushed, and the default
queues. A server without `db_path` is the case in which nothing is ever
flushed. `generated`, `inserted` and `removed` go back to what they were at the
flush (`flushed`, `logged`): a sequence drawn after it is one nobody can have
relied on, and a version that the crash has taken supersedes nothing.
`durable` and `untrimmed` are histories as well.

### `ProxyClients`: state and actions

The storage map for one key is `addr`; a client actor has a `state`, a
`mailbox`, an upstream `link` with the frames it has received, and the request
that created it (`owner`), whose `sequence` it repeats at every connection. A
websocket request goes `insert` or `send`, `await`, `start`, `open`, `closed`.

| code | actions |
|---|---|
| `get_addr` | `GetAddr` (read lock), `Insert` (write lock, and the `Subscribe` of the creator) |
| `addr.send(Subscribe)`, `handle(Subscribe)` | `SendSubscribe`, `HandleSubscribe` |
| `clear` | `clear` |
| `WebSocketProxyClient` | `Connect`, `HandleFrame`, `HandleError`, `Finished`, `CloseEmptyConnection`; `Stop` is part of those that stop it |
| the upstream connections, `ConnectionsAggregator` | `Arrive`, `ShardCloses` |
| `WebSocketProxyActor` | `Started`, `HandleResponse`, `StreamEnds`, `BrowserGone` |

`attempts` of a client is never counted up in the code, so every end of the
upstream stream starts it again. A new actor handles its first `Subscribe`
before any timer: it is polled first on the thread that created it, after the
message was sent, and its mailbox comes before its futures; that is why `fresh`
and `running` differ. The address list and the reload are in `Discovery`.

Frames are numbered for each client in the order in which they arrive, and the
properties are about what the proxy does with them from there. What a shard
sends is the business of `Queue`: that it may leave a message out is the run
`subscribe_gap`. The shards of a queue-wide subscription are merged in the order
in which the aggregator polls them, which orders nothing across shards. A
connection after a reload has new frames: with a `sequence` the shard sends its
history once more, so a socket may be written a message again, and without one
whatever was sent in between is missing. `starts` holds the first frame of each
connection. `unseen` and `displaced` say which clients a request could not have
found and which it put out of the map.

### `Registration`: state and actions

Time is discrete (`Second` ticks to a second). A request takes effect, and is
answered, within `Latency`, unless a `Delay` slows it down without limit; time
does not pass the moment at which a server has to act. The leases of a server
are numbered as they are `granted`, each with what is left of it (`life`); its one
`key` hangs on one of them, not always the last, because a server that registers
again gets a new lease before it puts its key again. A put or keep-alive that
has failed for the server, or whose server has died, may still be on its way
(`late`, filled by `Abandon`): etcd handles it at any later moment at which its
lease exists, or never. A grant of which nobody hears the answer gives a lease
that nobody uses, and is left out.

| code | actions |
|---|---|
| `Client::connect`, `lease_grant`, `put`, `keep_alive` | `Grant`, `Put`, `KeepAlive` (etcd handles it), `Answered`, `Fail`, `Delay` |
| `sleep_between_reconnects`, `DEFAULT_SLEEP`, the return at the last attempt | `WakeUp`, `Quit` |
| `main` | `Start`, `Crash` |
| etcd | `Tick` (leases run out), `Late` (a request that nobody waits for) |

`astray` names the servers whose key a late put has moved to an earlier lease.
That is a window of the code: the server keeps its new lease alive without an
error and does not put the key again, so it drops out of the list while it runs.
A server that comes back with a random `instance_id` is another
server. The pause is modelled as the code computes it, the root of 1.5 times
the attempts in whole seconds; the comment at
`src/sonya-meta/src/api.rs:226` puts the factor outside the root.

### `FanOut`: state and actions

A shard has one queue (`open`, `store`) with a `counter` for each id. Its handlers
are one step each, except that a send and a long poll check for the tree and
open it in two, so that a close can come between, and that a long poll that
waits reads its channel in a step of its own (`Wake`), so that a channel can be
overrun before; `Queue` has the other interleavings. `seq` is the sequence of a
message, `behind` how many messages a waiting long poll has not read. `call` is
what became of a request on each shard, `lost` the shards whose call failed
for the proxy: such a request may still be handled. `rest` and `got` are
`requests` and `results` of the queue-wide long poll.

| code | actions |
|---|---|
| a handler reads the registry and sends | `Accept` (with an empty registry the handler panics) |
| `create_queue`, `delete_queue`, `close_queue` through `base_diagonal_proxy` | `base_diagonal_proxy` |
| `send_to_queue`, `subscribe_queue_by_id_longpoll` | the actions of those names |
| `subscribe_queue_longpoll` | `Collect`, `Timeout` |
| the shards | `Check`, `Store` (with `Trim` and `Broadcast`), `Join`, `Wake`, `Create`, `Delete`, `Close`, `Refuse` |
| network, discovery | `Fail`, `UpdateRegistry` |

Details that the model keeps: `base_diagonal_proxy` looks at transport errors
only, so a shard that answers 500 counts as done; in `subscribe_queue_longpoll`
a bad status is passed on only when it comes first, since later the inner
`status` shadows the outer one and the body fails to parse (410). `sequence` is
reduced to whether the history is asked for. With `max_key_updates` 0 a send
stores nothing and does not open the tree; with any other limit it trims its id.
A long poll that waits answers with the first message of its channel, or with an
empty list when the channel was dropped or overrun before that. `before`,
`stamp`, `removed`, `ended`, `overrun`, `last`, `alone` and `reopened` are histories.

## 3. Runs

| run | instance | shows |
|---|---|---|
| `stream` | 2 workers, 1 subscription from `last` or from 2, 3 sends, 1 create/delete/close, capacity 2, `max_key_updates` 2 | `SequencesDense`, `RealTimeOrder`, `NoLossOutsideWindow`, `NoDuplicateOutsideWindow`, `TrimmedOnlyIfSuperseded`, `RetentionBound` |
| `liveness` | 2 workers, 1 subscription with `last`, 0 or no sequence, 2 sends, 1 create/delete/close, capacity 1 | `RequestAnswered`, `StreamCloses`, `LongpollAnswers` |
| `discovery` | 2 shards, both kinds, 2 registry threads, 1 client, 2 changes, 2 failures, 1 reconnect | `FollowsEtcdOutsideWindow`, `ConnectedOutsideWindow`, `GivesUpLast`, `NoWakeUpLost`, `ReloadsAfterUpdate` |
| `restart` | 2 workers, 4 sends, 1 create/delete/close, `max_key_updates` 2, 1 crash | `FlushedKept`, `FlushedNeverReused`, `RetentionRecovers` |
| `proxy_clients` | 2 sockets with or without a sequence, 2 clients, 2 frames, 1 reload, capacity 1 | `DeliveredInOrder`, `CreatorServed`, `OrphansOnlyFromRace`, `SubscribeReturns`, `DeadSocketCloses`, `NothingLeaks` |
| `registration` | 1 server, 3 faults, 2 processes, 5 leases, latency up to 1 s | `StaysListed`, `GhostsExpire`, `QuitsLast`, `Settles`, and that it implements `Membership` (`ImplementsMembership`, `MembershipCorrected`) |
| `fan_out` | 2 shards, 1 id, 3 requests, 1 fault or change of the ring, `max_key_updates` 2, capacity 1 | `ShardsAgree`, `RemovedStaysRemoved`, `HistoryReachable`, `EmptyOnlyWhenEnded`, `NobodyLeftWaiting` |
| `subscribe_gap` | violation of `AllUpdatesSent` | a message stored and broadcast between the history read and the joining of the channel is lost to a subscriber that asked for it |
| `retention_doc` | violation of `VersionsKept` | the third send to an id removes the first message although `max_key_updates` is 3 |
| `delete_prefix` | violation of `DeleteOnlyItsId` | deleting `a` deletes `ab` |
| `registry_order` | violation of `KnowsAllShards` | two registry threads apply two lists in the wrong order |
| `stale_upstream` | violation of `OnEveryShard` | a client that connects across an update stays on the old shards |

The violation runs state what the documentation says; the findings in
`PROJECT.json` quote it. `AllUpdatesSent` and `NoLossOutsideWindow`, and
`OnEveryShard` and `ConnectedOutsideWindow`, belong together: the first of
each pair is what is promised, the second the strongest form that the code
keeps, with the window in which it fails named by a history variable
(`overlap`, `raced`). `OrphansOnlyFromRace` and `ShardsAgree` name their windows
the same way (`unseen` with `displaced`, `reopened`): two websocket requests that
both look before there is a client create two, and the first is only reachable
through its own socket; a send that has found the queue re-creates the tree that
a close drops. `StaysListed`, `Settles` and `MembershipCorrected` name the late
put (`calm`, `astray`). `EmptyOnlyWhenEnded` shows what the empty list of a long
poll means: the 410 that the server's handler has for a closed queue is out of
reach of a stream that ends.

`NoWakeUpLost` is the safety half of `ReloadsAfterUpdate`: at no moment is a
stream parked that an update is to end and that the actor has no reason to wake
any more.

`VersionsKept` and `TrimmedOnlyIfSuperseded` are a pair of that kind too.
`skip(m - 1)` counts the version just inserted, so a trim leaves
`max_key_updates` - 1 versions, and none for 1;
`src/documentation/sequence.md:69-76` cleans only when there are more than
`max_key_updates`, and stores one for 1. `VersionsKept` is what it says, and
`retention_doc` shows the first message that is lost. What
`TrimmedOnlyIfSuperseded`, `FlushedKept` and `HistoryReachable` are about is that
overlapping sends, crashes and the proxy lose no message beyond that: they take
the threshold of the code. `RetentionBound` and `RetentionRecovers` have the
documented bound, which is one above what the code keeps.

*Bounds.* Every behaviour the properties are about needs few actors: two sends
to race for a counter, a batch or a channel, a third to overrun a channel of
capacity 2, one delete or close to cut in, one subscriber. A subscriber
from 2 has messages before and after the sequence it asks for, one from `last` a
history that moves while it is read; the invariants of `stream` were also checked
with every form of the parameter (6.5 million states). Retention needs one
send more than the limit, and two concurrent trims; three workers with four
sends and `max_key_updates` 3 were checked without a subscriber (559,431
states). In `discovery` two
changes let one fall into the window and one follow it, two failures exhaust
one reconnect, and two threads suffice to reorder. In `restart` one crash
leaves four sends on its two sides, twice the limit of versions. In
`proxy_clients` two requests race for the map, capacity 1 is overrun by the
second frame, and a socket can be written one frame before the reload and one
after it; three frames and two reloads were checked for the invariants. In `registration` the keys of different servers have nothing to do with
each other, so one is enough; three faults exhaust `MaxReconnects` 2, or fail a
put, slow down what follows and crash the server; with two processes it comes
back while leases and requests of the first one live, and five leases are all
that two processes and three faults lead to. In `fan_out` the
properties relate at most three requests (send, delete or close, long poll), so
`MaxRequests` is 3, and `Mixes` has the requests that come together: one long
poll with two sends and a delete or a close, or with a send, a create and a
close. Two sends to one id supersede a version at `max_key_updates` 2 and overrun
a channel of capacity 1.
One fault reaches each case of partial failure, and failures and ring changes
share that budget (`MaxFaults`). The invariants were also checked where every
kind of request may be made twice (3.3 million states), and `NobodyLeftWaiting` with
`max_key_updates` 0, where every long poll has to wait (2.2 million states). `U64Max` is above every
generated sequence, as 2^64 - 1 is in practice. Workers are symmetric in the
runs without liveness.

*Deadlock.* The `Queue` runs switch the check off: once the budget of requests
is spent and every stream has ended there is nothing to do. That nobody waits
for ever is what `RequestAnswered` says. So do `restart`, for the same reason,
`proxy_clients`, where all sockets may be closed, and `fan_out`, where a long
poll may wait for a message that never comes (`SubscribeReturns`,
`DeadSocketCloses` and `NobodyLeftWaiting` say who may not wait). The `discovery`
and `registration` runs check for deadlock: a client can always be started,
polled or collected, and time can always pass.

*Fairness.* Weak fairness for each worker, stream, registry thread, upstream
client with its timer, socket, and the discovery actor: actix and tokio poll a task that was woken,
and a SyncArbiter thread takes the next message when it is idle. None for
requests, clients going away, frames, faults and changes. In `registration`
time passes and each server's requests are answered (one condition for each
server and one for the clock); none for late requests, which may be handled
never. In `fan_out` one condition over `Run` is enough,
since what happens by itself is finitely many steps. The std mutex is
not fair, but with finitely many requests a waiting worker is in the end the
only one that wants it, so weak fairness is enough.

## 4. Proofs

The theorems hold for every value of the constants that satisfies the named
assumptions: any number of workers, subscriptions, queues, ids, shards,
clients and requests, any capacity and any `max_key_updates`, any number of
faults, crashes and restarts, any latency that `LatencyAssumption` admits. Every invariant of a passing run is
proved. Each proof finds an inductive invariant (checked with TLC before it was
proved), shows that every action keeps it, and derives the properties from it.

### The server

* `Queue_proofs!TypeCorrect`: `Spec => []TypeOK`. The invariant is `TypeInv`:
  `TypeOK` and that trees and replies are finite, without which the quota of a
  long poll is not known to be a number.
* `Queue_proofs!SequencesCorrect`: `Spec => []SequencesDense`. Density is not
  inductive: a counter at `u64::MAX` goes back to 1. `UidsOK` says that every
  request draws at most once; so the number of sequences drawn from a counter
  injects into the requests, and a counter about to be drawn from is below
  `MaxSends <= U64Max` (`SendsAssumption`).
* `Delivery_proofs!NothingLostOutsideWindow`: `Spec => []NoLossOutsideWindow`.
  The invariant adds `AckedOK` (an answered send is no longer in flight),
  `WindowOK` (a send accepted before a subscriber joined and still in flight
  is in its window) and `ReadOK` (before it joins, all else it asked for is in
  the history it read). The steps that matter are the history read, where
  whatever is missing is in flight (`HistoryComplete`), the joining, which
  turns `ReadOK` into the property, and the broadcast, which reaches every
  open receiver that is not full; all others are frames.
* `Delivery_proofs!NoDuplicates`, `OrderKept`: `NoDuplicateOutsideWindow` and
  `RealTimeOrder`. A message enters the channels in the step that answers its
  send. `TakenOK` says so of all that a stream has received or has to read:
  each message is there once, is answered, and comes after none that arrived
  when it was answered; a broadcast is of a request that is not answered yet,
  hence neither in a channel nor in `before` of one that is. `ReplayOK` puts
  into the window whatever was read from the history while its send was in
  flight. `GeneratedOK` ties a generated sequence to the message that carries
  it, and orders generated sequences in real time.
* `Retention_proofs!HistoryBounded`: `Spec => []RetentionBound`, with nested ids
  and custom sequences as well. The sends to an id that have inserted and not
  yet trimmed (`Trimming`) each account for one version too many. That is not
  inductive, since the batches of concurrent trims overlap: removing one may
  leave what another was to remove. The invariant is about every set `T` of
  sends that have scanned: what their batches leave together is at most
  `max_key_updates` - 1 plus the sends not in `T` (`ScansBounded`). A scan leaves
  at most `max_key_updates` - 1 versions of the id (`SurplusLeaves`), an insert
  adds one to both sides, a trim takes its send out of `T`. Every step of the
  server is of one of five kinds (`StepKinds`), for which this is shown once.
* `Retention_proofs!AnsweredKept`:
  `Plain => (Spec => []TrimmedOnlyIfSuperseded)`. `Plain` says
  that senders leave the sequence to the server and that no id starts with
  another; without it the property is not meant and does not hold (section 5,
  and the run `delete_prefix`). The invariant says that every stored message
  has the sequence that `generate_next_id` made for it (so that by
  `SequencesDense` no other has its key, and an insert replaces nothing), and
  that what a scan collected was superseded by then (`BatchOK`): it stays so,
  since `inserted` only grows.
* `Restart_proofs!SequencesSurvive`, `BoundRestored`, `FlushedHistoryKept`:
  `FlushedNeverReused`, `RetentionRecovers`, and `FlushedKept` under `Plain`. They
  use the step lemmas of the modules above, since `Serve` is a step of `Queue`.
  `DiskInv` says of the image what the invariants say of the trees: one message
  per key, counters that count what was flushed. After a crash the bound on
  what the scans leave still holds, with `max_key_updates` for
  `max_key_updates` - 1, and the bound on all versions is restored by a trim or
  by a drop; `RecoverInv` has to know that no send whose handle went stale can
  pass for that trim. `DurableInv` accounts for a flushed message twice, in the
  trees and in the image, and with the inserts until now and until the flush,
  because a crash exchanges the two.

### Discovery and registration

* `Registration_proofs!RegistrationTypes`, `KeepAlivesInTime`,
  `CrashedServersExpire`, `QuitsAfterAllAttempts`: `TypeOK`, `StaysListed`,
  `GhostsExpire` and `QuitsLast`. The assumption that carries them is
  `LatencyAssumption`: two requests and the sleep between them fit into a
  lease, `2 * Latency + DEFAULT_SLEEP < DEFAULT_TTL`. None of the properties is
  inductive. The invariant `IInv` adds `Punctual` (no request or sleep that is
  not slow is older than its limit), `Leased` (how much must be left of the
  lease of a server without faults at each point of the loop, given the age of
  the request or sleep it is in; a refresh gives `DEFAULT_TTL` again), `Calm`
  (such a server is up and not slow), `Holding` and `Alive` (whoever is past the
  grant has a lease, and keys and late requests are about leases that have not
  run out), `Dying` (what is left of a lease of a dead server and the time since
  its death add up to at most two `DEFAULT_TTL`, and to one as long as a
  keep-alive on it is still to be handled) and `Counting` (`attempts` counts the
  failed connections in a row). The step that matters is `Tick`: it takes one
  from the lease and adds one to the age. A late keep-alive is what makes two
  `DEFAULT_TTL` of one: it can refresh a lease once after the death, not twice.
* `Registration_proofs!RefinesMembership`: `Spec => ImplementsMembership`, with
  `live` as the processes that are up, `listed` as the servers whose key is in
  etcd, `steady` as the registered servers without a fault and `pending` as those
  with a put under way. `Membership` lets nobody enter without a put under way,
  and nobody who is steady leave; the second needs `Leased`, since it says that
  no `Tick` ends the lease of a steady server. The answer to a grant asks, `Put`
  and a late put enter, `Tick` lapses whatever has run out, and failures, delays
  and crashes falter; the other steps start a process or stutter.
* `Discovery_proofs`: `TypeCorrect`, `StreamFollowsEtcd`, `ClientsConnected`,
  `StreamGivesUpLast`, `WakeUps`. `FollowsEtcdOutsideWindow` and `NoWakeUpLost` are
  inductive together with `TurnOK` (a broadcaster that was taken has its state
  stored within the turn of its update) and `WakerOK` (a client pushes its waker
  before it reads the state): the two sides write before they read, which is
  why no wake-up falls between. `ConnectedOutsideWindow` needs `AddressOK`: for a
  client that no update has raced with nothing is on its way to the registry
  from the moment it has its addresses. `CountOK` counts the ends of the stream.

### The proxy

* `ProxyClients_proofs`: `TypeCorrect`, `OrderedDelivery`, `CreatorIsServed`,
  `Orphans`. `OwnerOK` says that the request which created a client is the first
  in its mailbox and that the client does nothing before that message, which
  is what serves the creator. Delivery is about one sequence per socket, what it
  was written followed by what its Receiver holds (`PipeOK`), and about how it
  joins what the client has yet to handle of its upstream (`UpstreamOK`,
  `JointOK`); an overrun Receiver is never read again. `LookedOK` says that a
  request about to create a shared client looked before the client that the map
  holds by now existed.
* `FanOut_proofs`: `TypeCorrect`, `EmptyAnswers`, `RemovedForGood`, `HistoryFound`,
  `Agreement`. The invariant relates the state of each call to what its shard
  has done (`StoreOK`, `RemovedOK`, `ReadOK`, `EmptyOK`, `AgreeOK`) and the answer of
  a request to its calls (`AnswerOK`); `RingOK` says that requests with the same
  stamp were sent to the same ring, so that a long poll or a delete reaches the
  shard of the message. `SeqOK` keeps the sequence of a message fixed once it has
  one, so that what was superseded stays so (`Gone`), and what a trim removes has
  `max_key_updates` - 1 newer messages in the store (`OutdoneGone`).

### Only model-checked

The liveness properties (`RequestAnswered`, `StreamCloses`, `LongpollAnswers`,
`ReloadsAfterUpdate`, `SubscribeReturns`, `DeadSocketCloses`, `NothingLeaks`,
`MembershipCorrected`, `Settles`, `NobodyLeftWaiting`): fairness and ENABLED are
out of the prover's reach. And what the violation runs refute.

## 5. Not modelled

* Tokens and JWT, TLS, parsing of the configuration, logging, HTTP routing and
  start-up. They keep no state that a step of another actor could disturb.
* Custom sequences are actions of `Queue` and covered by its theorems, except
  `AnsweredKept` and `FlushedHistoryKept`. The runs leave them out for their size;
  the `stream` instance with `CustomSeqs = {2}` and no `max_key_updates` (11
  million states) satisfies its invariants about sequences and streams.
  `TrimmedOnlyIfSuperseded` is not meant for them: that a generated sequence may
  meet a custom one and overwrite its message is left to the sender by the
  documentation.
* sled below its calls, etcd's own replication, the Maglev table.

## 6. Plan

1. `QueueAbstract`: a server as a log per id with subscribers that receive it,
   what `Queue` promises in one small specification, and the proof that `Queue`
   implements it, from the invariants of `Queue_proofs`, `Delivery_proofs` and
   `Retention_proofs`.
2. Action properties of the shared state across steps, such as that a counter
   never goes back while the server runs.
