----------------------------- MODULE Discovery -----------------------------
(***************************************************************************)
(* How the proxy follows the cluster: the stream of member lists           *)
(* (sonya-proxy/src/service_discovery/etcd.rs and api.rs), the actor that  *)
(* handles them (service_discovery/mod.rs), the registry they are sent to  *)
(* (registry.rs) and the upstream connections of websocket_proxy_client.rs *)
(* that are opened from the registry and reloaded after an update.         *)
(*                                                                         *)
(* Concurrent are the discovery actor, the registry's SyncArbiter threads, *)
(* which share one mailbox and one RwLock, and one task per upstream       *)
(* client, polled by a runtime thread of its own.                          *)
(***************************************************************************)
EXTENDS Integers, Sequences, FiniteSets

CONSTANTS Shards,         \* addresses of queue servers
          Kinds,          \* kinds of service discovery: "etcd", "api"
          Defaults,       \* the member lists a configuration may start with
          Registries,     \* threads of the registry's SyncArbiter
          Clients,        \* upstream clients
          AllClients,     \* those of a whole queue: connected to every shard
          Route,          \* Maglev: the shard of the other clients' key
          NoMsg,          \* a registry thread without a message
          MaxReconnects,  \* MAX_RECONNECT_ATTEMPTS (10 in the code)
          MaxChanges,     \* bound: changes of the member list
          MaxFaults       \* bound: failures of the discovery stream

Lists == SUBSET Shards

ASSUME DiscoveryAssumption ==
  /\ Kinds \subseteq {"etcd", "api"}
  /\ Defaults \subseteq Lists
  /\ AllClients \subseteq Clients
  /\ Route \in [Lists \ {{}} -> Shards]
  /\ \A S \in Lists \ {{}} : Route[S] \in S
  /\ MaxReconnects \in Nat /\ MaxChanges \in Nat /\ MaxFaults \in Nat

Update(S) == [type |-> "update", list |-> S]
Ask(c) == [type |-> "ask", by |-> c]
Messages == [type : {"update"}, list : Lists] \cup [type : {"ask"}, by : Clients]

ASSUME NoMsgAssumption == NoMsg \notin Messages

VARIABLES
  kind,       \* which discovery is configured
  members,    \* the cluster: keys under the etcd prefix, or the last list posted
  feed,       \* what the stream has yet to receive: watch events, or posted lists
  phase,      \* where the discovery stream stands
  known,      \* its registry_list
  attempts,   \* ServiceDiscoveryActor.attempts
  turn,       \* where the actor stands in its update handler
  epoch,      \* its current broadcaster: one more with every update
  fired,      \* broadcasters below it have state = true
  mailbox,    \* messages to RegistryActor
  hand,       \* per registry thread: the message it handles
  registry,   \* the nodes of the shared Maglev table
  pc,         \* per client: where it stands
  nodes,      \* per client: the addresses it connects to
  sub,        \* per client: the broadcaster it waits on
  waiting,    \* the clients whose waker is in waiters of their broadcaster
  woken,      \* the clients that were woken while being polled
  changes, faults

\* History variables: no action reads them.
VARIABLES
  missed,     \* shards that changed between the list and the watch
  raced,      \* clients whose addresses were read, or kept, across an update
  failures    \* stream ends since the last update

feedVars == <<kind, members, feed, changes>>
actorVars == <<phase, known, attempts, turn, epoch, fired, faults>>
registryVars == <<mailbox, hand, registry>>
clientVars == <<pc, nodes, sub, waiting, woken>>
pastVars == <<missed, raced, failures>>
vars == <<feedVars, actorVars, registryVars, clientVars, pastVars>>

\* The types of the state.
TypeOK ==
  /\ kind \in Kinds
  /\ members \in Lists
  /\ kind = "etcd" => feed \in Seq([shard : Shards, put : BOOLEAN])
  /\ kind = "api" => feed \in Seq(Lists)
  /\ phase \in {"connect", "get", "watch", "first", "watching", "finished", "over"}
  /\ known \in Lists
  /\ attempts \in 0..MaxReconnects
  /\ turn \in {"free", "store", "wake"}
  /\ epoch \in Nat /\ fired \in {epoch, epoch - 1}
  /\ mailbox \in Seq(Messages)
  /\ hand \in [Registries -> Messages \cup {NoMsg}]
  /\ registry \in Lists
  /\ pc \in [Clients -> {"idle", "ask", "asked", "connect", "join",
                         "poll", "load", "parked"}]
  /\ nodes \in [Clients -> Lists]
  /\ \A c \in Clients : pc[c] \in {"connect", "join"} => nodes[c] # {}
  /\ sub \in [Clients -> 0..epoch]
  /\ waiting \subseteq Clients /\ woken \subseteq Clients
  /\ changes \in 0..MaxChanges /\ faults \in 0..MaxFaults
  /\ missed \in Lists /\ raced \subseteq Clients /\ failures \in Nat

\* main: the registry starts with the configured list.
Init ==
  /\ kind \in Kinds
  /\ members \in Defaults
  /\ feed = <<>>
  /\ phase = IF kind = "etcd" THEN "connect" ELSE "watching"
  /\ known = {}
  /\ attempts = 0
  /\ turn = "free" /\ epoch = 0 /\ fired = 0
  /\ mailbox = <<>>
  /\ hand = [r \in Registries |-> NoMsg]
  /\ registry = members
  /\ pc = [c \in Clients |-> "idle"]
  /\ nodes = [c \in Clients |-> {}]
  /\ sub = [c \in Clients |-> 0]
  /\ waiting = {} /\ woken = {}
  /\ changes = 0 /\ faults = 0
  /\ missed = {} /\ raced = {} /\ failures = 0

-----------------------------------------------------------------------------
(* The cluster.                                                             *)

\* etcd: a server puts its key (again), or its lease expires.  A watch sees
\* the changes made after it was created.
Change(s, put) ==
  /\ kind = "etcd"
  /\ changes < MaxChanges
  /\ put \/ s \in members
  /\ members' = IF put THEN members \cup {s} ELSE members \ {s}
  /\ changes' = changes + 1
  /\ feed' = IF phase \in {"first", "watching"}
             THEN Append(feed, [shard |-> s, put |-> put]) ELSE feed
  /\ missed' = CASE phase = "watch" -> missed \cup {s}
                 [] phase \in {"first", "watching"} -> missed \ {s}
                 [] OTHER -> missed
  /\ UNCHANGED <<kind, actorVars, registryVars, clientVars, raced, failures>>

\* api: POST /registry puts a list into the channel of the stream.
service_registry_api(S) ==
  /\ kind = "api"
  /\ changes < MaxChanges
  /\ members' = S
  /\ changes' = changes + 1
  /\ feed' = Append(feed, S)
  /\ UNCHANGED <<kind, actorVars, registryVars, clientVars, pastVars>>

-----------------------------------------------------------------------------
(* The discovery actor and its stream.                                      *)

Updates == {m \in Messages : m.type = "update"}

\* Some update was sent to the registry and is not applied yet.
Outstanding ==
  \/ \E k \in DOMAIN mailbox : mailbox[k] \in Updates
  \/ \E r \in Registries : hand[r] \in Updates

\* Mutants of HandleUpdate: the broadcaster is not replaced; attempts is not
\* reset.
HandleUpdateNoTake(S) ==
  /\ turn = "free"
  /\ turn' = "store"
  /\ attempts' = 0
  /\ failures' = 0
  /\ mailbox' = Append(mailbox, Update(S))
  /\ raced' = raced \cup {c \in Clients : pc[c] \in {"connect", "join"}}
  /\ UNCHANGED <<epoch, fired, hand, registry, clientVars, faults>>

HandleUpdateKeepsAttempts(S) ==
  /\ turn = "free"
  /\ turn' = "store"
  /\ failures' = 0
  /\ mailbox' = Append(mailbox, Update(S))
  /\ epoch' = epoch + 1
  /\ raced' = raced \cup {c \in Clients : pc[c] \in {"connect", "join"}}
  /\ UNCHANGED <<attempts, fired, hand, registry, clientVars, faults>>

\* handle(UpdateRegistry), up to std::mem::take: the list is sent to the
\* registry and a fresh broadcaster takes the place of the old one.
HandleUpdate(S) ==
  /\ turn = "free"
  /\ turn' = "store"
  /\ attempts' = 0
  /\ failures' = 0
  /\ mailbox' = Append(mailbox, Update(S))
  /\ epoch' = epoch + 1
  /\ raced' = raced \cup {c \in Clients : pc[c] \in {"connect", "join"}}
  /\ UNCHANGED <<fired, hand, registry, clientVars, faults>>

\* Client::connect.
Connected ==
  /\ phase = "connect"
  /\ phase' = "get"
  /\ UNCHANGED <<feedVars, known, attempts, turn, epoch, fired, faults,
                 registryVars, clientVars, pastVars>>

\* client.get(prefix).
GetList ==
  /\ phase = "get"
  /\ phase' = "watch"
  /\ known' = members
  /\ missed' = {}
  /\ UNCHANGED <<feedVars, attempts, turn, epoch, fired, faults,
                 registryVars, clientVars, raced, failures>>

\* client.watch(prefix), from the current revision on.
StartWatch ==
  /\ phase = "watch"
  /\ phase' = "first"
  /\ feed' = <<>>
  /\ UNCHANGED <<kind, members, changes, known, attempts, turn, epoch, fired,
                 faults, registryVars, clientVars, pastVars>>

YieldFirst ==
  /\ phase = "first"
  /\ HandleUpdate(known)
  /\ phase' = "watching"
  /\ UNCHANGED <<feedVars, known, missed>>

\* Mutant of YieldEvent: a Delete is taken for a Put.
YieldEventPut ==
  /\ kind = "etcd" /\ phase = "watching" /\ feed # <<>>
  /\ LET S == known \cup {Head(feed).shard}
     IN  known' = S /\ HandleUpdate(S)
  /\ feed' = Tail(feed)
  /\ UNCHANGED <<kind, members, changes, phase, missed>>

\* An event is applied to the list, and the whole list is yielded.
YieldEvent ==
  /\ kind = "etcd" /\ phase = "watching" /\ feed # <<>>
  /\ LET e == Head(feed)
         S == IF e.put THEN known \cup {e.shard} ELSE known \ {e.shard}
     IN  known' = S /\ HandleUpdate(S)
  /\ feed' = Tail(feed)
  /\ UNCHANGED <<kind, members, changes, phase, missed>>

YieldPosted ==
  /\ kind = "api" /\ feed # <<>>
  /\ known' = Head(feed)
  /\ HandleUpdate(Head(feed))
  /\ feed' = Tail(feed)
  /\ UNCHANGED <<kind, members, changes, phase, missed>>

\* A request fails, or the watch breaks or is cancelled.
StreamFails ==
  /\ kind = "etcd"
  /\ phase \in {"connect", "get", "watch", "watching"}
  /\ turn = "free"
  /\ faults < MaxFaults
  /\ faults' = faults + 1
  /\ failures' = failures + 1
  /\ phase' = "finished"
  /\ feed' = <<>>
  /\ UNCHANGED <<kind, members, changes, known, attempts, turn, epoch, fired,
                 registryVars, clientVars, missed, raced>>

\* Mutant of Finished: one reconnect too many.
FinishedLate ==
  /\ phase = "finished"
  /\ IF attempts > MaxReconnects
     THEN phase' = "over" /\ UNCHANGED attempts
     ELSE phase' = "connect" /\ attempts' = attempts + 1
  /\ UNCHANGED <<feedVars, known, turn, epoch, fired, faults, registryVars,
                 clientVars, pastVars>>

\* finished: the stream is built again, or given up.
Finished ==
  /\ phase = "finished"
  /\ IF attempts = MaxReconnects
     THEN phase' = "over" /\ UNCHANGED attempts
     ELSE phase' = "connect" /\ attempts' = attempts + 1
  /\ UNCHANGED <<feedVars, known, turn, epoch, fired, faults, registryVars,
                 clientVars, pastVars>>

\* state.store(true) of the broadcaster that was taken.
StoreState ==
  /\ turn = "store"
  /\ turn' = "wake"
  /\ fired' = epoch
  /\ UNCHANGED <<feedVars, phase, known, attempts, epoch, faults, registryVars,
                 clientVars, pastVars>>

\* Its waiters are woken: a parked task is polled, a task that is being
\* polled will be polled once more.
WakeWaiters ==
  LET waiters == {c \in waiting : sub[c] = epoch - 1}
  IN  /\ turn = "wake"
      /\ turn' = "free"
      /\ pc' = [c \in Clients |->
                  IF c \in waiters /\ pc[c] = "parked" THEN "poll" ELSE pc[c]]
      /\ woken' = woken \cup {c \in waiters : pc[c] \in {"poll", "load"}}
      /\ UNCHANGED <<feedVars, phase, known, attempts, epoch, fired, faults,
                     registryVars, nodes, sub, waiting, pastVars>>

-----------------------------------------------------------------------------
(* The registry.                                                            *)

\* An idle thread takes the next message of the shared mailbox.
Take(r) ==
  /\ hand[r] = NoMsg
  /\ mailbox # <<>>
  /\ hand' = [hand EXCEPT ![r] = Head(mailbox)]
  /\ mailbox' = Tail(mailbox)
  /\ UNCHANGED <<feedVars, actorVars, registry, clientVars, pastVars>>

\* handle(UpdateRegistry), under the write lock.
ApplyUpdate(r) ==
  /\ hand[r] \in Updates
  /\ registry' = hand[r].list
  /\ hand' = [hand EXCEPT ![r] = NoMsg]
  /\ UNCHANGED <<feedVars, actorVars, mailbox, clientVars, pastVars>>

\* handle(GetAllAddresses) and handle(GetAddress), with get_all_addresses
\* and get_address, which panic on an empty registry: the client is gone.
Target(c, S) == IF c \in AllClients THEN S ELSE {Route[S]}

Reply(r, c) ==
  /\ hand[r] = Ask(c)
  /\ hand' = [hand EXCEPT ![r] = NoMsg]
  /\ IF registry = {}
     THEN pc' = [pc EXCEPT ![c] = "idle"] /\ UNCHANGED <<nodes, raced>>
     ELSE /\ pc' = [pc EXCEPT ![c] = "connect"]
          /\ nodes' = [nodes EXCEPT ![c] = Target(c, registry)]
          /\ raced' = IF Outstanding THEN raced \cup {c} ELSE raced \ {c}
  /\ UNCHANGED <<feedVars, actorVars, mailbox, registry, sub, waiting, woken,
                 missed, failures>>

-----------------------------------------------------------------------------
(* An upstream client.                                                      *)

\* The stream of c is dropped; at is where c goes on.
Leave(c, at) ==
  /\ pc' = [pc EXCEPT ![c] = at]
  /\ nodes' = [nodes EXCEPT ![c] = {}]
  /\ sub' = [sub EXCEPT ![c] = 0]
  /\ waiting' = waiting \ {c}
  /\ woken' = woken \ {c}
  /\ raced' = raced \ {c}
  /\ UNCHANGED <<feedVars, actorVars, registryVars, missed, failures>>

Start(c) ==
  /\ pc[c] = "idle"
  /\ Leave(c, "ask")

\* add_stream, add_stream_all: the registry is asked ...
SendAsk(c) ==
  /\ pc[c] = "ask"
  /\ pc' = [pc EXCEPT ![c] = "asked"]
  /\ mailbox' = Append(mailbox, Ask(c))
  /\ UNCHANGED <<feedVars, actorVars, hand, registry, nodes, sub, waiting,
                 woken, pastVars>>

\* ... all connections are made, and one that fails stops the client ...
Connect(c) ==
  /\ pc[c] = "connect"
  /\ \/ /\ pc' = [pc EXCEPT ![c] = "join"]
        /\ UNCHANGED <<feedVars, actorVars, registryVars, nodes, sub, waiting,
                       woken, pastVars>>
     \/ Leave(c, "idle")

\* ... and reloading_stream_factory subscribes to the next update.
SubscribeUpdates(c) ==
  /\ pc[c] = "join"
  /\ turn = "free"
  /\ sub' = [sub EXCEPT ![c] = epoch]
  /\ pc' = [pc EXCEPT ![c] = "poll"]
  /\ UNCHANGED <<feedVars, actorVars, registryVars, nodes, waiting, woken,
                 pastVars>>

\* Mutant of PollRegister: Pending is returned without a look at the state.
PollRegisterParks(c) ==
  /\ pc[c] = "poll"
  /\ pc' = [pc EXCEPT ![c] = IF c \in waiting THEN "load" ELSE "parked"]
  /\ waiting' = waiting \cup {c}
  /\ woken' = woken \ {c}
  /\ UNCHANGED <<feedVars, actorVars, registryVars, nodes, sub, pastVars>>

\* ServiceDiscoveryUpdateSubscribeFuture::poll: the waker is pushed once ...
PollRegister(c) ==
  /\ pc[c] = "poll"
  /\ pc' = [pc EXCEPT ![c] = "load"]
  /\ waiting' = waiting \cup {c}
  /\ woken' = woken \ {c}
  /\ UNCHANGED <<feedVars, actorVars, registryVars, nodes, sub, pastVars>>

\* ... and then the state is read: true ends the stream, and finished starts
\* it anew (attempts is 0 and stays 0).
PollLoad(c) ==
  /\ pc[c] = "load"
  /\ IF sub[c] < fired
     THEN Leave(c, "ask")
     ELSE /\ pc' = [pc EXCEPT ![c] = IF c \in woken THEN "poll" ELSE "parked"]
          /\ UNCHANGED <<feedVars, actorVars, registryVars, nodes, sub, waiting,
                         woken, pastVars>>

\* A frame arrives and is passed on.
Frame(c) ==
  /\ pc[c] = "parked"
  /\ pc' = [pc EXCEPT ![c] = "poll"]
  /\ UNCHANGED <<feedVars, actorVars, registryVars, nodes, sub, waiting, woken,
                 pastVars>>

\* One of the connections ends, which ends the stream (ConnectionsAggregator)
\* and restarts it; or it fails, which stops the client.
Break(c) ==
  /\ pc[c] = "parked"
  /\ \/ Leave(c, "ask")
     \/ Leave(c, "idle")

\* CloseEmptyConnection, or a frame nobody receives.
Collect(c) ==
  /\ pc[c] \in {"connect", "join", "poll", "load", "parked"}
  /\ Leave(c, "idle")

-----------------------------------------------------------------------------
Cluster ==
  \/ \E s \in Shards, put \in BOOLEAN : Change(s, put)
  \/ \E S \in Lists : service_registry_api(S)

Actor ==
  \/ Connected \/ GetList \/ StartWatch
  \/ YieldFirst \/ YieldEvent \/ YieldPosted \/ Finished
  \/ StoreState \/ WakeWaiters

Registry(r) == Take(r) \/ ApplyUpdate(r) \/ \E c \in Clients : Reply(r, c)

Client(c) ==
  \/ SendAsk(c) \/ Connect(c) \/ SubscribeUpdates(c)
  \/ PollRegister(c) \/ PollLoad(c)

Outside(c) == Start(c) \/ Frame(c) \/ Break(c) \/ Collect(c)

Next ==
  \/ Cluster \/ StreamFails \/ Actor
  \/ \E r \in Registries : Registry(r)
  \/ \E c \in Clients : Client(c) \/ Outside(c)

\* The actor, the threads and the tasks run when they can.
Fairness ==
  /\ WF_vars(Actor)
  /\ \A r \in Registries : WF_vars(Registry(r))
  /\ \A c \in Clients : WF_vars(Client(c))

Spec == Init /\ [][Next]_vars
FairSpec == Spec /\ Fairness

-----------------------------------------------------------------------------
(* Properties.                                                              *)

\* s is a member once the stream has applied what it has yet to receive.
KnownSoon(s) ==
  LET K == {k \in DOMAIN feed : feed[k].shard = s}
  IN  IF K = {} THEN s \in known
      ELSE \E k \in K : (\A j \in K : j <= k) /\ feed[k].put

\* The etcd stream is right about every shard, up to events on their way,
\* except one that changed between its list and its watch and not since.
FollowsEtcdOutsideWindow ==
  kind = "etcd" /\ phase \in {"watch", "first", "watching"} =>
    \A s \in Shards \ missed :
      (IF phase = "watch" THEN s \in known ELSE KnownSoon(s)) <=> s \in members

Streaming(c) == pc[c] \in {"poll", "load", "parked"}

\* A stream that no update will end is connected to the shards of the current
\* registry, unless an update was under way when it read its addresses or
\* came in before it subscribed to updates.
ConnectedOutsideWindow ==
  \A c \in Clients :
    Streaming(c) /\ sub[c] = epoch /\ c \notin raced =>
      nodes[c] = Target(c, registry)

\* finished gives up only when the first try and all MAX_RECONNECT_ATTEMPTS
\* others ended without an update in between.
GivesUpLast == phase = "over" => failures = MaxReconnects + 1

\* A parked stream that an update is to end is in the list of waiters that
\* the actor has yet to wake.
NoWakeUpLost ==
  \A c \in Clients :
    pc[c] = "parked" /\ sub[c] < epoch =>
      turn # "free" /\ sub[c] = epoch - 1 /\ c \in waiting

\* No wake-up is lost between push and load on one side and store and wake
\* on the other: an update ends every stream that waited for it.
ReloadsAfterUpdate ==
  \A c \in Clients : (Streaming(c) /\ sub[c] < epoch) ~> ~Streaming(c)

\* Nothing is on its way any more.
Settled ==
  /\ phase = "watching" /\ epoch > 0 /\ feed = <<>> /\ turn = "free"
  /\ ~Outstanding

\* documentation/sharding.md: "Every proxy must know about all available
\* queue shards in your cluster."
KnowsAllShards == Settled => registry = members

\* documentation/api/queue/websocket.md: a subscription to a queue is one "to
\* all queue updates on every shard".
OnEveryShard ==
  \A c \in AllClients :
    Settled /\ pc[c] = "parked" /\ sub[c] = epoch => nodes[c] = registry
=============================================================================
