------------------------------- MODULE Queue -------------------------------
(***************************************************************************)
(* One Sonya server: sonya/src/queue/map.rs with the HTTP handlers of      *)
(* sonya/src/main.rs and the websocket actor of queue/connection.rs that   *)
(* drain what it returns.                                                  *)
(*                                                                         *)
(* Two kinds of process run concurrently.  Threads are the HTTP workers    *)
(* that serve create, delete, send and close requests; Conns are           *)
(* subscriptions, from the request that opens them to the end of their     *)
(* stream.  They share the sled database, whose single operations are      *)
(* atomic and whose sequences of operations are not, and the mutex over    *)
(* queue_broadcasts.  Every step below ends before the next operation on   *)
(* sled or the next lock.                                                  *)
(***************************************************************************)
EXTENDS History, Sequences

CONSTANTS Queues,         \* queue names
          NoQueue,        \* the request register of an idle process
          Threads,        \* HTTP workers
          Conns,          \* subscriptions
          CounterKey,     \* the bytes queue_name ++ id, for each pair
          MaxKeyUpdates,  \* max_key_updates, or NoLimit for None
          NoLimit,
          Capacity,       \* of a broadcast channel (1024 in the code)
          DefaultQueues,  \* config.default
          CustomSeqs,     \* sequences that senders supply themselves
          SequenceParams, \* raw values of the query parameter `sequence`
          Free,           \* the mutex is not held
          MaxSends,       \* bound: send requests
          MaxAdmin        \* bound: create, delete and close requests

Procs == Threads \cup Conns
Topics == Ids \cup {NoId}
CounterKeys == {CounterKey[<<q, i>>] : q \in Queues, i \in Ids}
Uids == 1..MaxSends

ASSUME QueueAssumption ==
  /\ NoQueue \notin Queues
  /\ Threads \cap Conns = {}
  /\ Free \notin Procs
  /\ CounterKey \in [Queues \X Ids -> CounterKeys]
  /\ NoLimit \notin Nat
  /\ MaxKeyUpdates \in Nat \cup {NoLimit}
  /\ Capacity \in Nat \ {0}
  /\ DefaultQueues \subseteq Queues
  /\ CustomSeqs \subseteq 1..U64Max
  /\ \A p \in SequenceParams : p.word \in STRING /\ p.n \in Nat
  /\ MaxSends \in Nat
  /\ MaxAdmin \in Nat

\* A server does not live to see 2^64 requests.
ASSUME SendsAssumption == MaxSends <= U64Max

VARIABLES
  trees,     \* sled: the names of the open trees
  store,     \* sled: the messages of each tree
  ids,       \* sled, default tree: the counter under "id_" ++ queue ++ id
  channels,  \* queue_broadcasts: the topics of each queue that have a sender
  lock,      \* the holder of the mutex over queue_broadcasts
  pc,        \* where each process stands in its handler
  queue,     \* the queue_name of its request
  stale,     \* the processes whose Tree handle is of a dropped tree
  msg,       \* Threads: the message being sent (for a delete, its id)
  batch,     \* Threads: the keys collected for removal
  want,      \* Conns: id, sequence and transport of the subscription
  prev,      \* Conns: prev_items not yet yielded
  quota,     \* Conns: how many more messages a long poll takes
  inbox,     \* Conns: messages in the channel that it has not received
  rx,        \* Conns: its Receiver
  sent, admin

\* History variables: no action reads them.
VARIABLES
  generated, \* Uids whose sequence generate_next_id made, with counter key
  inserted,  \* <<q, m>> once m was inserted into the tree of q
  removed,   \* <<q, m>> once a delete or a close removed m
  acked,     \* <<q, m>> once the send of m was answered
  before,    \* before[u]: the uids answered when request u arrived
  replayed,  \* Conns: the history yielded so far
  live,      \* Conns: the live messages received so far, in order
  overlap,   \* Conns: the uids in flight between its history read and its
             \* subscription to the channel
  horizon    \* Conns: the number of requests when it joined the channel

sledVars == <<trees, store, ids>>
chanVars == <<channels, lock>>
procVars == <<pc, queue, stale>>
sendVars == <<msg, batch>>
connVars == <<want, prev, quota, inbox, rx>>
reqVars  == <<sent, admin>>
pastVars == <<generated, inserted, removed, acked, before>>
seenVars == <<replayed, live, overlap, horizon>>
vars == <<sledVars, chanVars, procVars, sendVars, connVars, reqVars,
          pastVars, seenVars>>

-----------------------------------------------------------------------------
NoMsg == [id |-> NoId, seq |-> 0, uid |-> 0]
NoWant == [id |-> NoId, from |-> NoFrom, kind |-> "ws"]

ThreadPC == {"idle", "generate", "open", "insert", "scan", "trim",
             "broadcast", "d_scan", "d_apply", "drop"}
ConnPC == {"idle", "s_open", "s_read", "s_lock", "streaming", "ended"}

Draft == [id : Topics, seq : 0..U64Max, uid : 0..MaxSends]
Sent == [id : Ids, seq : 1..U64Max, uid : Uids]
Wants == [id : Topics, from : Froms, kind : {"ws", "longpoll"}]

\* The steps of send_to_queue at which the message has its sequence.
Sequenced == {"open", "insert", "scan", "trim", "broadcast"}

SledType ==
  /\ trees \subseteq Queues
  /\ store \in [Queues -> SUBSET Sent]
  /\ ids \in [CounterKeys -> 0..U64Max]

ChanType ==
  /\ channels \in [Queues -> SUBSET Topics]
  /\ lock \in Threads \cup {Free}

ProcType ==
  /\ pc \in [Procs -> ThreadPC \cup ConnPC]
  /\ \A t \in Threads : pc[t] \in ThreadPC
  /\ \A c \in Conns : pc[c] \in ConnPC
  /\ queue \in [Procs -> Queues \cup {NoQueue}]
  /\ stale \subseteq Procs
  /\ \A p \in Procs : pc[p] # "idle" => queue[p] \in Queues

SendType ==
  /\ msg \in [Threads -> Draft]
  /\ batch \in [Threads -> SUBSET Keys]
  /\ \A t \in Threads :
       /\ pc[t] = "generate" => msg[t].id \in Ids /\ msg[t].uid \in Uids
       /\ pc[t] \in Sequenced => msg[t] \in Sent
       /\ pc[t] = "d_scan" => msg[t].id \in Ids

ConnType ==
  /\ want \in [Conns -> Wants]
  /\ prev \in [Conns -> SUBSET Sent]
  /\ quota \in [Conns -> Nat]
  /\ inbox \in [Conns -> Seq(Sent)]
  /\ rx \in [Conns -> {"none", "open", "lagged", "closed"}]
  /\ \A c \in Conns : pc[c] = "streaming" => quota[c] > 0

PastType ==
  /\ sent \in 0..MaxSends
  /\ admin \in 0..MaxAdmin
  /\ generated \subseteq [key : CounterKeys, seq : 1..U64Max, uid : Uids]
  /\ inserted \subseteq Queues \X Sent
  /\ removed \subseteq Queues \X Sent
  /\ acked \subseteq Queues \X Sent
  /\ before \in [Uids -> SUBSET Uids]

SeenType ==
  /\ replayed \in [Conns -> SUBSET Sent]
  /\ live \in [Conns -> Seq(Sent)]
  /\ overlap \in [Conns -> SUBSET Uids]
  /\ horizon \in [Conns -> 0..MaxSends]

\* The types of the state, with what each handler of map.rs has in its
\* registers at each of its steps.
TypeOK ==
  /\ SledType /\ ChanType /\ ProcType /\ SendType
  /\ ConnType /\ PastType /\ SeenType

-----------------------------------------------------------------------------
\* Queue::new on an empty database, then create_queue for config.default.
Init ==
  /\ trees = DefaultQueues
  /\ store = [q \in Queues |-> {}]
  /\ ids = [k \in CounterKeys |-> 0]
  /\ channels = [q \in Queues |-> {}]
  /\ lock = Free
  /\ pc = [p \in Procs |-> "idle"]
  /\ queue = [p \in Procs |-> NoQueue]
  /\ stale = {}
  /\ msg = [t \in Threads |-> NoMsg]
  /\ batch = [t \in Threads |-> {}]
  /\ want = [c \in Conns |-> NoWant]
  /\ prev = [c \in Conns |-> {}]
  /\ quota = [c \in Conns |-> 0]
  /\ inbox = [c \in Conns |-> <<>>]
  /\ rx = [c \in Conns |-> "none"]
  /\ sent = 0
  /\ admin = 0
  /\ generated = {} /\ inserted = {} /\ removed = {} /\ acked = {}
  /\ before = [u \in Uids |-> {}]
  /\ replayed = [c \in Conns |-> {}]
  /\ live = [c \in Conns |-> <<>>]
  /\ overlap = [c \in Conns |-> {}]
  /\ horizon = [c \in Conns |-> 0]

-----------------------------------------------------------------------------
(* Helpers.                                                                 *)

\* The uids of the sends that were accepted and not yet answered.
InFlight == {msg[t].uid : t \in {u \in Threads : msg[u].uid # 0}}

\* sled::open_tree: an existing tree is opened, a missing one created.
open_tree(p, q) ==
  /\ trees' = trees \cup {q}
  /\ stale' = stale \ {p}

\* The processes that hold a handle on the tree of q.
Holders(q) ==
  {p \in Procs : queue[p] = q /\ pc[p] \in {"insert", "scan", "trim", "s_read"}}

\* A sender dropped from the map: its receivers drain and then end.
CloseReceivers(q, topics) ==
  rx' = [c \in Conns |->
           IF rx[c] = "open" /\ queue[c] = q /\ want[c].id \in topics
           THEN "closed" ELSE rx[c]]

\* The handler of t returns.
Answer(t) ==
  /\ pc' = [pc EXCEPT ![t] = "idle"]
  /\ queue' = [queue EXCEPT ![t] = NoQueue]
  /\ msg' = [msg EXCEPT ![t] = NoMsg]
  /\ batch' = [batch EXCEPT ![t] = {}]

\* max_key_updates = 0 stores nothing at all.
AfterSequence == IF MaxKeyUpdates = 0 THEN "broadcast" ELSE "open"

-----------------------------------------------------------------------------
(* send_to_queue                                                            *)

\* The request arrives; check_tree_exists.  A missing queue is answered with
\* success = false.  A sender may bring its own sequence (seq # 0).
SendToQueue(t, q, i, seq) ==
  /\ pc[t] = "idle"
  /\ sent < MaxSends
  /\ sent' = sent + 1
  /\ before' = [before EXCEPT ![sent + 1] = {a[2].uid : a \in acked}]
  /\ IF q \in trees
     THEN /\ pc' = [pc EXCEPT ![t] = IF seq = 0 THEN "generate"
                                                ELSE AfterSequence]
          /\ queue' = [queue EXCEPT ![t] = q]
          /\ msg' = [msg EXCEPT ![t] =
                       [id |-> i, seq |-> seq, uid |-> sent + 1]]
          /\ overlap' = [c \in Conns |-> IF pc[c] = "s_lock"
                                         THEN overlap[c] \cup {sent + 1}
                                         ELSE overlap[c]]
     ELSE UNCHANGED <<pc, queue, msg, overlap>>
  /\ UNCHANGED <<sledVars, chanVars, stale, batch, connVars, admin, generated,
                 inserted, removed, acked, replayed, live, horizon>>

\* generate_next_id: one atomic update_and_fetch.
GenerateNextId(t) ==
  LET k == CounterKey[<<queue[t], msg[t].id>>]
      n == NextSequence(ids[k])
  IN  /\ pc[t] = "generate"
      /\ ids' = [ids EXCEPT ![k] = n]
      /\ msg' = [msg EXCEPT ![t].seq = n]
      /\ generated' = generated \cup {[key |-> k, seq |-> n, uid |-> msg[t].uid]}
      /\ pc' = [pc EXCEPT ![t] = AfterSequence]
      /\ UNCHANGED <<trees, store, chanVars, queue, stale, batch, connVars,
                     reqVars, inserted, removed, acked, before, seenVars>>

OpenTree(t) ==
  /\ pc[t] = "open"
  /\ open_tree(t, queue[t])
  /\ pc' = [pc EXCEPT ![t] = "insert"]
  /\ UNCHANGED <<store, ids, chanVars, queue, sendVars, connVars, reqVars,
                 pastVars, seenVars>>

\* tree.insert.  On a dropped tree every operation fails: 500.
Insert(t) ==
  /\ pc[t] = "insert"
  /\ t \notin stale
  /\ store' = [store EXCEPT ![queue[t]] = InsertInto(@, msg[t])]
  /\ inserted' = inserted \cup {<<queue[t], msg[t]>>}
  /\ pc' = [pc EXCEPT ![t] = IF MaxKeyUpdates = NoLimit THEN "broadcast"
                                                        ELSE "scan"]
  /\ UNCHANGED <<trees, ids, chanVars, queue, stale, sendVars, connVars,
                 reqVars, generated, removed, acked, before, seenVars>>

\* The old versions are collected ...
ScanSurplus(t) ==
  /\ pc[t] = "scan"
  /\ t \notin stale
  /\ batch' = [batch EXCEPT ![t] =
                 Surplus(store[queue[t]], msg[t].id, MaxKeyUpdates)]
  /\ pc' = [pc EXCEPT ![t] = "trim"]
  /\ UNCHANGED <<sledVars, chanVars, queue, stale, msg, connVars, reqVars,
                 pastVars, seenVars>>

\* ... and removed by key in one batch.  An empty batch touches no tree.
Trim(t) ==
  /\ pc[t] = "trim"
  /\ t \notin stale \/ batch[t] = {}
  /\ store' = [store EXCEPT ![queue[t]] = RemoveKeys(@, batch[t])]
  /\ pc' = [pc EXCEPT ![t] = "broadcast"]
  /\ batch' = [batch EXCEPT ![t] = {}]
  /\ UNCHANGED <<trees, ids, chanVars, queue, stale, msg, connVars, reqVars,
                 pastVars, seenVars>>

SendFails(t) ==
  /\ \/ pc[t] \in {"insert", "scan"}
     \/ pc[t] = "trim" /\ batch[t] # {}
  /\ t \in stale
  /\ Answer(t)
  /\ UNCHANGED <<sledVars, chanVars, stale, connVars, reqVars, pastVars,
                 seenVars>>

\* Mutant of Receivers: only the channel of the id is sent to.
ReceiversOfId(q, m) ==
  {c \in Conns : rx[c] = "open" /\ queue[c] = q /\ want[c].id = m.id}

\* Who a broadcast reaches: the channel of the queue and that of the id.
Receivers(q, m) ==
  {c \in Conns : rx[c] = "open" /\ queue[c] = q /\ want[c].id \in {NoId, m.id}}

\* Under the lock the message goes to both channels, which are created when
\* missing.  A receiver that has Capacity messages to read loses the oldest
\* and will see Lagged.
Broadcast(t) ==
  LET q == queue[t]
      m == msg[t]
      full == {c \in Receivers(q, m) : Len(inbox[c]) = Capacity}
  IN  /\ pc[t] = "broadcast"
      /\ lock = Free
      /\ channels' = [channels EXCEPT ![q] = @ \cup {NoId, m.id}]
      /\ rx' = [c \in Conns |-> IF c \in full THEN "lagged" ELSE rx[c]]
      /\ inbox' = [c \in Conns |->
                     IF c \in full THEN <<>>
                     ELSE IF c \in Receivers(q, m) THEN Append(inbox[c], m)
                     ELSE inbox[c]]
      /\ acked' = acked \cup {<<q, m>>}
      /\ Answer(t)
      /\ UNCHANGED <<sledVars, lock, stale, want, prev, quota, reqVars,
                     generated, inserted, removed, before, seenVars>>

-----------------------------------------------------------------------------
(* create_queue, delete_queue, close_queue                                  *)

CreateQueue(t, q) ==
  /\ pc[t] = "idle"
  /\ admin < MaxAdmin
  /\ admin' = admin + 1
  /\ open_tree(t, q)
  /\ UNCHANGED <<store, ids, chanVars, pc, queue, sendVars, connVars, sent,
                 pastVars, seenVars>>

\* The lock is taken and kept to the end of the handler; the channel of the
\* id goes first.
DeleteQueue(t, q, i) ==
  /\ pc[t] = "idle"
  /\ admin < MaxAdmin
  /\ lock = Free
  /\ admin' = admin + 1
  /\ lock' = t
  /\ channels' = [channels EXCEPT ![q] = (@ \cup {NoId}) \ {i}]
  /\ CloseReceivers(q, {i})
  /\ pc' = [pc EXCEPT ![t] = "d_scan"]
  /\ queue' = [queue EXCEPT ![t] = q]
  /\ msg' = [msg EXCEPT ![t] = [NoMsg EXCEPT !.id = i]]
  /\ UNCHANGED <<sledVars, stale, batch, want, prev, quota, inbox, sent,
                 pastVars, seenVars>>

\* open_tree and the scan: no close can run in between, it needs the lock.
DeleteScan(t) ==
  /\ pc[t] = "d_scan"
  /\ open_tree(t, queue[t])
  /\ batch' = [batch EXCEPT ![t] =
                 {KeyOf(m) : m \in scan_prefix(store[queue[t]], msg[t].id)}]
  /\ pc' = [pc EXCEPT ![t] = "d_apply"]
  /\ UNCHANGED <<store, ids, chanVars, queue, msg, connVars, reqVars,
                 pastVars, seenVars>>

\* Mutant of DeleteApply: the handler returns without giving the lock back.
DeleteApplyKeepsLock(t) ==
  /\ pc[t] = "d_apply"
  /\ store' = [store EXCEPT ![queue[t]] = RemoveKeys(@, batch[t])]
  /\ removed' = removed \cup
       {<<queue[t], m>> : m \in {n \in store[queue[t]] : KeyOf(n) \in batch[t]}}
  /\ Answer(t)
  /\ UNCHANGED <<trees, ids, chanVars, stale, connVars, reqVars, generated,
                 inserted, acked, before, seenVars>>

DeleteApply(t) ==
  /\ pc[t] = "d_apply"
  /\ store' = [store EXCEPT ![queue[t]] = RemoveKeys(@, batch[t])]
  /\ removed' = removed \cup
       {<<queue[t], m>> : m \in {n \in store[queue[t]] : KeyOf(n) \in batch[t]}}
  /\ lock' = Free
  /\ Answer(t)
  /\ UNCHANGED <<trees, ids, channels, stale, connVars, reqVars, generated,
                 inserted, acked, before, seenVars>>

\* All channels of the queue go at once ...
CloseQueue(t, q) ==
  /\ pc[t] = "idle"
  /\ admin < MaxAdmin
  /\ lock = Free
  /\ admin' = admin + 1
  /\ lock' = t
  /\ channels' = [channels EXCEPT ![q] = {}]
  /\ CloseReceivers(q, Topics)
  /\ pc' = [pc EXCEPT ![t] = "drop"]
  /\ queue' = [queue EXCEPT ![t] = q]
  /\ UNCHANGED <<sledVars, stale, sendVars, want, prev, quota, inbox, sent,
                 pastVars, seenVars>>

\* ... then drop_tree.  The counters live in another tree and stay.
DropTree(t) ==
  LET q == queue[t]
  IN  /\ pc[t] = "drop"
      /\ trees' = trees \ {q}
      /\ store' = [store EXCEPT ![q] = {}]
      /\ removed' = removed \cup {<<q, m>> : m \in store[q]}
      /\ stale' = IF q \in trees THEN stale \cup Holders(q) ELSE stale
      /\ lock' = Free
      /\ Answer(t)
      /\ UNCHANGED <<ids, channels, connVars, reqVars, generated, inserted,
                     acked, before, seenVars>>

-----------------------------------------------------------------------------
(* subscribe_queue_by_id and subscribe_queue (id = NoId)                    *)

\* No stream: 404 for a missing queue, 500 for an error of sled.
Refused(c) == pc' = [pc EXCEPT ![c] = "ended"]

\* check_tree_exists.
Subscribe(c, q, i, raw, kind) ==
  /\ pc[c] = "idle"
  /\ IF q \in trees THEN pc' = [pc EXCEPT ![c] = "s_open"] ELSE Refused(c)
  /\ queue' = [queue EXCEPT ![c] = q]
  /\ want' = [want EXCEPT ![c] =
                [id |-> i, from |-> get_sequence_from_req(raw), kind |-> kind]]
  /\ UNCHANGED <<sledVars, chanVars, stale, sendVars, prev, quota, inbox, rx,
                 reqVars, pastVars, seenVars>>

SubscribeOpen(c) ==
  /\ pc[c] = "s_open"
  /\ open_tree(c, queue[c])
  /\ pc' = [pc EXCEPT ![c] = "s_read"]
  /\ UNCHANGED <<store, ids, chanVars, queue, sendVars, connVars, reqVars,
                 pastVars, seenVars>>

\* get_prev_items, get_prev_all_items: without a sequence nothing is read.
SubscribeRead(c) ==
  /\ pc[c] = "s_read"
  /\ \/ /\ c \notin stale \/ want[c].from = NoFrom
        /\ prev' = [prev EXCEPT ![c] =
                      get_prev_items(store[queue[c]], want[c].from, want[c].id)]
        /\ pc' = [pc EXCEPT ![c] = "s_lock"]
        /\ overlap' = [overlap EXCEPT ![c] = InFlight]
     \/ /\ c \in stale /\ want[c].from # NoFrom
        /\ Refused(c)
        /\ UNCHANGED <<prev, overlap>>
  /\ UNCHANGED <<sledVars, chanVars, queue, stale, sendVars, want, quota,
                 inbox, rx, reqVars, pastVars, replayed, live, horizon>>

\* Mutants of Quota: without max(1), and one message more than the history.
QuotaNoMax(c) == Cardinality(prev[c])
QuotaOneMore(c) == Cardinality(prev[c]) + 1

\* A long poll takes prev_len.unwrap_or(1).max(1) messages; a websocket
\* takes them all.
Quota(c) ==
  LET n == Cardinality(prev[c])
  IN  IF n > 1 THEN n ELSE 1

\* Under the lock: the channel is created when missing and joined.
SubscribeLock(c) ==
  LET q == queue[c]
  IN  /\ pc[c] = "s_lock"
      /\ lock = Free
      /\ channels' = [channels EXCEPT ![q] = @ \cup {NoId, want[c].id}]
      /\ rx' = [rx EXCEPT ![c] = "open"]
      /\ quota' = [quota EXCEPT ![c] = Quota(c)]
      /\ horizon' = [horizon EXCEPT ![c] = sent]
      /\ pc' = [pc EXCEPT ![c] = "streaming"]
      /\ UNCHANGED <<sledVars, lock, queue, stale, sendVars, want, prev, inbox,
                     reqVars, pastVars, replayed, live, overlap>>

-----------------------------------------------------------------------------
(* prepare_stream, drained by QueueConnection or by a long poll             *)

\* The stream of c is dropped, and its Receiver with it.
DropStream(c) ==
  /\ pc' = [pc EXCEPT ![c] = "ended"]
  /\ rx' = [rx EXCEPT ![c] = "none"]

\* try_collect of a long poll: it answers after the last message it takes.
LongpollTakes(c) ==
  /\ quota' = [quota EXCEPT ![c] = @ - 1]
  /\ IF quota[c] = 1 THEN DropStream(c) ELSE UNCHANGED <<pc, rx>>

\* A websocket writes the message and goes on.  (An EventMessage always
\* serialises, and nothing ever sends BroadcastMessage::Close.)
ConnectionHandles(c) == UNCHANGED <<quota, pc, rx>>

HandOut(c) ==
  IF want[c].kind = "longpoll" THEN LongpollTakes(c) ELSE ConnectionHandles(c)

YieldPrev(c) ==
  /\ pc[c] = "streaming"
  /\ \E m \in prev[c] :
       /\ \A n \in prev[c] \ {m} : YieldedBefore(want[c].from, m, n)
       /\ prev' = [prev EXCEPT ![c] = @ \ {m}]
       /\ replayed' = [replayed EXCEPT ![c] = @ \cup {m}]
  /\ HandOut(c)
  /\ UNCHANGED <<sledVars, chanVars, queue, stale, sendVars, want, inbox,
                 reqVars, pastVars, live, overlap, horizon>>

\* Mutant of YieldLive: the message is handed out but not taken.
YieldPeeked(c) ==
  /\ pc[c] = "streaming" /\ prev[c] = {} /\ inbox[c] # <<>>
  /\ live' = [live EXCEPT ![c] = Append(@, Head(inbox[c]))]
  /\ HandOut(c)
  /\ UNCHANGED <<sledVars, chanVars, queue, stale, sendVars, want, prev, inbox,
                 reqVars, pastVars, replayed, overlap, horizon>>

\* Mutant of YieldLive: the newest message of the channel comes first.
YieldNewest(c) ==
  LET n == Len(inbox[c])
  IN  /\ pc[c] = "streaming" /\ prev[c] = {} /\ inbox[c] # <<>>
      /\ inbox' = [inbox EXCEPT ![c] = SubSeq(@, 1, n - 1)]
      /\ live' = [live EXCEPT ![c] = Append(@, inbox[c][n])]
      /\ HandOut(c)
      /\ UNCHANGED <<sledVars, chanVars, queue, stale, sendVars, want, prev,
                     reqVars, pastVars, replayed, overlap, horizon>>

YieldLive(c) ==
  /\ pc[c] = "streaming"
  /\ prev[c] = {}
  /\ inbox[c] # <<>>
  /\ inbox' = [inbox EXCEPT ![c] = Tail(@)]
  /\ live' = [live EXCEPT ![c] = Append(@, Head(inbox[c]))]
  /\ HandOut(c)
  /\ UNCHANGED <<sledVars, chanVars, queue, stale, sendVars, want, prev,
                 reqVars, pastVars, replayed, overlap, horizon>>

\* Mutant of StreamEnds: a lagged stream keeps waiting.
StreamEndsOnlyClosed(c) ==
  /\ pc[c] = "streaming" /\ prev[c] = {} /\ inbox[c] = <<>> /\ rx[c] = "closed"
  /\ DropStream(c)
  /\ UNCHANGED <<sledVars, chanVars, queue, stale, sendVars, want, prev, quota,
                 inbox, reqVars, pastVars, seenVars>>

\* recv fails, Lagged at once or Closed after the last message, and `while
\* let Ok` ends the stream: the actor stops, the long poll answers with what
\* it has.
StreamEnds(c) ==
  /\ pc[c] = "streaming"
  /\ prev[c] = {}
  /\ inbox[c] = <<>>
  /\ rx[c] \in {"lagged", "closed"}
  /\ DropStream(c)
  /\ UNCHANGED <<sledVars, chanVars, queue, stale, sendVars, want, prev, quota,
                 inbox, reqVars, pastVars, seenVars>>

\* The client sends Close, breaks the protocol or goes away.
ClientGone(c) ==
  /\ pc[c] = "streaming"
  /\ DropStream(c)
  /\ UNCHANGED <<sledVars, chanVars, queue, stale, sendVars, want, prev, quota,
                 inbox, reqVars, pastVars, seenVars>>

-----------------------------------------------------------------------------
\* The steps a worker takes on its own once a request is accepted.
Work(t) ==
  \/ GenerateNextId(t) \/ OpenTree(t) \/ Insert(t) \/ ScanSurplus(t)
  \/ Trim(t) \/ SendFails(t) \/ Broadcast(t)
  \/ DeleteScan(t) \/ DeleteApply(t) \/ DropTree(t)

Request(t) ==
  \/ \E q \in Queues, i \in Ids, seq \in CustomSeqs \cup {0} :
       SendToQueue(t, q, i, seq)
  \/ \E q \in Queues : CreateQueue(t, q) \/ CloseQueue(t, q)
  \/ \E q \in Queues, i \in Ids : DeleteQueue(t, q, i)

\* The steps of a subscription that do not wait for its client.
Stream(c) ==
  \/ SubscribeOpen(c) \/ SubscribeRead(c) \/ SubscribeLock(c)
  \/ YieldPrev(c) \/ YieldLive(c) \/ StreamEnds(c)

Client(c) ==
  \/ \E q \in Queues, i \in Topics, raw \in SequenceParams,
        kind \in {"ws", "longpoll"} : Subscribe(c, q, i, raw, kind)
  \/ ClientGone(c)

Next ==
  \/ \E t \in Threads : Work(t) \/ Request(t)
  \/ \E c \in Conns : Stream(c) \/ Client(c)

\* A worker and a stream that can run are run: actix polls every ready task.
Fairness ==
  /\ \A t \in Threads : WF_vars(Work(t))
  /\ \A c \in Conns : WF_vars(Stream(c))

Spec == Init /\ [][Next]_vars
FairSpec == Spec /\ Fairness
=============================================================================
