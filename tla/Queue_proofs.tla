---------------------------- MODULE Queue_proofs ----------------------------
(***************************************************************************)
(* Machine-checked proofs about Queue, for every value of its constants.   *)
(***************************************************************************)
EXTENDS QueueProps, FiniteSetTheorems, TLAPS

-----------------------------------------------------------------------------
(* What the operators of History return.                                    *)

\* A parsed `sequence` parameter is one of the values RequestSequence has.
LEMMA FromType ==
  ASSUME NEW raw \in SequenceParams
  PROVE  get_sequence_from_req(raw) \in Froms
BY QueueAssumption DEF get_sequence_from_req, deserialize, Froms, NoFrom

\* Every form of history read returns stored messages only.
LEMMA HistoryRead ==
  ASSUME NEW tree, NEW from \in Froms, NEW id
  PROVE  get_prev_items(tree, from, id) \subseteq tree
<1>1. from.at \in {"none", "first", "last", "id"}
  BY DEF Froms
<1>2. extract_sequences(tree, from, id) \subseteq tree
  BY <1>1 DEF extract_sequences, GreatestOf, scan_prefix
<1>3. get_prev_all_items(tree, from) \subseteq tree
  BY <1>1 DEF get_prev_all_items
<1> QED BY <1>2, <1>3 DEF get_prev_items

\* What a trim collects are keys of stored messages.
LEMMA SurplusKeys ==
  ASSUME NEW tree \in SUBSET Sent, NEW id, NEW max
  PROVE  Surplus(tree, id, max) \subseteq Keys
<1> SUFFICES ASSUME NEW k \in Surplus(tree, id, max) PROVE k \in Keys
  OBVIOUS
<1>1. PICK m \in tree : k = KeyOf(m)
  BY Zenon DEF Surplus, scan_prefix
<1> QED BY <1>1 DEF KeyOf, Keys, Sent

\* A counter step stays in u64 and never yields the zero sequence.
LEMMA NextSequenceType ==
  ASSUME NEW v \in 0..U64Max
  PROVE  NextSequence(v) \in 1..U64Max
BY U64Assumption DEF NextSequence

-----------------------------------------------------------------------------
(* Types.                                                                   *)

\* Trees and replies stay finite, which Quota needs to count prev_items.
FiniteOK ==
  /\ \A q \in Queues : IsFiniteSet(store[q])
  /\ \A c \in Conns : IsFiniteSet(prev[c])

TypeInv == TypeOK /\ FiniteOK

USE DEF ThreadPC, ConnPC, Sequenced

LEMMA TypeInit == Init => TypeInv
<1> SUFFICES ASSUME Init PROVE TypeInv
  OBVIOUS
<1> USE DEF Init
<1>1. SledType /\ ChanType
  BY QueueAssumption, U64Assumption DEF SledType, ChanType
<1>2. ProcType
  BY DEF ProcType, Procs
<1>3. SendType
  BY QueueAssumption, U64Assumption DEF SendType, NoMsg, Draft, Topics, Procs
<1>4. ConnType
  BY DEF ConnType, NoWant, Wants, Froms, NoFrom, Topics, Procs
<1>5. PastType /\ SeenType
  BY QueueAssumption DEF PastType, SeenType
<1>6. FiniteOK
  BY FS_EmptySet DEF FiniteOK
<1> QED BY <1>1, <1>2, <1>3, <1>4, <1>5, <1>6 DEF TypeInv, TypeOK

\* The variables an action leaves alone come in groups.
USE DEF sledVars, chanVars, procVars, sendVars, connVars, reqVars, pastVars, seenVars

LEMMA TypeSend ==
  ASSUME TypeOK, NEW t \in Threads, NEW q \in Queues, NEW i \in Ids,
         NEW seq \in CustomSeqs \cup {0}, SendToQueue(t, q, i, seq)
  PROVE  TypeOK'
<1>1. SledType' /\ ChanType'
  BY DEF TypeOK, SledType, ChanType, SendToQueue
<1>2. sent + 1 \in Uids
  BY QueueAssumption DEF TypeOK, PastType, Uids, SendToQueue
<1>3. seq \in 0..U64Max /\ (seq # 0 => seq \in 1..U64Max)
  BY QueueAssumption, U64Assumption
<1>4. [id |-> i, seq |-> seq, uid |-> sent + 1] \in Draft
  BY <1>2, <1>3, QueueAssumption DEF Draft, Topics, Uids
<1>5. seq # 0 => [id |-> i, seq |-> seq, uid |-> sent + 1] \in Sent
  BY <1>2, <1>3 DEF Sent
<1>6. ProcType'
  BY QueueAssumption DEF TypeOK, ProcType, Procs, AfterSequence, SendToQueue
<1>7. SendType'
  BY <1>2, <1>4, <1>5, QueueAssumption
  DEF TypeOK, ProcType, SendType, Procs, AfterSequence, SendToQueue
<1>8. ConnType'
  BY QueueAssumption DEF TypeOK, ProcType, ConnType, Procs, SendToQueue
<1>9. {a[2].uid : a \in acked} \subseteq Uids
  BY DEF TypeOK, PastType, Sent
<1>10. PastType'
  <2>1. before' \in [Uids -> SUBSET Uids]
    BY <1>2, <1>9 DEF TypeOK, PastType, SendToQueue
  <2>2. sent' \in 0..MaxSends
    BY <1>2, QueueAssumption DEF Uids, SendToQueue
  <2> QED BY <2>1, <2>2 DEF TypeOK, PastType, SendToQueue
<1>11. SeenType'
  <2>1. overlap \in [Conns -> SUBSET Uids]
    BY DEF TypeOK, SeenType
  <2>2. CASE q \in trees
    <3>1. overlap' = [c \in Conns |-> IF pc[c] = "s_lock"
                                      THEN overlap[c] \cup {sent + 1}
                                      ELSE overlap[c]]
      BY <2>2 DEF SendToQueue
    <3>2. overlap' \in [Conns -> SUBSET Uids]
      BY <1>2, <2>1, <3>1
    <3> QED BY <3>2 DEF TypeOK, SeenType, SendToQueue
  <2>3. CASE q \notin trees
    BY <2>3 DEF TypeOK, SeenType, SendToQueue
  <2> QED BY <2>2, <2>3
<1> QED BY <1>1, <1>6, <1>7, <1>8, <1>10, <1>11 DEF TypeOK

LEMMA TypeGenerate ==
  ASSUME TypeOK, NEW t \in Threads, GenerateNextId(t)
  PROVE  TypeOK'
<1> DEFINE k == CounterKey[<<queue[t], msg[t].id>>]
           n == NextSequence(ids[k])
<1>1. queue[t] \in Queues /\ msg[t].id \in Ids /\ msg[t].uid \in Uids
  BY DEF TypeOK, ProcType, SendType, GenerateNextId, Procs
<1>2. k \in CounterKeys
  BY <1>1, QueueAssumption
<1>3. n \in 1..U64Max
  BY <1>2, NextSequenceType DEF TypeOK, SledType
<1> HIDE DEF k, n
<1>4. ids' = [ids EXCEPT ![k] = n] /\ msg' = [msg EXCEPT ![t].seq = n]
  BY DEF GenerateNextId, k, n
<1>5. generated' = generated \cup {[key |-> k, seq |-> n, uid |-> msg[t].uid]}
  BY DEF GenerateNextId, k, n
<1>0. UNCHANGED <<trees, store, chanVars, reqVars, inserted, removed, acked,
                  before, seenVars>>
  BY DEF GenerateNextId
<1>6. SledType' /\ ChanType'
  BY <1>0, <1>2, <1>3, <1>4 DEF TypeOK, SledType, ChanType
<1>7. ProcType'
  BY QueueAssumption DEF TypeOK, ProcType, Procs, AfterSequence, GenerateNextId
<1>8. msg'[t] \in Draft /\ msg'[t] \in Sent
  BY <1>1, <1>3, <1>4 DEF TypeOK, SendType, Draft, Sent
<1>9. SendType'
  BY <1>4, <1>8, QueueAssumption
  DEF TypeOK, ProcType, SendType, Procs, AfterSequence, GenerateNextId
<1>10. ConnType'
  BY QueueAssumption DEF TypeOK, ProcType, ConnType, Procs, AfterSequence, GenerateNextId
<1>11. PastType' /\ SeenType'
  BY <1>0, <1>1, <1>2, <1>3, <1>5 DEF TypeOK, PastType, SeenType
<1> QED BY <1>6, <1>7, <1>9, <1>10, <1>11 DEF TypeOK

LEMMA TypeOpenTree ==
  ASSUME TypeOK, NEW t \in Threads, OpenTree(t)
  PROVE  TypeOK'
<1>1. queue[t] \in Queues
  BY DEF TypeOK, ProcType, OpenTree, Procs
<1>2. SledType' /\ ChanType' /\ PastType' /\ SeenType'
  BY <1>1 DEF TypeOK, SledType, ChanType, PastType, SeenType, OpenTree, open_tree
<1>3. ProcType'
  BY QueueAssumption DEF TypeOK, ProcType, Procs, OpenTree, open_tree
<1>4. SendType' /\ ConnType'
  BY QueueAssumption DEF TypeOK, ProcType, SendType, ConnType, Procs, OpenTree
<1> QED BY <1>2, <1>3, <1>4 DEF TypeOK

LEMMA TypeInsert ==
  ASSUME TypeOK, NEW t \in Threads, Insert(t)
  PROVE  TypeOK'
<1>1. queue[t] \in Queues /\ msg[t] \in Sent
  BY DEF TypeOK, ProcType, SendType, Insert, Procs
<1>2. InsertInto(store[queue[t]], msg[t]) \subseteq Sent
  BY <1>1 DEF TypeOK, SledType, InsertInto
<1>3. SledType' /\ ChanType'
  BY <1>1, <1>2 DEF TypeOK, SledType, ChanType, Insert
<1>4. PastType' /\ SeenType'
  BY <1>1 DEF TypeOK, PastType, SeenType, Insert
<1>5. ProcType'
  BY QueueAssumption DEF TypeOK, ProcType, Procs, Insert
<1>6. SendType' /\ ConnType'
  BY QueueAssumption DEF TypeOK, ProcType, SendType, ConnType, Procs, Insert
<1> QED BY <1>3, <1>4, <1>5, <1>6 DEF TypeOK

LEMMA TypeScan ==
  ASSUME TypeOK, NEW t \in Threads, ScanSurplus(t)
  PROVE  TypeOK'
<1>1. queue[t] \in Queues
  BY DEF TypeOK, ProcType, ScanSurplus, Procs
<1>2. Surplus(store[queue[t]], msg[t].id, MaxKeyUpdates) \subseteq Keys
  BY <1>1, SurplusKeys DEF TypeOK, SledType
<1>3. SledType' /\ ChanType' /\ PastType' /\ SeenType'
  BY DEF TypeOK, SledType, ChanType, PastType, SeenType, ScanSurplus
<1>4. ProcType'
  BY QueueAssumption DEF TypeOK, ProcType, Procs, ScanSurplus
<1>5. SendType' /\ ConnType'
  BY <1>2, QueueAssumption DEF TypeOK, ProcType, SendType, ConnType, Procs, ScanSurplus
<1> QED BY <1>3, <1>4, <1>5 DEF TypeOK

LEMMA TypeTrim ==
  ASSUME TypeOK, NEW t \in Threads, Trim(t)
  PROVE  TypeOK'
<1>1. queue[t] \in Queues
  BY DEF TypeOK, ProcType, Trim, Procs
<1>2. SledType' /\ ChanType' /\ PastType' /\ SeenType'
  BY <1>1 DEF TypeOK, SledType, ChanType, PastType, SeenType, Trim, RemoveKeys
<1>3. ProcType'
  BY QueueAssumption DEF TypeOK, ProcType, Procs, Trim
<1>4. SendType' /\ ConnType'
  BY QueueAssumption DEF TypeOK, ProcType, SendType, ConnType, Procs, Trim
<1> QED BY <1>2, <1>3, <1>4 DEF TypeOK

\* Returning from a handler clears the registers of its worker.
LEMMA TypeAnswer ==
  ASSUME TypeOK, NEW t \in Threads, Answer(t)
  PROVE  /\ stale' \subseteq Procs => ProcType'
         /\ SendType'
         /\ \A c \in Conns : pc'[c] = pc[c] /\ queue'[c] = queue[c]
<1>1. stale' \subseteq Procs => ProcType'
  BY QueueAssumption DEF TypeOK, ProcType, Procs, Answer
<1>2. NoMsg \in Draft
  BY QueueAssumption, U64Assumption DEF NoMsg, Draft, Topics
<1>3. SendType'
  BY <1>2, QueueAssumption DEF TypeOK, ProcType, SendType, Procs, Answer
<1>4. \A c \in Conns : pc'[c] = pc[c] /\ queue'[c] = queue[c]
  BY QueueAssumption DEF TypeOK, ProcType, Procs, Answer
<1> QED BY <1>1, <1>3, <1>4

LEMMA TypeSendFails ==
  ASSUME TypeOK, NEW t \in Threads, SendFails(t)
  PROVE  TypeOK'
<1>1. Answer(t) /\ stale' \subseteq Procs
  BY DEF SendFails, TypeOK, ProcType
<1>2. SledType' /\ ChanType' /\ PastType' /\ SeenType'
  BY DEF TypeOK, SledType, ChanType, PastType, SeenType, SendFails
<1>3. ConnType'
  BY <1>1, TypeAnswer DEF TypeOK, ConnType, SendFails
<1> QED BY <1>1, <1>2, <1>3, TypeAnswer DEF TypeOK

LEMMA TypeBroadcast ==
  ASSUME TypeOK, NEW t \in Threads, Broadcast(t)
  PROVE  TypeOK'
<1>1. queue[t] \in Queues /\ msg[t] \in Sent
  BY DEF TypeOK, ProcType, SendType, Broadcast, Procs
<1>2. Answer(t) /\ stale' \subseteq Procs
  BY DEF Broadcast, TypeOK, ProcType
<1>3. SledType' /\ SeenType'
  BY DEF TypeOK, SledType, SeenType, Broadcast
<1>4. ChanType' /\ PastType'
  BY <1>1 DEF TypeOK, ChanType, PastType, Broadcast, Topics, Sent
<1>5. ConnType'
  <2>1. /\ \A c \in Conns : inbox'[c] \in {<<>>, inbox[c], Append(inbox[c], msg[t])}
        /\ DOMAIN inbox' = Conns
    BY DEF Broadcast
  <2>2. inbox' \in [Conns -> Seq(Sent)]
    <3>1. ASSUME NEW c \in Conns PROVE inbox'[c] \in Seq(Sent)
      <4>1. inbox[c] \in Seq(Sent)
        BY DEF TypeOK, ConnType
      <4>2. Append(inbox[c], msg[t]) \in Seq(Sent)
        BY <1>1, <4>1
      <4>3. <<>> \in Seq(Sent)
        OBVIOUS
      <4> QED BY <2>1, <4>1, <4>2, <4>3
    <3> QED BY <3>1 DEF Broadcast
  <2>3. rx' \in [Conns -> {"none", "open", "lagged", "closed"}]
    BY DEF TypeOK, ConnType, Broadcast
  <2> QED BY <1>2, <2>2, <2>3, TypeAnswer DEF TypeOK, ConnType, Broadcast
<1> QED BY <1>2, <1>3, <1>4, <1>5, TypeAnswer DEF TypeOK

LEMMA TypeCreate ==
  ASSUME TypeOK, NEW t \in Threads, NEW q \in Queues, CreateQueue(t, q)
  PROVE  TypeOK'
<1>1. SledType' /\ ChanType' /\ SeenType'
  BY DEF TypeOK, SledType, ChanType, SeenType, CreateQueue, open_tree
<1>2. PastType'
  BY QueueAssumption DEF TypeOK, PastType, CreateQueue
<1>3. ProcType'
  BY DEF TypeOK, ProcType, CreateQueue, open_tree
<1>4. SendType' /\ ConnType'
  BY DEF TypeOK, SendType, ConnType, CreateQueue
<1> QED BY <1>1, <1>2, <1>3, <1>4 DEF TypeOK

LEMMA TypeDelete ==
  ASSUME TypeOK, NEW t \in Threads, NEW q \in Queues, NEW i \in Ids,
         DeleteQueue(t, q, i)
  PROVE  TypeOK'
<1>1. SledType' /\ ChanType' /\ SeenType'
  BY DEF TypeOK, SledType, ChanType, SeenType, DeleteQueue, Topics
<1>2. PastType'
  BY QueueAssumption DEF TypeOK, PastType, DeleteQueue
<1>3. ProcType'
  BY QueueAssumption DEF TypeOK, ProcType, Procs, DeleteQueue
<1>4. [NoMsg EXCEPT !.id = i] \in Draft /\ [NoMsg EXCEPT !.id = i].id = i
  BY QueueAssumption, U64Assumption DEF NoMsg, Draft, Topics
<1>5. SendType'
  BY <1>4, QueueAssumption DEF TypeOK, ProcType, SendType, Procs, DeleteQueue
<1>6. ConnType'
  BY QueueAssumption DEF TypeOK, ProcType, ConnType, Procs, DeleteQueue, CloseReceivers
<1> QED BY <1>1, <1>2, <1>3, <1>5, <1>6 DEF TypeOK

LEMMA TypeDeleteScan ==
  ASSUME TypeOK, NEW t \in Threads, DeleteScan(t)
  PROVE  TypeOK'
<1>1. queue[t] \in Queues
  BY DEF TypeOK, ProcType, DeleteScan, Procs
<1>2. SledType' /\ ChanType' /\ PastType' /\ SeenType'
  BY <1>1 DEF TypeOK, SledType, ChanType, PastType, SeenType, DeleteScan, open_tree
<1>3. ProcType'
  BY QueueAssumption DEF TypeOK, ProcType, Procs, DeleteScan, open_tree
<1>4. {KeyOf(m) : m \in scan_prefix(store[queue[t]], msg[t].id)} \subseteq Keys
  BY <1>1 DEF TypeOK, SledType, scan_prefix, KeyOf, Keys, Sent
<1>5. SendType' /\ ConnType'
  BY <1>4, QueueAssumption DEF TypeOK, ProcType, SendType, ConnType, Procs, DeleteScan
<1> QED BY <1>2, <1>3, <1>5 DEF TypeOK

LEMMA TypeDeleteApply ==
  ASSUME TypeOK, NEW t \in Threads, DeleteApply(t)
  PROVE  TypeOK'
<1>1. queue[t] \in Queues
  BY DEF TypeOK, ProcType, DeleteApply, Procs
<1>2. Answer(t) /\ stale' \subseteq Procs
  BY DEF DeleteApply, TypeOK, ProcType
<1>3. SledType' /\ ChanType' /\ SeenType'
  BY <1>1 DEF TypeOK, SledType, ChanType, SeenType, DeleteApply, RemoveKeys
<1>4. PastType'
  BY <1>1 DEF TypeOK, SledType, PastType, DeleteApply
<1>5. ConnType'
  BY <1>2, TypeAnswer DEF TypeOK, ConnType, DeleteApply
<1> QED BY <1>2, <1>3, <1>4, <1>5, TypeAnswer DEF TypeOK

LEMMA TypeClose ==
  ASSUME TypeOK, NEW t \in Threads, NEW q \in Queues, CloseQueue(t, q)
  PROVE  TypeOK'
<1>1. SledType' /\ ChanType' /\ SeenType'
  BY DEF TypeOK, SledType, ChanType, SeenType, CloseQueue
<1>2. PastType'
  BY QueueAssumption DEF TypeOK, PastType, CloseQueue
<1>3. ProcType'
  BY QueueAssumption DEF TypeOK, ProcType, Procs, CloseQueue
<1>4. SendType'
  BY QueueAssumption DEF TypeOK, ProcType, SendType, Procs, CloseQueue
<1>5. ConnType'
  BY QueueAssumption DEF TypeOK, ProcType, ConnType, Procs, CloseQueue, CloseReceivers
<1> QED BY <1>1, <1>2, <1>3, <1>4, <1>5 DEF TypeOK

LEMMA TypeDropTree ==
  ASSUME TypeOK, NEW t \in Threads, DropTree(t)
  PROVE  TypeOK'
<1>1. queue[t] \in Queues
  BY DEF TypeOK, ProcType, DropTree, Procs
<1>2. Answer(t) /\ stale' \subseteq Procs
  BY DEF DropTree, TypeOK, ProcType, Holders
<1>3. SledType' /\ ChanType' /\ SeenType'
  BY <1>1 DEF TypeOK, SledType, ChanType, SeenType, DropTree
<1>4. PastType'
  BY <1>1 DEF TypeOK, SledType, PastType, DropTree
<1>5. ConnType'
  BY <1>2, TypeAnswer DEF TypeOK, ConnType, DropTree
<1> QED BY <1>2, <1>3, <1>4, <1>5, TypeAnswer DEF TypeOK

LEMMA TypeSubscribe ==
  ASSUME TypeOK, NEW c \in Conns, NEW q \in Queues, NEW i \in Topics,
         NEW raw \in SequenceParams, NEW kind \in {"ws", "longpoll"},
         Subscribe(c, q, i, raw, kind)
  PROVE  TypeOK'
<1>1. SledType' /\ ChanType' /\ PastType' /\ SeenType'
  BY DEF TypeOK, SledType, ChanType, PastType, SeenType, Subscribe
<1>2. ProcType'
  BY QueueAssumption DEF TypeOK, ProcType, Procs, Subscribe, Refused
<1>3. SendType'
  BY QueueAssumption DEF TypeOK, ProcType, SendType, Procs, Subscribe, Refused
<1>4. [id |-> i, from |-> get_sequence_from_req(raw), kind |-> kind] \in Wants
  BY FromType DEF Wants
<1>5. ConnType'
  BY <1>4, QueueAssumption DEF TypeOK, ProcType, ConnType, Procs, Subscribe, Refused
<1> QED BY <1>1, <1>2, <1>3, <1>5 DEF TypeOK

LEMMA TypeSubscribeOpen ==
  ASSUME TypeOK, NEW c \in Conns, SubscribeOpen(c)
  PROVE  TypeOK'
<1>1. queue[c] \in Queues
  BY DEF TypeOK, ProcType, SubscribeOpen, Procs
<1>2. SledType' /\ ChanType' /\ PastType' /\ SeenType'
  BY <1>1 DEF TypeOK, SledType, ChanType, PastType, SeenType, SubscribeOpen, open_tree
<1>3. ProcType'
  BY QueueAssumption DEF TypeOK, ProcType, Procs, SubscribeOpen, open_tree
<1>4. SendType' /\ ConnType'
  BY QueueAssumption DEF TypeOK, ProcType, SendType, ConnType, Procs, SubscribeOpen
<1> QED BY <1>2, <1>3, <1>4 DEF TypeOK

LEMMA TypeSubscribeRead ==
  ASSUME TypeOK, NEW c \in Conns, SubscribeRead(c)
  PROVE  TypeOK'
<1>1. queue[c] \in Queues /\ want[c].from \in Froms
  BY DEF TypeOK, ProcType, ConnType, Wants, SubscribeRead, Procs
<1>2. get_prev_items(store[queue[c]], want[c].from, want[c].id) \subseteq Sent
  BY <1>1, HistoryRead DEF TypeOK, SledType
<1>3. InFlight \subseteq Uids
  BY QueueAssumption DEF TypeOK, SendType, InFlight, Draft, Uids
<1>4. SledType' /\ ChanType' /\ PastType'
  BY DEF TypeOK, SledType, ChanType, PastType, SubscribeRead
<1>5. SeenType'
  BY <1>3 DEF TypeOK, SeenType, SubscribeRead
<1>6. ProcType'
  BY QueueAssumption DEF TypeOK, ProcType, Procs, SubscribeRead, Refused
<1>7. SendType'
  BY QueueAssumption DEF TypeOK, ProcType, SendType, Procs, SubscribeRead, Refused
<1>8. prev' \in [Conns -> SUBSET Sent]
  BY <1>2 DEF TypeOK, ConnType, SubscribeRead
<1>9. \A d \in Conns : pc'[d] = "streaming" => pc[d] = "streaming"
  BY DEF TypeOK, ProcType, Procs, SubscribeRead, Refused
<1>10. UNCHANGED <<want, quota, inbox, rx>>
  BY DEF SubscribeRead
<1>11. ConnType'
  BY <1>8, <1>9, <1>10 DEF TypeOK, ConnType
<1> QED BY <1>4, <1>5, <1>6, <1>7, <1>11 DEF TypeOK

LEMMA TypeSubscribeLock ==
  ASSUME TypeOK, FiniteOK, NEW c \in Conns, SubscribeLock(c)
  PROVE  TypeOK'
<1>1. queue[c] \in Queues /\ want[c].id \in Topics
  BY DEF TypeOK, ProcType, ConnType, Wants, SubscribeLock, Procs
<1>2. Quota(c) \in Nat /\ Quota(c) > 0
  <2>1. Cardinality(prev[c]) \in Nat
    BY FS_CardinalityType DEF FiniteOK
  <2> QED BY <2>1 DEF Quota
<1>3. SledType' /\ PastType'
  BY DEF TypeOK, SledType, PastType, SubscribeLock
<1>4. ChanType'
  BY <1>1 DEF TypeOK, ChanType, SubscribeLock, Topics
<1>5. SeenType'
  BY DEF TypeOK, PastType, SeenType, SubscribeLock
<1>6. ProcType'
  BY QueueAssumption DEF TypeOK, ProcType, Procs, SubscribeLock
<1>7. SendType'
  BY QueueAssumption DEF TypeOK, ProcType, SendType, Procs, SubscribeLock
<1>8. ConnType'
  BY <1>2, QueueAssumption DEF TypeOK, ProcType, ConnType, Procs, SubscribeLock
<1> QED BY <1>3, <1>4, <1>5, <1>6, <1>7, <1>8 DEF TypeOK

\* Handing out one message keeps the quota of a running long poll positive.
LEMMA TypeHandOut ==
  ASSUME TypeOK, NEW c \in Conns, pc[c] = "streaming", HandOut(c)
  PROVE  /\ UNCHANGED <<queue, stale>> => ProcType'
         /\ UNCHANGED sendVars => SendType'
         /\ quota' \in [Conns -> Nat]
         /\ rx' \in [Conns -> {"none", "open", "lagged", "closed"}]
         /\ \A d \in Conns : pc'[d] = "streaming" => quota'[d] > 0
<1>1. UNCHANGED <<queue, stale>> => ProcType'
  BY QueueAssumption DEF TypeOK, ProcType, Procs, HandOut, LongpollTakes, ConnectionHandles, DropStream
<1>2. UNCHANGED sendVars => SendType'
  BY QueueAssumption DEF TypeOK, ProcType, SendType, Procs, HandOut, LongpollTakes, ConnectionHandles, DropStream
<1>3. quota[c] \in Nat /\ quota[c] > 0
  BY DEF TypeOK, ConnType
<1>4. quota' \in [Conns -> Nat]
  <2>1. quota[c] - 1 \in Nat
    BY <1>3
  <2> QED BY <2>1 DEF TypeOK, ConnType, HandOut, LongpollTakes, ConnectionHandles
<1>5. rx' \in [Conns -> {"none", "open", "lagged", "closed"}]
  BY DEF TypeOK, ConnType, HandOut, LongpollTakes, ConnectionHandles, DropStream
<1>6. \A d \in Conns : pc'[d] = "streaming" => quota'[d] > 0
  <2> SUFFICES ASSUME NEW d \in Conns, pc'[d] = "streaming" PROVE quota'[d] > 0
    OBVIOUS
  <2>1. pc[d] = "streaming" /\ quota[d] \in Nat /\ quota[d] > 0
    BY DEF TypeOK, ProcType, ConnType, Procs, HandOut, LongpollTakes, ConnectionHandles, DropStream
  <2>2. CASE d # c
    BY <2>1, <2>2 DEF TypeOK, ConnType, HandOut, LongpollTakes, ConnectionHandles
  <2>3. CASE d = c /\ want[c].kind = "longpoll"
    <3>1. quota[c] # 1
      BY <2>3 DEF TypeOK, ProcType, Procs, HandOut, LongpollTakes, ConnectionHandles, DropStream
    <3>2. quota'[c] = quota[c] - 1
      BY <2>3 DEF TypeOK, ConnType, HandOut, LongpollTakes, ConnectionHandles
    <3> QED BY <1>3, <2>3, <3>1, <3>2
  <2>4. CASE d = c /\ want[c].kind # "longpoll"
    BY <2>1, <2>4 DEF HandOut, LongpollTakes, ConnectionHandles
  <2> QED BY <2>2, <2>3, <2>4
<1> QED BY <1>1, <1>2, <1>4, <1>5, <1>6

LEMMA TypeYieldPrev ==
  ASSUME TypeOK, NEW c \in Conns, YieldPrev(c)
  PROVE  TypeOK'
<1>1. HandOut(c) /\ pc[c] = "streaming" /\ UNCHANGED <<queue, stale, msg, batch>>
  BY DEF YieldPrev
<1>2. SledType' /\ ChanType' /\ PastType'
  BY DEF TypeOK, SledType, ChanType, PastType, YieldPrev
<1>3. SeenType' /\ prev' \in [Conns -> SUBSET Sent]
  BY DEF TypeOK, ConnType, SeenType, YieldPrev
<1>4. ConnType'
  BY <1>1, <1>3, TypeHandOut DEF TypeOK, ConnType, YieldPrev
<1> QED BY <1>1, <1>2, <1>3, <1>4, TypeHandOut DEF TypeOK

LEMMA TypeYieldLive ==
  ASSUME TypeOK, NEW c \in Conns, YieldLive(c)
  PROVE  TypeOK'
<1>1. HandOut(c) /\ pc[c] = "streaming" /\ UNCHANGED <<queue, stale, msg, batch>>
  BY DEF YieldLive
<1>2. SledType' /\ ChanType' /\ PastType'
  BY DEF TypeOK, SledType, ChanType, PastType, YieldLive
<1>3. /\ inbox[c] \in Seq(Sent) /\ live[c] \in Seq(Sent)
      /\ inbox[c] # <<>>
  BY DEF TypeOK, ConnType, SeenType, YieldLive
<1>4. Tail(inbox[c]) \in Seq(Sent) /\ Append(live[c], Head(inbox[c])) \in Seq(Sent)
  BY <1>3
<1>5. SeenType' /\ inbox' \in [Conns -> Seq(Sent)]
  BY <1>4 DEF TypeOK, ConnType, SeenType, YieldLive
<1>6. ConnType'
  BY <1>1, <1>5, TypeHandOut DEF TypeOK, ConnType, YieldLive
<1> QED BY <1>1, <1>2, <1>5, <1>6, TypeHandOut DEF TypeOK

LEMMA TypeEnd ==
  ASSUME TypeOK, NEW c \in Conns, StreamEnds(c) \/ ClientGone(c)
  PROVE  TypeOK'
<1>1. SledType' /\ ChanType' /\ PastType' /\ SeenType'
  BY DEF TypeOK, SledType, ChanType, PastType, SeenType, StreamEnds, ClientGone
<1>2. ProcType'
  BY QueueAssumption
  DEF TypeOK, ProcType, Procs, StreamEnds, ClientGone, DropStream
<1>3. SendType' /\ ConnType'
  BY QueueAssumption
  DEF TypeOK, ProcType, SendType, ConnType, Procs, StreamEnds, ClientGone, DropStream
<1> QED BY <1>1, <1>2, <1>3 DEF TypeOK

-----------------------------------------------------------------------------
(* Finiteness.                                                              *)

LEMMA FiniteNext ==
  ASSUME TypeInv, [Next]_vars
  PROVE  FiniteOK'
<1>1. ASSUME NEW q \in Queues PROVE IsFiniteSet(store'[q])
  <2>1. IsFiniteSet(store[q]) /\ store \in [Queues -> SUBSET Sent]
    BY DEF TypeInv, TypeOK, SledType, FiniteOK
  <2>2. CASE \E t \in Threads : Insert(t)
    <3>1. PICK t \in Threads : Insert(t)
      BY <2>2
    <3>2. store'[q] \subseteq store[q] \cup {msg[t]}
      BY <2>1, <3>1 DEF Insert, InsertInto
    <3>3. IsFiniteSet(store[q] \cup {msg[t]})
      BY <2>1, FS_AddElement
    <3> QED BY <3>2, <3>3, FS_Subset
  <2>3. CASE \E t \in Threads : Trim(t) \/ DeleteApply(t) \/ DropTree(t)
    <3>1. store'[q] \subseteq store[q]
      BY <2>1, <2>3 DEF Trim, DeleteApply, DropTree, RemoveKeys
    <3> QED BY <2>1, <3>1, FS_Subset
  <2>4. CASE UNCHANGED store
    BY <2>1, <2>4
  <2>5. ASSUME NEW t \in Threads, Work(t)
        PROVE  Insert(t) \/ Trim(t) \/ DeleteApply(t) \/ DropTree(t) \/ UNCHANGED store
    BY <2>5 DEF Work, GenerateNextId, OpenTree, ScanSurplus, SendFails, Broadcast, DeleteScan
  <2>6. ASSUME NEW t \in Threads, Request(t) PROVE UNCHANGED store
    BY <2>6 DEF Request, SendToQueue, CreateQueue, DeleteQueue, CloseQueue
  <2>7. ASSUME NEW d \in Conns, Stream(d) \/ Client(d) PROVE UNCHANGED store
    BY <2>7 DEF Stream, Client, Subscribe, SubscribeOpen, SubscribeRead, SubscribeLock,
                YieldPrev, YieldLive, StreamEnds, ClientGone
  <2>8. (UNCHANGED vars) => UNCHANGED store
    BY DEF vars
  <2> QED
    BY <2>2, <2>3, <2>4, <2>5, <2>6, <2>7, <2>8 DEF Next
<1>2. ASSUME NEW c \in Conns PROVE IsFiniteSet(prev'[c])
  <2>1. IsFiniteSet(prev[c]) /\ prev \in [Conns -> SUBSET Sent]
    BY DEF TypeInv, TypeOK, ConnType, FiniteOK
  <2>2. CASE \E d \in Conns : SubscribeRead(d)
    <3>1. PICK d \in Conns : SubscribeRead(d)
      BY <2>2
    <3>2. queue[d] \in Queues /\ want[d].from \in Froms
      BY <3>1 DEF TypeInv, TypeOK, ProcType, ConnType, Wants, SubscribeRead, Procs
    <3>3. prev'[c] \subseteq prev[c] \/ prev'[c] \subseteq store[queue[d]]
      BY <2>1, <3>1, <3>2, HistoryRead DEF SubscribeRead
    <3> QED BY <2>1, <3>2, <3>3, FS_Subset DEF TypeInv, FiniteOK
  <2>3. CASE \E d \in Conns : YieldPrev(d)
    <3>1. prev'[c] \subseteq prev[c]
      BY <2>1, <2>3 DEF YieldPrev
    <3> QED BY <2>1, <3>1, FS_Subset
  <2>4. CASE UNCHANGED prev
    BY <2>1, <2>4
  <2>5. ASSUME NEW t \in Threads, Work(t) PROVE UNCHANGED prev
    BY <2>5 DEF Work, GenerateNextId, OpenTree, Insert, ScanSurplus, Trim,
                SendFails, Broadcast, DeleteScan, DeleteApply, DropTree
  <2>6. ASSUME NEW t \in Threads, Request(t) PROVE UNCHANGED prev
    BY <2>6 DEF Request, SendToQueue, CreateQueue, DeleteQueue, CloseQueue
  <2>7. ASSUME NEW d \in Conns, Stream(d) \/ Client(d)
        PROVE  UNCHANGED prev \/ SubscribeRead(d) \/ YieldPrev(d)
    BY <2>7 DEF Stream, Client, Subscribe, SubscribeOpen, SubscribeLock,
                YieldLive, StreamEnds, ClientGone
  <2> QED BY <2>2, <2>3, <2>4, <2>5, <2>6, <2>7 DEF Next, vars
<1> QED BY <1>1, <1>2 DEF FiniteOK

-----------------------------------------------------------------------------
LEMMA TypeNext ==
  ASSUME TypeInv, [Next]_vars
  PROVE  TypeInv'
<1> USE DEF TypeInv
<1>1. CASE UNCHANGED vars
  BY <1>1 DEF vars, TypeOK, SledType, ChanType, ProcType, SendType, ConnType,
              PastType, SeenType, FiniteOK
<1>2. ASSUME NEW t \in Threads, Work(t) PROVE TypeOK'
  BY <1>2, TypeGenerate, TypeOpenTree, TypeInsert, TypeScan, TypeTrim,
     TypeSendFails, TypeBroadcast, TypeDeleteScan, TypeDeleteApply, TypeDropTree
  DEF Work
<1>3. ASSUME NEW t \in Threads, Request(t) PROVE TypeOK'
  BY <1>3, TypeSend, TypeCreate, TypeClose, TypeDelete DEF Request
<1>4. ASSUME NEW c \in Conns, Stream(c) PROVE TypeOK'
  BY <1>4, TypeSubscribeOpen, TypeSubscribeRead, TypeSubscribeLock,
     TypeYieldPrev, TypeYieldLive, TypeEnd
  DEF Stream
<1>5. ASSUME NEW c \in Conns, Client(c) PROVE TypeOK'
  BY <1>5, TypeSubscribe, TypeEnd DEF Client
<1> QED BY <1>1, <1>2, <1>3, <1>4, <1>5, FiniteNext DEF Next

\* The state of the server keeps its types, and every handler of map.rs has
\* in hand at each step what its next step uses.
THEOREM TypeCorrect == Spec => []TypeOK
<1>1. Init => TypeInv
  BY TypeInit
<1>2. TypeInv /\ [Next]_vars => TypeInv'
  BY TypeNext
<1>3. TypeInv => TypeOK
  BY DEF TypeInv
<1> QED BY <1>1, <1>2, <1>3, PTL DEF Spec

-----------------------------------------------------------------------------
(* Sequences.  A counter counts the sends that drew from it, so it stays    *)
(* below the number of requests and never wraps.  That needs to know that   *)
(* a request draws at most once, hence that uids are not shared.            *)

UidsOK ==
  /\ \A t \in Threads : msg[t].uid \in 0..sent
  /\ \A t, u \in Threads : t # u /\ msg[t].uid # 0 => msg[t].uid # msg[u].uid
  /\ \A g \in generated : g.uid <= sent
  /\ \A g \in generated, t \in Threads : pc[t] = "generate" => g.uid # msg[t].uid
  /\ \A g, h \in generated : g.uid = h.uid => g = h

SequenceInv == UidsOK /\ SequencesDense

\* A counter a send is about to draw from has not reached MaxSends.
LEMMA CounterBelowSends ==
  ASSUME TypeInv, SequenceInv, NEW t \in Threads, pc[t] = "generate",
         NEW k \in CounterKeys
  PROVE  ids[k] < MaxSends
<1> DEFINE U == Uids \ {msg[t].uid}
           f == [s \in 1..ids[k] |->
                   CHOOSE u \in U : \E g \in generated :
                     g.key = k /\ g.seq = s /\ g.uid = u]
<1>1. ids[k] \in Nat /\ msg[t].uid \in Uids /\ MaxSends \in Nat
  BY QueueAssumption, U64Assumption DEF TypeInv, TypeOK, SledType, SendType
<1>2. ASSUME NEW s \in 1..ids[k]
      PROVE  \E u \in U : \E g \in generated : g.key = k /\ g.seq = s /\ g.uid = u
  <2>1. PICK g \in generated : g.key = k /\ g.seq = s
    BY <1>2 DEF SequenceInv, SequencesDense
  <2>2. g.uid \in U
    BY DEF SequenceInv, UidsOK, TypeInv, TypeOK, PastType
  <2> QED BY <2>1, <2>2
<1>3. ASSUME NEW s \in 1..ids[k]
      PROVE  f[s] \in U /\ \E g \in generated : g.key = k /\ g.seq = s /\ g.uid = f[s]
  BY <1>2, <1>3
<1> HIDE DEF f
<1>4. f \in Injection(1..ids[k], U)
  <2>1. f \in [1..ids[k] -> U]
    BY <1>3 DEF f
  <2>2. ASSUME NEW s \in 1..ids[k], NEW r \in 1..ids[k], f[s] = f[r] PROVE s = r
    BY <1>3, <2>2 DEF SequenceInv, UidsOK
  <2> QED BY <2>1, <2>2 DEF Injection, IsInjective
<1>5. IsFiniteSet(Uids) /\ Cardinality(Uids) = MaxSends
  BY <1>1, FS_Interval DEF Uids
<1>6. IsFiniteSet(U) /\ Cardinality(U) = MaxSends - 1
  BY <1>1, <1>5, FS_RemoveElement
<1>7. Cardinality(1..ids[k]) = ids[k]
  BY <1>1, FS_Interval
<1>8. Cardinality(1..ids[k]) <= Cardinality(U)
  BY <1>4, <1>6, FS_Injection
<1> QED BY <1>1, <1>6, <1>7, <1>8

\* Most steps hand out neither uids nor sequences.
LEMMA SequenceQuiet ==
  ASSUME TypeInv, SequenceInv, UNCHANGED <<ids, generated, sent>>,
         \A t \in Threads :
           /\ msg'[t].uid \in {0, msg[t].uid}
           /\ pc'[t] = "generate" => pc[t] = "generate" /\ msg'[t] = msg[t]
  PROVE  SequenceInv'
<1>0. SequencesDense'
  BY DEF SequenceInv, SequencesDense
<1>1. \A t \in Threads : msg'[t].uid \in 0..sent'
  <2>1. sent \in Nat
    BY QueueAssumption DEF TypeInv, TypeOK, PastType
  <2> QED BY <2>1 DEF SequenceInv, UidsOK
<1>2. \A t, u \in Threads : t # u /\ msg'[t].uid # 0 => msg'[t].uid # msg'[u].uid
  BY DEF SequenceInv, UidsOK
<1>3. \A g \in generated', t \in Threads : pc'[t] = "generate" => g.uid # msg'[t].uid
  BY DEF SequenceInv, UidsOK
<1> QED BY <1>0, <1>1, <1>2, <1>3 DEF SequenceInv, UidsOK

LEMMA SequenceSend ==
  ASSUME TypeInv, SequenceInv, NEW t \in Threads, NEW q \in Queues,
         NEW i \in Ids, NEW seq \in CustomSeqs \cup {0}, SendToQueue(t, q, i, seq)
  PROVE  SequenceInv'
<1>1. SequencesDense'
  BY DEF SequenceInv, SequencesDense, SendToQueue
<1>2. /\ sent' = sent + 1 /\ sent \in Nat /\ UNCHANGED generated
      /\ \A u \in Threads \ {t} : msg'[u] = msg[u] /\ pc'[u] = pc[u]
      /\ \/ msg'[t].uid = sent + 1
         \/ msg'[t] = msg[t] /\ pc'[t] = pc[t]
  BY QueueAssumption DEF TypeInv, TypeOK, PastType, SendType, ProcType, Procs, SendToQueue
<1>3. \A u \in Threads : msg'[u].uid \in 0..sent'
  BY <1>2 DEF SequenceInv, UidsOK
<1>4. \A u, v \in Threads : u # v /\ msg'[u].uid # 0 => msg'[u].uid # msg'[v].uid
  BY <1>2 DEF SequenceInv, UidsOK
<1>5. \A g \in generated' : g.uid <= sent'
  BY <1>2, QueueAssumption DEF SequenceInv, UidsOK, TypeInv, TypeOK, PastType, Uids
<1>6. \A g \in generated', u \in Threads : pc'[u] = "generate" => g.uid # msg'[u].uid
  BY <1>2, QueueAssumption DEF SequenceInv, UidsOK, TypeInv, TypeOK, PastType, Uids
<1>7. \A g, h \in generated' : g.uid = h.uid => g = h
  BY <1>2 DEF SequenceInv, UidsOK
<1> QED BY <1>1, <1>3, <1>4, <1>5, <1>6, <1>7 DEF SequenceInv, UidsOK

LEMMA SequenceGenerate ==
  ASSUME TypeInv, SequenceInv, NEW t \in Threads, GenerateNextId(t)
  PROVE  SequenceInv'
<1> DEFINE k == CounterKey[<<queue[t], msg[t].id>>]
           n == NextSequence(ids[k])
           new == [key |-> k, seq |-> n, uid |-> msg[t].uid]
<1>1. queue[t] \in Queues /\ msg[t].id \in Ids /\ msg[t].uid \in Uids
  BY DEF TypeInv, TypeOK, ProcType, SendType, GenerateNextId, Procs
<1>2. k \in CounterKeys
  BY <1>1, QueueAssumption
<1>3. n = ids[k] + 1 /\ ids[k] \in Nat
  <2>1. ids[k] < MaxSends /\ ids[k] \in 0..U64Max
    BY <1>2, CounterBelowSends DEF GenerateNextId, TypeInv, TypeOK, SledType
  <2> QED BY <2>1, QueueAssumption, U64Assumption, SendsAssumption DEF NextSequence
<1> HIDE DEF k, n
<1>4. /\ ids' = [ids EXCEPT ![k] = n] /\ msg' = [msg EXCEPT ![t].seq = n]
      /\ generated' = generated \cup {new} /\ UNCHANGED sent
  BY DEF GenerateNextId, k, n
<1>5. \A u \in Threads : msg'[u].uid = msg[u].uid
  BY <1>4 DEF TypeInv, TypeOK, SendType, Draft
<1>6. \A u \in Threads : pc'[u] = "generate" => pc[u] = "generate" /\ u # t
  BY DEF TypeInv, TypeOK, ProcType, Procs, GenerateNextId, AfterSequence
<1>7. \A g \in generated : g.uid # msg[t].uid
  BY DEF SequenceInv, UidsOK, GenerateNextId
<1>8. UidsOK'
  <2>1. \A u \in Threads : msg'[u].uid \in 0..sent'
    BY <1>4, <1>5 DEF SequenceInv, UidsOK
  <2>2. \A u, v \in Threads : u # v /\ msg'[u].uid # 0 => msg'[u].uid # msg'[v].uid
    BY <1>5 DEF SequenceInv, UidsOK
  <2>3. \A g \in generated' : g.uid <= sent'
    BY <1>4 DEF SequenceInv, UidsOK
  <2>4. ASSUME NEW g \in generated', NEW u \in Threads, pc'[u] = "generate"
        PROVE  g.uid # msg'[u].uid
    <3>1. pc[u] = "generate" /\ u # t /\ msg[t].uid # 0
      BY <1>1, <1>6, <2>4 DEF Uids
    <3>2. CASE g \in generated
      BY <1>5, <3>1, <3>2 DEF SequenceInv, UidsOK
    <3>3. CASE g = new
      BY <1>5, <3>1, <3>3 DEF SequenceInv, UidsOK
    <3> QED BY <1>4, <3>2, <3>3
  <2>5. \A g, h \in generated' : g.uid = h.uid => g = h
    BY <1>4, <1>7 DEF SequenceInv, UidsOK
  <2> QED BY <2>1, <2>2, <2>3, <2>4, <2>5 DEF UidsOK
<1>9. \A g \in generated : g.key = k => g.seq # n
  <2>1. \A g \in generated : g.key = k => g.seq \in 1..ids[k]
    BY <1>2 DEF SequenceInv, SequencesDense
  <2> QED BY <1>3, <2>1
<1>10. SequencesDense'
  <2>1. ASSUME NEW j \in CounterKeys
        PROVE  {g.seq : g \in {h \in generated' : h.key = j}} = 1..ids'[j]
    <3>1. {g.seq : g \in {h \in generated : h.key = j}} = 1..ids[j]
      BY DEF SequenceInv, SequencesDense
    <3>2. CASE j # k
      <4>1. ids'[j] = ids[j]
        BY <1>4, <3>2 DEF TypeInv, TypeOK, SledType
      <4>2. {h \in generated' : h.key = j} = {h \in generated : h.key = j}
        BY <1>4, <3>2
      <4> QED BY <3>1, <4>1, <4>2
    <3>3. CASE j = k
      <4>1. ids'[j] = ids[j] + 1
        BY <1>2, <1>3, <1>4, <3>3 DEF TypeInv, TypeOK, SledType
      <4>2. {h \in generated' : h.key = j} = {h \in generated : h.key = j} \cup {new}
        BY <1>4, <3>3
      <4>3. {g.seq : g \in {h \in generated' : h.key = j}} = 1..ids[j] \cup {n}
        <5> DEFINE G == {h \in generated : h.key = j}
        <5> HIDE DEF G
        <5>1. {g.seq : g \in G \cup {new}} = {g.seq : g \in G} \cup {new.seq}
          OBVIOUS
        <5>2. new.seq = n
          OBVIOUS
        <5> QED BY <3>1, <4>2, <5>1, <5>2 DEF G
      <4> QED BY <1>3, <3>3, <4>1, <4>3
    <3> QED BY <3>2, <3>3
  <2>2. \A g, h \in generated' : g.key = h.key /\ g.seq = h.seq => g = h
    BY <1>4, <1>9 DEF SequenceInv, SequencesDense
  <2> QED BY <2>1, <2>2 DEF SequencesDense
<1> QED BY <1>8, <1>10 DEF SequenceInv

LEMMA SequenceNext ==
  ASSUME TypeInv, SequenceInv, [Next]_vars
  PROVE  SequenceInv'
<1> DEFINE Quiet == /\ UNCHANGED <<ids, generated, sent>>
                    /\ \A t \in Threads :
                         /\ msg'[t].uid \in {0, msg[t].uid}
                         /\ pc'[t] = "generate" => pc[t] = "generate" /\ msg'[t] = msg[t]
<1>1. CASE UNCHANGED vars
  BY <1>1, SequenceQuiet DEF vars
<1>2. ASSUME NEW t \in Threads, Work(t), ~GenerateNextId(t) PROVE Quiet
  <2>1. CASE OpenTree(t) \/ Insert(t) \/ ScanSurplus(t) \/ Trim(t) \/ DeleteScan(t)
    BY <2>1 DEF OpenTree, Insert, ScanSurplus, Trim, DeleteScan,
                TypeInv, TypeOK, ProcType, Procs
  <2>2. CASE SendFails(t) \/ Broadcast(t) \/ DeleteApply(t) \/ DropTree(t)
    BY <2>2 DEF SendFails, Broadcast, DeleteApply, DropTree, Answer, NoMsg,
                TypeInv, TypeOK, ProcType, SendType, Procs
  <2> QED BY <1>2, <2>1, <2>2 DEF Work
<1>3. ASSUME NEW t \in Threads, NEW q \in Queues,
             CreateQueue(t, q) \/ CloseQueue(t, q) \/ \E i \in Ids : DeleteQueue(t, q, i)
      PROVE  Quiet
  <2>1. CASE CreateQueue(t, q) \/ CloseQueue(t, q)
    BY <2>1 DEF CreateQueue, CloseQueue, TypeInv, TypeOK, ProcType, Procs
  <2>2. ASSUME NEW i \in Ids, DeleteQueue(t, q, i) PROVE Quiet
    <3>1. [NoMsg EXCEPT !.id = i].uid = 0
      BY DEF NoMsg
    <3> QED
      BY <2>2, <3>1 DEF DeleteQueue, TypeInv, TypeOK, ProcType, SendType, Procs
  <2> QED BY <1>3, <2>1, <2>2
<1>4. ASSUME NEW c \in Conns, Stream(c) \/ Client(c) PROVE Quiet
  <2>1. UNCHANGED <<ids, generated, sent, msg>>
    BY <1>4 DEF Stream, Client, Subscribe, SubscribeOpen, SubscribeRead,
                SubscribeLock, YieldPrev, YieldLive, StreamEnds, ClientGone
  <2>2. \A t \in Threads : pc'[t] = pc[t]
    BY <1>4, QueueAssumption
    DEF Stream, Client, Subscribe, SubscribeOpen, SubscribeRead, SubscribeLock,
        Refused, YieldPrev, YieldLive, StreamEnds, ClientGone, HandOut, LongpollTakes, ConnectionHandles, DropStream,
        TypeInv, TypeOK, ProcType, Procs
  <2> QED BY <2>1, <2>2
<1>5. Quiet => SequenceInv'
  BY SequenceQuiet
<1> HIDE DEF Quiet
<1> QED
  BY <1>1, <1>2, <1>3, <1>4, <1>5, SequenceSend, SequenceGenerate
  DEF Next, Work, Request

\* For any number of workers, queues and ids, and while fewer than 2^64
\* requests are made, generate_next_id hands out 1, 2, 3, ... per counter
\* without a gap and without giving a sequence twice.
THEOREM SequencesCorrect == Spec => []SequencesDense
<1>1. Init => TypeInv /\ SequenceInv
  <2>1. Init => SequenceInv
    BY DEF Init, SequenceInv, UidsOK, SequencesDense, NoMsg
  <2> QED BY <2>1, TypeInit
<1>2. TypeInv /\ SequenceInv /\ [Next]_vars => (TypeInv /\ SequenceInv)'
  BY TypeNext, SequenceNext
<1>3. SequenceInv => SequencesDense
  BY DEF SequenceInv
<1> QED BY <1>1, <1>2, <1>3, PTL DEF Spec
=============================================================================
