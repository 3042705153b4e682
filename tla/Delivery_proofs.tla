-------------------------- MODULE Delivery_proofs ---------------------------
(***************************************************************************)
(* Proofs about what a subscription is handed: outside the window between  *)
(* its history read and its joining of the channel no message is lost and  *)
(* none comes twice, and the live ones come in the order of their sends.   *)
(***************************************************************************)
EXTENDS Queue_proofs

USE DEF ThreadPC, ConnPC, Sequenced, sledVars, chanVars, procVars, sendVars,
        connVars, reqVars, pastVars, seenVars

\* A history read misses nothing that was asked for by number or as "first",
\* except a message at u64::MAX.
LEMMA HistoryComplete ==
  ASSUME NEW tree \in SUBSET Sent, NEW from \in Froms, NEW id \in Topics,
         NEW m \in tree, id \in {NoId, m.id}, m.seq # U64Max,
         from.at = "first" \/ (from.at = "id" /\ m.seq >= from.seq)
  PROVE  m \in get_prev_items(tree, from, id)
<1>1. m.id \in Ids /\ m.seq \in 1..U64Max /\ m.seq < U64Max
  BY U64Assumption DEF Sent
<1>2. CASE id = NoId
  BY <1>2 DEF get_prev_items, get_prev_all_items
<1>3. CASE id # NoId
  <2>1. id = m.id
    BY <1>3
  <2>2. CASE from.at = "first"
    BY <1>1, <1>3, <2>1, <2>2, IdsAssumption
    DEF get_prev_items, extract_sequences, scan_prefix
  <2>3. CASE from.at = "id" /\ m.seq >= from.seq
    <3>1. from.seq \in 1..U64Max
      BY <2>3 DEF Froms
    <3>2. ~Precedes(m, [id |-> id, seq |-> from.seq])
      BY <1>1, <2>1, <2>3, <3>1, U64Assumption DEF Precedes
    <3>3. Precedes(m, [id |-> id, seq |-> U64Max])
      BY <1>1, <2>1 DEF Precedes
    <3> QED BY <1>3, <2>3, <3>2, <3>3 DEF get_prev_items, extract_sequences
  <2> QED BY <2>2, <2>3
<1> QED BY <1>2, <1>3

-----------------------------------------------------------------------------
(* The invariant.  Its heart is WindowOK: a send that was accepted before c *)
(* joined the channel and is still in flight is in the window of c, so c    *)
(* may miss it; every other message it asked for was read with the history. *)

\* An answered send is no longer in flight.
AckedOK ==
  \A a \in acked : a[2].uid <= sent /\ \A t \in Threads : msg[t].uid # a[2].uid

WindowOK ==
  \A c \in Conns :
    /\ horizon[c] <= sent
    /\ rx[c] = "open" => pc[c] = "streaming"
    /\ \A t \in Threads :
         /\ msg[t].uid # 0
         /\ pc[c] = "s_lock" \/ (pc[c] = "streaming" /\ msg[t].uid <= horizon[c])
         => msg[t].uid \in overlap[c]

\* What c has read of the history by the time it is about to join.
ReadOK ==
  \A c \in Conns, a \in acked :
    /\ pc[c] = "s_lock"
    /\ Matches(c, a[1], a[2])
    /\ a[2].uid \notin overlap[c]
    /\ Asked(c, a[2]) /\ a[2].seq # U64Max /\ a[2] \in store[a[1]]
    => a[2] \in prev[c]

DeliveryInv == AckedOK /\ WindowOK /\ ReadOK /\ NoLossOutsideWindow

Inv == TypeInv /\ SequenceInv /\ DeliveryInv

-----------------------------------------------------------------------------
(* Frames.                                                                  *)

\* A step that neither answers nor accepts a send, stores no answered
\* message and takes nothing from a subscription keeps the invariant.
SendersQuiet ==
  /\ UNCHANGED <<acked, sent>>
  /\ \A t \in Threads : msg'[t].uid \in {0, msg[t].uid}
  /\ \A a \in acked : a[2] \in store'[a[1]] => a[2] \in store[a[1]]

ConnQuiet(c) ==
  /\ horizon'[c] = horizon[c]
  /\ pc'[c] = "s_lock" =>
       /\ pc[c] = "s_lock" /\ want'[c] = want[c] /\ queue'[c] = queue[c]
       /\ overlap'[c] = overlap[c] /\ prev'[c] = prev[c]
  /\ pc'[c] = "streaming" => pc[c] = "streaming" /\ overlap'[c] = overlap[c]
  /\ rx'[c] = "open" =>
       /\ rx[c] = "open" /\ pc'[c] = "streaming"
       /\ want'[c] = want[c] /\ queue'[c] = queue[c]
       /\ Seen(c) \subseteq Seen(c)'

LEMMA DeliveryQuiet ==
  ASSUME TypeInv, DeliveryInv, SendersQuiet, \A c \in Conns : ConnQuiet(c)
  PROVE  DeliveryInv'
<1>1. AckedOK'
  <2>1. \A a \in acked : a[2].uid \in Nat \ {0}
    BY QueueAssumption DEF TypeInv, TypeOK, PastType, Sent, Uids
  <2> QED BY <2>1 DEF DeliveryInv, AckedOK, SendersQuiet
<1>2. WindowOK'
  <2> SUFFICES ASSUME NEW c \in Conns
               PROVE  /\ horizon'[c] <= sent'
                      /\ rx'[c] = "open" => pc'[c] = "streaming"
                      /\ \A t \in Threads :
                           /\ msg'[t].uid # 0
                           /\ \/ pc'[c] = "s_lock"
                              \/ pc'[c] = "streaming" /\ msg'[t].uid <= horizon'[c]
                           => msg'[t].uid \in overlap'[c]
    BY DEF WindowOK
  <2>1. ConnQuiet(c)
    OBVIOUS
  <2> QED BY <2>1 DEF DeliveryInv, WindowOK, SendersQuiet, ConnQuiet
<1>3. ReadOK'
  <2> SUFFICES ASSUME NEW c \in Conns, NEW a \in acked, pc'[c] = "s_lock",
                      Matches(c, a[1], a[2])', a[2].uid \notin overlap'[c],
                      Asked(c, a[2])', a[2].seq # U64Max, a[2] \in store'[a[1]]
               PROVE  a[2] \in prev'[c]
    BY DEF ReadOK, SendersQuiet
  <2>1. ConnQuiet(c)
    OBVIOUS
  <2>2. Matches(c, a[1], a[2]) /\ Asked(c, a[2])
    BY <2>1 DEF ConnQuiet, Matches, Asked
  <2> QED BY <2>1, <2>2 DEF DeliveryInv, ReadOK, SendersQuiet, ConnQuiet
<1>4. NoLossOutsideWindow'
  <2> SUFFICES ASSUME NEW c \in Conns, NEW a \in acked, rx'[c] = "open",
                      Matches(c, a[1], a[2])', a[2].uid \notin overlap'[c],
                      \/ a[2].uid > horizon'[c]
                      \/ Asked(c, a[2])' /\ a[2].seq # U64Max /\ a[2] \in store'[a[1]]
               PROVE  a[2] \in Seen(c)'
    BY DEF NoLossOutsideWindow, SendersQuiet
  <2>1. ConnQuiet(c)
    OBVIOUS
  <2>2. Matches(c, a[1], a[2]) /\ (Asked(c, a[2])' => Asked(c, a[2]))
    BY <2>1 DEF ConnQuiet, Matches, Asked
  <2>3. a[2] \in Seen(c)
    BY <2>1, <2>2 DEF DeliveryInv, NoLossOutsideWindow, SendersQuiet, ConnQuiet
  <2> QED BY <2>1, <2>3 DEF ConnQuiet
<1> QED BY <1>1, <1>2, <1>3, <1>4 DEF DeliveryInv

\* A worker leaves the registers of the subscriptions alone; at most it
\* closes their channels.
LEMMA WorkersLeaveConns ==
  ASSUME WindowOK,
         UNCHANGED <<want, prev, inbox, replayed, live, overlap, horizon>>,
         \A c \in Conns : /\ pc'[c] = pc[c] /\ queue'[c] = queue[c]
                          /\ rx'[c] \in {rx[c], "closed"}
  PROVE  \A c \in Conns : ConnQuiet(c)
<1> SUFFICES ASSUME NEW c \in Conns PROVE ConnQuiet(c)
  OBVIOUS
<1>1. Seen(c)' = Seen(c)
  BY DEF Seen, Pending
<1> QED BY <1>1 DEF ConnQuiet, WindowOK

\* What a worker's step looks like to the subscriptions.
ConnsKept ==
  /\ UNCHANGED <<want, prev, inbox, replayed, live, overlap, horizon>>
  /\ \A c \in Conns : /\ pc'[c] = pc[c] /\ queue'[c] = queue[c]
                      /\ rx'[c] \in {rx[c], "closed"}

LEMMA AnswerQuiet ==
  ASSUME TypeInv, NEW t \in Threads, Answer(t)
  PROVE  /\ \A u \in Threads : msg'[u].uid \in {0, msg[u].uid}
         /\ \A c \in Conns : pc'[c] = pc[c] /\ queue'[c] = queue[c]
<1>1. NoMsg.uid = 0
  BY DEF NoMsg
<1>2. \A u \in Threads : msg'[u].uid \in {0, msg[u].uid}
  BY <1>1 DEF Answer, TypeInv, TypeOK, SendType
<1> QED BY <1>2, TypeAnswer DEF TypeInv

\* The messages of answered sends that a step leaves in the trees were there.
NothingRestored == \A a \in acked : a[2] \in store'[a[1]] => a[2] \in store[a[1]]

LEMMA DeliveryWorker ==
  ASSUME Inv, ConnsKept, UNCHANGED <<acked, sent>>, NothingRestored,
         \A u \in Threads : msg'[u].uid \in {0, msg[u].uid}
  PROVE  DeliveryInv'
<1>1. SendersQuiet
  BY DEF SendersQuiet, NothingRestored
<1>2. \A c \in Conns : ConnQuiet(c)
  BY WorkersLeaveConns DEF ConnsKept, Inv, DeliveryInv
<1> QED BY <1>1, <1>2, DeliveryQuiet DEF Inv

LEMMA DeliveryWork ==
  ASSUME Inv, NEW t \in Threads,
         \/ GenerateNextId(t) \/ OpenTree(t) \/ Insert(t) \/ ScanSurplus(t)
         \/ Trim(t) \/ SendFails(t) \/ DeleteScan(t) \/ DeleteApply(t) \/ DropTree(t)
  PROVE  DeliveryInv'
<1>0. TypeInv /\ \A c \in Conns : c # t /\ t \in Procs /\ c \in Procs
  BY QueueAssumption DEF Procs, Inv
<1>1. \A a \in acked : a[1] \in Queues /\ store \in [Queues -> SUBSET Sent]
  BY <1>0 DEF TypeInv, TypeOK, PastType, SledType
<1>2. pc \in [Procs -> ThreadPC \cup ConnPC] /\ msg \in [Threads -> Draft]
  BY <1>0 DEF TypeInv, TypeOK, ProcType, SendType
<1>3. CASE GenerateNextId(t)
  <2>1. \A u \in Threads : msg'[u].uid = msg[u].uid
    BY <1>2, <1>3 DEF GenerateNextId, Draft
  <2>2. ConnsKept /\ UNCHANGED <<acked, sent, store>>
    BY <1>0, <1>2, <1>3 DEF GenerateNextId, ConnsKept
  <2> QED BY <2>1, <2>2, DeliveryWorker DEF NothingRestored
<1>4. CASE OpenTree(t)
  <2>1. ConnsKept /\ UNCHANGED <<acked, sent, store, msg>>
    BY <1>0, <1>2, <1>4 DEF OpenTree, ConnsKept
  <2> QED BY <2>1, DeliveryWorker DEF NothingRestored
<1>5. CASE Insert(t)
  <2>1. ConnsKept /\ UNCHANGED <<acked, sent, msg>>
    BY <1>0, <1>2, <1>5 DEF Insert, ConnsKept
  <2>2. ASSUME NEW a \in acked, a[2] \in store'[a[1]]
        PROVE  a[2] \in store[a[1]]
    <3>1. a[2] # msg[t]
      BY DEF Inv, DeliveryInv, AckedOK
    <3>2. store'[a[1]] \subseteq store[a[1]] \cup {msg[t]}
      BY <1>1, <1>5 DEF Insert, InsertInto
    <3> QED BY <2>2, <3>1, <3>2
  <2> QED BY <2>1, <2>2, DeliveryWorker DEF NothingRestored
<1>6. CASE ScanSurplus(t)
  <2>1. ConnsKept /\ UNCHANGED <<acked, sent, store, msg>>
    BY <1>0, <1>2, <1>6 DEF ScanSurplus, ConnsKept
  <2> QED BY <2>1, DeliveryWorker DEF NothingRestored
<1>7. CASE Trim(t)
  <2>1. ConnsKept /\ UNCHANGED <<acked, sent, msg>>
    BY <1>0, <1>2, <1>7 DEF Trim, ConnsKept
  <2>2. NothingRestored
    BY <1>1, <1>7 DEF Trim, RemoveKeys, NothingRestored
  <2> QED BY <2>1, <2>2, DeliveryWorker
<1>8. CASE SendFails(t)
  <2>1. Answer(t) /\ UNCHANGED <<acked, sent, store>>
    BY <1>8 DEF SendFails
  <2>2. ConnsKept
    BY <1>0, <1>8, <2>1, AnswerQuiet DEF SendFails, ConnsKept
  <2> QED BY <1>0, <2>1, <2>2, AnswerQuiet, DeliveryWorker DEF NothingRestored
<1>9. CASE DeleteScan(t)
  <2>1. ConnsKept /\ UNCHANGED <<acked, sent, store, msg>>
    BY <1>0, <1>2, <1>9 DEF DeleteScan, ConnsKept
  <2> QED BY <2>1, DeliveryWorker DEF NothingRestored
<1>10. CASE DeleteApply(t)
  <2>1. Answer(t) /\ UNCHANGED <<acked, sent>>
    BY <1>10 DEF DeleteApply
  <2>2. ConnsKept
    BY <1>0, <1>10, <2>1, AnswerQuiet DEF DeleteApply, ConnsKept
  <2>3. NothingRestored
    BY <1>1, <1>10 DEF DeleteApply, RemoveKeys, NothingRestored
  <2> QED BY <1>0, <2>1, <2>2, <2>3, AnswerQuiet, DeliveryWorker
<1>11. CASE DropTree(t)
  <2>1. Answer(t) /\ UNCHANGED <<acked, sent>>
    BY <1>11 DEF DropTree
  <2>2. ConnsKept
    BY <1>0, <1>11, <2>1, AnswerQuiet DEF DropTree, ConnsKept
  <2>3. NothingRestored
    BY <1>1, <1>11 DEF DropTree, NothingRestored
  <2> QED BY <1>0, <2>1, <2>2, <2>3, AnswerQuiet, DeliveryWorker
<1> QED BY <1>3, <1>4, <1>5, <1>6, <1>7, <1>8, <1>9, <1>10, <1>11

LEMMA DeliveryAdmin ==
  ASSUME Inv, NEW t \in Threads, NEW q \in Queues,
         CreateQueue(t, q) \/ CloseQueue(t, q) \/ \E i \in Ids : DeleteQueue(t, q, i)
  PROVE  DeliveryInv'
<1>0. TypeInv /\ \A c \in Conns : c # t /\ t \in Procs /\ c \in Procs
  BY QueueAssumption DEF Procs, Inv
<1>1. /\ pc \in [Procs -> ThreadPC \cup ConnPC]
      /\ queue \in [Procs -> Queues \cup {NoQueue}]
      /\ msg \in [Threads -> Draft]
  BY <1>0 DEF TypeInv, TypeOK, ProcType, SendType
<1>2. CASE CreateQueue(t, q)
  <2>1. ConnsKept /\ UNCHANGED <<acked, sent, store, msg>>
    BY <1>0, <1>1, <1>2 DEF CreateQueue, ConnsKept
  <2> QED BY <2>1, DeliveryWorker DEF NothingRestored
<1>3. CASE CloseQueue(t, q)
  <2>1. \A c \in Conns : /\ pc'[c] = pc[c] /\ queue'[c] = queue[c]
                         /\ rx'[c] \in {rx[c], "closed"}
    BY <1>0, <1>1, <1>3 DEF CloseQueue, CloseReceivers
  <2>2. ConnsKept /\ UNCHANGED <<acked, sent, store, msg>>
    BY <1>3, <2>1 DEF CloseQueue, ConnsKept
  <2> QED BY <2>2, DeliveryWorker DEF NothingRestored
<1>4. ASSUME NEW i \in Ids, DeleteQueue(t, q, i)
      PROVE  DeliveryInv'
  <2>1. \A c \in Conns : /\ pc'[c] = pc[c] /\ queue'[c] = queue[c]
                         /\ rx'[c] \in {rx[c], "closed"}
    BY <1>0, <1>1, <1>4 DEF DeleteQueue, CloseReceivers
  <2>2. ConnsKept /\ UNCHANGED <<acked, sent, store>>
    BY <1>4, <2>1 DEF DeleteQueue, ConnsKept
  <2>3. [NoMsg EXCEPT !.id = i].uid = 0
    BY DEF NoMsg
  <2>4. \A u \in Threads : msg'[u].uid \in {0, msg[u].uid}
    BY <1>1, <1>4, <2>3 DEF DeleteQueue
  <2> QED BY <2>2, <2>4, DeliveryWorker DEF NothingRestored
<1> QED BY <1>2, <1>3, <1>4

LEMMA DeliverySend ==
  ASSUME Inv, NEW t \in Threads, NEW q \in Queues, NEW i \in Ids,
         NEW seq \in CustomSeqs \cup {0}, SendToQueue(t, q, i, seq)
  PROVE  DeliveryInv'
<1> USE DEF Inv
<1>1. /\ sent' = sent + 1 /\ sent \in Nat
      /\ \A c \in Conns : horizon[c] \in Nat /\ horizon[c] <= sent
      /\ \A a \in acked : a[2].uid \in Nat
      /\ \A u \in Threads : msg[u].uid \in Nat
  BY QueueAssumption
  DEF SendToQueue, TypeInv, TypeOK, PastType, SeenType, SendType, Draft, Sent, Uids,
      DeliveryInv, WindowOK
<1>2. UNCHANGED <<want, prev, inbox, rx, replayed, live, horizon, acked, store>>
  BY DEF SendToQueue
<1>3. \A c \in Conns : pc'[c] = pc[c] /\ queue'[c] = queue[c]
  BY QueueAssumption DEF SendToQueue, TypeInv, TypeOK, ProcType, Procs
<1>4. \A u \in Threads : msg'[u].uid # msg[u].uid => msg'[u].uid = sent + 1
  BY DEF SendToQueue, TypeInv, TypeOK, SendType
<1>5. \A c \in Conns : /\ overlap[c] \subseteq overlap'[c]
                       /\ pc[c] # "s_lock" => overlap'[c] = overlap[c]
                       /\ overlap'[c] \subseteq overlap[c] \cup {sent + 1}
  BY DEF SendToQueue, TypeInv, TypeOK, SeenType
<1>6. \A c \in Conns, u \in Threads :
        pc[c] = "s_lock" /\ msg'[u].uid # msg[u].uid => sent + 1 \in overlap'[c]
  BY DEF SendToQueue, TypeInv, TypeOK, SendType
<1>7. AckedOK'
  BY <1>1, <1>2, <1>4 DEF DeliveryInv, AckedOK
<1>8. WindowOK'
  <2> SUFFICES ASSUME NEW c \in Conns
               PROVE  /\ horizon'[c] <= sent'
                      /\ rx'[c] = "open" => pc'[c] = "streaming"
                      /\ \A u \in Threads :
                           /\ msg'[u].uid # 0
                           /\ \/ pc'[c] = "s_lock"
                              \/ pc'[c] = "streaming" /\ msg'[u].uid <= horizon'[c]
                           => msg'[u].uid \in overlap'[c]
    BY DEF WindowOK
  <2>1. horizon'[c] <= sent' /\ (rx'[c] = "open" => pc'[c] = "streaming")
    BY <1>1, <1>2, <1>3 DEF DeliveryInv, WindowOK
  <2>2. ASSUME NEW u \in Threads, msg'[u].uid # 0,
               \/ pc'[c] = "s_lock"
               \/ pc'[c] = "streaming" /\ msg'[u].uid <= horizon'[c]
        PROVE  msg'[u].uid \in overlap'[c]
    <3>1. CASE msg'[u].uid = msg[u].uid
      BY <1>2, <1>3, <1>5, <2>2, <3>1 DEF DeliveryInv, WindowOK
    <3>2. CASE msg'[u].uid # msg[u].uid
      <4>1. msg'[u].uid = sent + 1 /\ pc[c] = "s_lock"
        BY <1>1, <1>2, <1>3, <1>4, <2>2, <3>2
      <4> QED BY <1>6, <3>2, <4>1
    <3> QED BY <3>1, <3>2
  <2> QED BY <2>1, <2>2
<1>9. ReadOK'
  BY <1>2, <1>3, <1>5 DEF DeliveryInv, ReadOK, Matches, Asked
<1>10. NoLossOutsideWindow'
  <2>1. \A c \in Conns : Seen(c)' = Seen(c) /\ (rx[c] = "open" => pc[c] # "s_lock")
    BY <1>2 DEF Seen, Pending, DeliveryInv, WindowOK
  <2> QED BY <1>2, <1>3, <1>5, <2>1 DEF DeliveryInv, NoLossOutsideWindow, Matches, Asked
<1> QED BY <1>7, <1>8, <1>9, <1>10 DEF DeliveryInv

\* What appending to a channel and taking its head do to its messages.
LEMMA RangeAppend ==
  ASSUME NEW S, NEW s \in Seq(S), NEW m \in S
  PROVE  Range(Append(s, m)) = Range(s) \cup {m}
<1>1. /\ DOMAIN Append(s, m) = 1..(Len(s) + 1) /\ Len(s) \in Nat
      /\ DOMAIN s = 1..Len(s)
      /\ Append(s, m)[Len(s) + 1] = m
      /\ \A k \in 1..Len(s) : Append(s, m)[k] = s[k]
  OBVIOUS
<1>2. ASSUME NEW x \in Range(Append(s, m)) PROVE x \in Range(s) \cup {m}
  <2>1. PICK k \in 1..(Len(s) + 1) : x = Append(s, m)[k]
    BY <1>1 DEF Range
  <2>2. k = Len(s) + 1 \/ k \in 1..Len(s)
    BY <1>1
  <2> QED BY <1>1, <2>1, <2>2 DEF Range
<1>3. ASSUME NEW x \in Range(s) PROVE x \in Range(Append(s, m))
  <2>1. PICK k \in 1..Len(s) : x = s[k]
    BY <1>1 DEF Range
  <2>2. k \in 1..(Len(s) + 1)
    BY <1>1
  <2> QED BY <1>1, <2>1, <2>2 DEF Range
<1>4. m \in Range(Append(s, m))
  <2>1. Len(s) + 1 \in 1..(Len(s) + 1)
    BY <1>1
  <2> QED BY <1>1, <2>1 DEF Range
<1> QED BY <1>2, <1>3, <1>4

LEMMA RangeTail ==
  ASSUME NEW S, NEW s \in Seq(S), s # <<>>
  PROVE  Range(s) \subseteq {Head(s)} \cup Range(Tail(s))
<1>1. /\ Len(s) \in Nat \ {0} /\ DOMAIN s = 1..Len(s)
      /\ Head(s) = s[1] /\ DOMAIN Tail(s) = 1..(Len(s) - 1)
      /\ \A k \in 1..(Len(s) - 1) : Tail(s)[k] = s[k + 1]
  OBVIOUS
<1> SUFFICES ASSUME NEW x \in Range(s) PROVE x \in {Head(s)} \cup Range(Tail(s))
  OBVIOUS
<1>2. PICK k \in 1..Len(s) : x = s[k]
  BY <1>1 DEF Range
<1>3. CASE k = 1
  BY <1>1, <1>2, <1>3
<1>4. CASE k # 1
  <2>1. k - 1 \in 1..(Len(s) - 1) /\ (k - 1) + 1 = k
    BY <1>1, <1>4
  <2>2. Tail(s)[k - 1] = x
    BY <1>1, <1>2, <2>1
  <2> QED BY <1>1, <2>1, <2>2 DEF Range
<1> QED BY <1>3, <1>4

LEMMA DeliveryBroadcast ==
  ASSUME Inv, NEW t \in Threads, Broadcast(t)
  PROVE  DeliveryInv'
<1> DEFINE q == queue[t]
           m == msg[t]
<1>0. TypeInv /\ UidsOK /\ AckedOK /\ WindowOK /\ ReadOK /\ NoLossOutsideWindow
  BY DEF Inv, SequenceInv, DeliveryInv
<1>1. m \in Sent /\ m.uid # 0 /\ q \in Queues
  BY <1>0 DEF Broadcast, TypeInv, TypeOK, SendType, ProcType, Procs, Sent, Uids
<1>2. UNCHANGED <<want, prev, replayed, live, overlap, horizon, store, sent>>
  BY DEF Broadcast
<1>3. acked' = acked \cup {<<q, m>>}
  BY DEF Broadcast
<1>4. /\ \A u \in Threads : msg'[u].uid \in {0, msg[u].uid}
      /\ \A c \in Conns : pc'[c] = pc[c] /\ queue'[c] = queue[c]
  BY <1>0, AnswerQuiet DEF Broadcast
<1>5. \A c \in Conns :
        rx'[c] = "open" =>
          /\ rx[c] = "open"
          /\ inbox'[c] = IF c \in Receivers(q, m) THEN Append(inbox[c], m)
                                                  ELSE inbox[c]
  BY DEF Broadcast
<1> HIDE DEF q, m
<1>6. \A u \in Threads : msg'[u].uid # m.uid
  <2>1. msg'[t].uid = 0
    BY <1>0 DEF Broadcast, Answer, NoMsg, TypeInv, TypeOK, SendType
  <2>2. \A u \in Threads \ {t} : msg[u].uid # m.uid
    BY <1>0, <1>1 DEF UidsOK, m
  <2> QED BY <1>1, <1>4, <2>1, <2>2
<1>7. AckedOK'
  <2>1. \A a \in acked : a[2].uid # 0
    BY <1>0 DEF TypeInv, TypeOK, PastType, Sent, Uids
  <2>2. m.uid <= sent
    BY <1>0 DEF UidsOK, m, TypeInv, TypeOK, PastType
  <2>3. ASSUME NEW a \in acked'
        PROVE  a[2].uid <= sent' /\ \A u \in Threads : msg'[u].uid # a[2].uid
    <3>1. CASE a \in acked
      BY <1>0, <1>2, <1>4, <2>1, <3>1 DEF AckedOK
    <3>2. CASE a = <<q, m>>
      BY <1>2, <1>6, <2>2, <3>2
    <3> QED BY <1>3, <3>1, <3>2
  <2> QED BY <2>3 DEF AckedOK
<1>8. WindowOK'
  BY <1>0, <1>2, <1>4, <1>5 DEF WindowOK
<1>9. ReadOK'
  <2> SUFFICES ASSUME NEW c \in Conns, NEW a \in acked', pc'[c] = "s_lock",
                      Matches(c, a[1], a[2])', a[2].uid \notin overlap'[c],
                      Asked(c, a[2])', a[2].seq # U64Max, a[2] \in store'[a[1]]
               PROVE  a[2] \in prev'[c]
    BY DEF ReadOK
  <2>1. Matches(c, a[1], a[2]) /\ Asked(c, a[2])
    BY <1>2, <1>4 DEF Matches, Asked
  <2>2. a # <<q, m>>
    BY <1>0, <1>1, <1>2, <1>4 DEF WindowOK, m
  <2> QED BY <1>0, <1>2, <1>3, <1>4, <2>1, <2>2 DEF ReadOK
<1>10. NoLossOutsideWindow'
  <2> SUFFICES ASSUME NEW c \in Conns, NEW a \in acked', rx'[c] = "open",
                      Matches(c, a[1], a[2])', a[2].uid \notin overlap'[c],
                      \/ a[2].uid > horizon'[c]
                      \/ Asked(c, a[2])' /\ a[2].seq # U64Max /\ a[2] \in store'[a[1]]
               PROVE  a[2] \in Seen(c)'
    BY DEF NoLossOutsideWindow
  <2>1. Matches(c, a[1], a[2]) /\ (Asked(c, a[2])' => Asked(c, a[2]))
    BY <1>2, <1>4 DEF Matches, Asked
  <2>2. inbox[c] \in Seq(Sent)
    BY <1>0 DEF TypeInv, TypeOK, ConnType
  <2>3. Range(Append(inbox[c], m)) = Range(inbox[c]) \cup {m}
    BY <1>1, <2>2, RangeAppend
  <2>4. Seen(c) \subseteq Seen(c)'
    BY <1>2, <1>5, <2>3 DEF Seen, Pending
  <2>5. CASE a \in acked
    <3>1. a[2] \in Seen(c)
      BY <1>0, <1>2, <1>5, <2>1, <2>5 DEF NoLossOutsideWindow
    <3> QED BY <2>4, <3>1
  <2>6. CASE a = <<q, m>>
    <3>1. c \in Receivers(q, m)
      BY <1>5, <2>1, <2>6 DEF Receivers, Matches
    <3> QED BY <1>5, <2>3, <2>6, <3>1 DEF Seen, Pending
  <2> QED BY <1>3, <2>5, <2>6
<1> QED BY <1>7, <1>8, <1>9, <1>10 DEF DeliveryInv

-----------------------------------------------------------------------------
(* The steps of the subscriptions.                                          *)

\* A step of c leaves every other subscription alone.
ElseKept(c) ==
  \A d \in Conns \ {c} :
    /\ pc'[d] = pc[d] /\ queue'[d] = queue[d] /\ rx'[d] = rx[d]
    /\ want'[d] = want[d] /\ prev'[d] = prev[d] /\ inbox'[d] = inbox[d]
    /\ replayed'[d] = replayed[d] /\ live'[d] = live[d]
    /\ overlap'[d] = overlap[d] /\ horizon'[d] = horizon[d]

LEMMA ElseQuiet ==
  ASSUME WindowOK, NEW c \in Conns, ElseKept(c)
  PROVE  \A d \in Conns \ {c} : ConnQuiet(d)
<1> SUFFICES ASSUME NEW d \in Conns \ {c} PROVE ConnQuiet(d)
  OBVIOUS
<1>1. Seen(d)' = Seen(d)
  BY DEF ElseKept, Seen, Pending
<1> QED BY <1>1 DEF ElseKept, ConnQuiet, WindowOK

LEMMA DeliveryStream ==
  ASSUME Inv, NEW c \in Conns, ElseKept(c), ConnQuiet(c),
         UNCHANGED <<acked, sent, msg, store>>
  PROVE  DeliveryInv'
<1>1. \A d \in Conns : ConnQuiet(d)
  BY ElseQuiet DEF Inv, DeliveryInv
<1>2. SendersQuiet
  BY DEF SendersQuiet
<1> QED BY <1>1, <1>2, DeliveryQuiet DEF Inv

\* The steps that take nothing from what c was promised.
LEMMA DeliveryConn ==
  ASSUME Inv, NEW c \in Conns,
         \/ \E q \in Queues, i \in Topics, raw \in SequenceParams,
               kind \in {"ws", "longpoll"} : Subscribe(c, q, i, raw, kind)
         \/ SubscribeOpen(c) \/ StreamEnds(c) \/ ClientGone(c)
  PROVE  DeliveryInv'
<1>0. TypeOK /\ WindowOK /\ \A d \in Conns : d \in Procs
  BY DEF Inv, TypeInv, DeliveryInv, Procs
<1>1. /\ pc \in [Procs -> ThreadPC \cup ConnPC]
      /\ queue \in [Procs -> Queues \cup {NoQueue}]
      /\ want \in [Conns -> Wants]
      /\ rx \in [Conns -> {"none", "open", "lagged", "closed"}]
  BY <1>0 DEF TypeOK, ProcType, ConnType
<1>2. ASSUME NEW q \in Queues, NEW i \in Topics, NEW raw \in SequenceParams,
             NEW kind \in {"ws", "longpoll"}, Subscribe(c, q, i, raw, kind)
      PROVE  DeliveryInv'
  <2>1. UNCHANGED <<acked, sent, msg, store>> /\ ElseKept(c)
    BY <1>0, <1>1, <1>2 DEF Subscribe, Refused, ElseKept
  <2>2. /\ pc[c] = "idle" /\ pc'[c] \in {"s_open", "ended"}
        /\ rx' = rx /\ horizon' = horizon
    BY <1>0, <1>1, <1>2 DEF Subscribe, Refused
  <2>3. ConnQuiet(c)
    BY <1>0, <2>2 DEF ConnQuiet, WindowOK
  <2> QED BY <2>1, <2>3, DeliveryStream
<1>3. CASE SubscribeOpen(c)
  <2>1. UNCHANGED <<acked, sent, msg, store>> /\ ElseKept(c)
    BY <1>0, <1>1, <1>3 DEF SubscribeOpen, ElseKept
  <2>2. /\ pc[c] = "s_open" /\ pc'[c] = "s_read"
        /\ rx' = rx /\ horizon' = horizon
    BY <1>0, <1>1, <1>3 DEF SubscribeOpen
  <2>3. ConnQuiet(c)
    BY <1>0, <2>2 DEF ConnQuiet, WindowOK
  <2> QED BY <2>1, <2>3, DeliveryStream
<1>4. CASE StreamEnds(c) \/ ClientGone(c)
  <2>1. UNCHANGED <<acked, sent, msg, store>> /\ ElseKept(c)
    BY <1>0, <1>1, <1>4 DEF StreamEnds, ClientGone, DropStream, ElseKept
  <2>2. pc'[c] = "ended" /\ rx'[c] = "none" /\ horizon' = horizon
    BY <1>0, <1>1, <1>4 DEF StreamEnds, ClientGone, DropStream
  <2>3. ConnQuiet(c)
    BY <2>2 DEF ConnQuiet
  <2> QED BY <2>1, <2>3, DeliveryStream
<1> QED BY <1>2, <1>3, <1>4

\* The history is read: whatever is missing from it is in flight.
LEMMA DeliveryRead ==
  ASSUME Inv, NEW c \in Conns, SubscribeRead(c)
  PROVE  DeliveryInv'
<1>0. /\ TypeInv /\ TypeOK /\ AckedOK /\ WindowOK /\ ReadOK /\ NoLossOutsideWindow
      /\ \A d \in Conns : d \in Procs
  BY DEF Inv, TypeInv, DeliveryInv, Procs
<1>1. /\ pc \in [Procs -> ThreadPC \cup ConnPC]
      /\ queue \in [Procs -> Queues \cup {NoQueue}]
      /\ queue[c] \in Queues /\ store[queue[c]] \subseteq Sent
      /\ want[c].from \in Froms /\ want[c].id \in Topics
      /\ prev \in [Conns -> SUBSET Sent]
      /\ overlap \in [Conns -> SUBSET Uids]
  BY <1>0 DEF TypeOK, SledType, ProcType, ConnType, SeenType, Wants, SubscribeRead
<1>2. UNCHANGED <<acked, sent, msg, store, queue, want, inbox, rx, replayed, live, horizon>>
  BY DEF SubscribeRead
<1>3. ElseKept(c)
  BY <1>0, <1>1, <1>2 DEF SubscribeRead, Refused, ElseKept
<1>4. \A d \in Conns \ {c} : ConnQuiet(d)
  BY <1>0, <1>3, ElseQuiet
<1>5. pc[c] = "s_read" /\ rx[c] # "open"
  BY <1>0 DEF SubscribeRead, WindowOK
<1>6. CASE pc'[c] = "ended"
  <2>1. ConnQuiet(c)
    BY <1>2, <1>5, <1>6 DEF ConnQuiet
  <2> QED BY <1>2, <1>3, <2>1, DeliveryStream
<1>7. CASE pc'[c] # "ended"
  <2>1. /\ pc'[c] = "s_lock"
        /\ prev'[c] = get_prev_items(store[queue[c]], want[c].from, want[c].id)
        /\ overlap'[c] = InFlight
    BY <1>0, <1>1, <1>7 DEF SubscribeRead, Refused
  <2>2. AckedOK'
    BY <1>0, <1>2 DEF AckedOK
  <2>3. WindowOK'
    <3>1. \A t \in Threads : msg[t].uid # 0 => msg[t].uid \in overlap'[c]
      BY <2>1 DEF InFlight
    <3> QED BY <1>0, <1>2, <1>3, <1>5, <2>1, <3>1 DEF WindowOK, ElseKept
  <2>4. ReadOK'
    <3> SUFFICES ASSUME NEW d \in Conns, NEW a \in acked', pc'[d] = "s_lock",
                        Matches(d, a[1], a[2])', a[2].uid \notin overlap'[d],
                        Asked(d, a[2])', a[2].seq # U64Max, a[2] \in store'[a[1]]
                 PROVE  a[2] \in prev'[d]
      BY DEF ReadOK
    <3>1. Matches(d, a[1], a[2]) /\ Asked(d, a[2])
      BY <1>2 DEF Matches, Asked
    <3>2. CASE d = c
      <4>1. /\ queue[c] = a[1] /\ want[c].id \in {NoId, a[2].id}
            /\ a[2] \in store[queue[c]]
            /\ \/ want[c].from.at = "first"
               \/ want[c].from.at = "id" /\ a[2].seq >= want[c].from.seq
        BY <1>2, <3>1, <3>2 DEF Matches, Asked
      <4> QED BY <1>1, <2>1, <3>2, <4>1, HistoryComplete
    <3>3. CASE d # c
      BY <1>0, <1>2, <1>3, <3>1, <3>3 DEF ReadOK, ElseKept
    <3> QED BY <3>2, <3>3
  <2>5. NoLossOutsideWindow'
    <3> SUFFICES ASSUME NEW d \in Conns, NEW a \in acked', rx'[d] = "open",
                        Matches(d, a[1], a[2])', a[2].uid \notin overlap'[d],
                        \/ a[2].uid > horizon'[d]
                        \/ Asked(d, a[2])' /\ a[2].seq # U64Max /\ a[2] \in store'[a[1]]
                 PROVE  a[2] \in Seen(d)'
      BY DEF NoLossOutsideWindow
    <3>1. d # c
      BY <1>2, <1>5
    <3>2. Matches(d, a[1], a[2]) /\ (Asked(d, a[2])' => Asked(d, a[2]))
      BY <1>2 DEF Matches, Asked
    <3>3. a[2] \in Seen(d)
      BY <1>0, <1>2, <1>3, <3>1, <3>2 DEF NoLossOutsideWindow, ElseKept
    <3> QED BY <1>3, <3>1, <3>3 DEF Seen, Pending, ElseKept
  <2> QED BY <2>2, <2>3, <2>4, <2>5 DEF DeliveryInv
<1> QED BY <1>6, <1>7

\* The channel is joined: what was answered before is in prev or overlap.
LEMMA DeliveryJoin ==
  ASSUME Inv, NEW c \in Conns, SubscribeLock(c)
  PROVE  DeliveryInv'
<1>0. /\ TypeInv /\ TypeOK /\ AckedOK /\ WindowOK /\ ReadOK /\ NoLossOutsideWindow
      /\ \A d \in Conns : d \in Procs
  BY DEF Inv, TypeInv, DeliveryInv, Procs
<1>1. /\ pc \in [Procs -> ThreadPC \cup ConnPC]
      /\ rx \in [Conns -> {"none", "open", "lagged", "closed"}]
      /\ horizon \in [Conns -> 0..MaxSends]
      /\ sent \in Nat
      /\ \A a \in acked : a[2].uid \in Nat
  BY <1>0, QueueAssumption
  DEF TypeOK, ProcType, ConnType, SeenType, PastType, Sent, Uids
<1>2. UNCHANGED <<acked, sent, msg, store, queue, want, prev, inbox, replayed, live, overlap>>
  BY DEF SubscribeLock
<1>3. ElseKept(c)
  BY <1>0, <1>1, <1>2 DEF SubscribeLock, ElseKept
<1>4. /\ pc[c] = "s_lock" /\ pc'[c] = "streaming"
      /\ rx'[c] = "open" /\ horizon'[c] = sent
  BY <1>0, <1>1 DEF SubscribeLock
<1>5. AckedOK'
  BY <1>0, <1>2 DEF AckedOK
<1>6. WindowOK'
  BY <1>0, <1>1, <1>2, <1>3, <1>4 DEF WindowOK, ElseKept
<1>7. ReadOK'
  <2> SUFFICES ASSUME NEW d \in Conns, NEW a \in acked', pc'[d] = "s_lock",
                      Matches(d, a[1], a[2])', a[2].uid \notin overlap'[d],
                      Asked(d, a[2])', a[2].seq # U64Max, a[2] \in store'[a[1]]
               PROVE  a[2] \in prev'[d]
    BY DEF ReadOK
  <2>1. Matches(d, a[1], a[2]) /\ Asked(d, a[2]) /\ d # c
    BY <1>2, <1>4 DEF Matches, Asked
  <2> QED BY <1>0, <1>2, <1>3, <2>1 DEF ReadOK, ElseKept
<1>8. NoLossOutsideWindow'
  <2> SUFFICES ASSUME NEW d \in Conns, NEW a \in acked', rx'[d] = "open",
                      Matches(d, a[1], a[2])', a[2].uid \notin overlap'[d],
                      \/ a[2].uid > horizon'[d]
                      \/ Asked(d, a[2])' /\ a[2].seq # U64Max /\ a[2] \in store'[a[1]]
               PROVE  a[2] \in Seen(d)'
    BY DEF NoLossOutsideWindow
  <2>1. Matches(d, a[1], a[2]) /\ (Asked(d, a[2])' => Asked(d, a[2]))
    BY <1>2 DEF Matches, Asked
  <2>2. Seen(d)' = Seen(d)
    BY <1>2 DEF Seen, Pending
  <2>3. CASE d = c
    <3>1. ~(a[2].uid > horizon'[c])
      BY <1>0, <1>1, <1>2, <1>4 DEF AckedOK
    <3>2. a[2] \in prev[c]
      BY <1>0, <1>2, <1>4, <2>1, <2>3, <3>1 DEF ReadOK
    <3> QED BY <2>2, <2>3, <3>2 DEF Seen
  <2>4. CASE d # c
    BY <1>0, <1>2, <1>3, <2>1, <2>2, <2>4 DEF NoLossOutsideWindow, ElseKept
  <2> QED BY <2>3, <2>4
<1> QED BY <1>5, <1>6, <1>7, <1>8 DEF DeliveryInv

\* Handing out a message ends the stream or leaves it as it is.
LEMMA HandOutKeeps ==
  ASSUME TypeOK, NEW c \in Conns, pc[c] = "streaming", HandOut(c)
  PROVE  /\ \/ pc'[c] = pc[c] /\ rx'[c] = rx[c]
            \/ pc'[c] = "ended" /\ rx'[c] = "none"
         /\ \A d \in Conns \ {c} : pc'[d] = pc[d] /\ rx'[d] = rx[d]
BY DEF TypeOK, ProcType, ConnType, Procs, HandOut, LongpollTakes, ConnectionHandles,
       DropStream

LEMMA DeliveryYieldPrev ==
  ASSUME Inv, NEW c \in Conns, YieldPrev(c)
  PROVE  DeliveryInv'
<1>0. TypeOK /\ WindowOK /\ HandOut(c) /\ pc[c] = "streaming"
  BY DEF Inv, TypeInv, DeliveryInv, YieldPrev
<1>1. UNCHANGED <<acked, sent, msg, store, queue, want, inbox, live, overlap, horizon>>
  BY DEF YieldPrev
<1>2. PICK m \in prev[c] : /\ prev' = [prev EXCEPT ![c] = @ \ {m}]
                           /\ replayed' = [replayed EXCEPT ![c] = @ \cup {m}]
  BY DEF YieldPrev
<1>3. prev \in [Conns -> SUBSET Sent] /\ replayed \in [Conns -> SUBSET Sent]
  BY <1>0 DEF TypeOK, ConnType, SeenType
<1>4. Seen(c) \subseteq Seen(c)'
  BY <1>1, <1>2, <1>3 DEF Seen, Pending
<1>5. ElseKept(c)
  BY <1>0, <1>1, <1>2, <1>3, HandOutKeeps DEF ElseKept
<1>6. ConnQuiet(c)
  BY <1>0, <1>1, <1>4, HandOutKeeps DEF ConnQuiet, WindowOK
<1> QED BY <1>1, <1>5, <1>6, DeliveryStream

LEMMA DeliveryYieldLive ==
  ASSUME Inv, NEW c \in Conns, YieldLive(c)
  PROVE  DeliveryInv'
<1>0. TypeOK /\ WindowOK /\ HandOut(c) /\ pc[c] = "streaming"
  BY DEF Inv, TypeInv, DeliveryInv, YieldLive
<1>1. UNCHANGED <<acked, sent, msg, store, queue, want, prev, replayed, overlap, horizon>>
  BY DEF YieldLive
<1>2. /\ inbox \in [Conns -> Seq(Sent)] /\ live \in [Conns -> Seq(Sent)]
      /\ inbox[c] # <<>>
  BY <1>0 DEF TypeOK, ConnType, SeenType, YieldLive
<1>3. /\ inbox' = [inbox EXCEPT ![c] = Tail(@)]
      /\ live' = [live EXCEPT ![c] = Append(@, Head(inbox[c]))]
  BY DEF YieldLive
<1>4. Seen(c) \subseteq Seen(c)'
  <2>1. Head(inbox[c]) \in Sent /\ live[c] \in Seq(Sent) /\ inbox[c] \in Seq(Sent)
    BY <1>2
  <2>2. Range(live'[c]) = Range(live[c]) \cup {Head(inbox[c])}
    BY <1>2, <1>3, <2>1, RangeAppend
  <2>3. Range(inbox[c]) \subseteq {Head(inbox[c])} \cup Range(inbox'[c])
    BY <1>2, <1>3, <2>1, RangeTail
  <2> QED BY <1>1, <2>2, <2>3 DEF Seen, Pending
<1>5. ElseKept(c)
  BY <1>0, <1>1, <1>2, <1>3, HandOutKeeps DEF ElseKept
<1>6. ConnQuiet(c)
  BY <1>0, <1>1, <1>4, HandOutKeeps DEF ConnQuiet, WindowOK
<1> QED BY <1>1, <1>5, <1>6, DeliveryStream

-----------------------------------------------------------------------------
LEMMA DeliveryNext ==
  ASSUME Inv, [Next]_vars
  PROVE  DeliveryInv'
<1>1. CASE UNCHANGED vars
  <2>1. /\ UNCHANGED <<acked, sent, msg, store, queue, want, prev, inbox, rx, pc,
                       replayed, live, overlap, horizon>>
    BY <1>1 DEF vars
  <2>2. ConnsKept /\ NothingRestored
    BY <2>1 DEF ConnsKept, NothingRestored
  <2> QED BY <2>1, <2>2, DeliveryWorker
<1>2. ASSUME NEW t \in Threads, Work(t) PROVE DeliveryInv'
  BY <1>2, DeliveryWork, DeliveryBroadcast DEF Work
<1>3. ASSUME NEW t \in Threads, Request(t) PROVE DeliveryInv'
  BY <1>3, DeliverySend, DeliveryAdmin DEF Request
<1>4. ASSUME NEW c \in Conns, Stream(c) PROVE DeliveryInv'
  BY <1>4, DeliveryConn, DeliveryRead, DeliveryJoin, DeliveryYieldPrev,
     DeliveryYieldLive DEF Stream
<1>5. ASSUME NEW c \in Conns, Client(c) PROVE DeliveryInv'
  BY <1>5, DeliveryConn DEF Client
<1> QED BY <1>1, <1>2, <1>3, <1>4, <1>5 DEF Next

\* For any number of workers, subscriptions, queues and ids, and any channel
\* capacity: while its Receiver is open, a stream of subscribe_queue_by_id
\* or subscribe_queue has handed out or holds every answered message it
\* covers that was sent after it joined the channel, and every stored one
\* its `sequence` asks for, except those that were in flight between its
\* history read and its joining.
THEOREM NothingLostOutsideWindow == Spec => []NoLossOutsideWindow
<1>1. Init => Inv
  <2>1. Init => SequenceInv
    BY DEF Init, SequenceInv, UidsOK, SequencesDense, NoMsg
  <2>2. Init => DeliveryInv
    BY DEF Init, DeliveryInv, AckedOK, WindowOK, ReadOK, NoLossOutsideWindow, Procs, NoMsg
  <2> QED BY <2>1, <2>2, TypeInit DEF Inv
<1>2. Inv /\ [Next]_vars => Inv'
  BY TypeNext, SequenceNext, DeliveryNext DEF Inv
<1>3. Inv => NoLossOutsideWindow
  BY DEF Inv, DeliveryInv
<1> QED BY <1>1, <1>2, <1>3, PTL DEF Spec

-----------------------------------------------------------------------------
(* Order and duplicates.  The heart of the invariant is TakenOK: a message  *)
(* enters the channels in the step that answers its send, so no request     *)
(* answered earlier can come after it, and no channel holds it yet.         *)

\* What c has received live and has still to read.
Taken(c) == live[c] \o inbox[c]

\* A subscription has nothing before it has read the history.
EarlyOK ==
  \A c \in Conns : pc[c] \in {"idle", "s_open", "s_read"} =>
    prev[c] = {} /\ replayed[c] = {} /\ live[c] = <<>> /\ inbox[c] = <<>>

\* Only answered messages are in the channels, each once and in real-time
\* order.
InOrder(s) ==
  \A x, y \in DOMAIN s : x < y => s[y] # s[x] /\ s[y].uid \notin before[s[x].uid]

TakenOK ==
  \A c \in Conns :
    /\ \A x \in DOMAIN Taken(c) : \E a \in acked : a[2] = Taken(c)[x]
    /\ InOrder(Taken(c))

\* Nothing stored or read is of a request to come, and what was read while
\* its send was in flight is in the window.
StoredOK == \A q \in Queues : \A m \in store[q] : m.uid <= sent

ReplayOK ==
  \A c \in Conns : \A m \in prev[c] \cup replayed[c] :
    /\ m.uid <= sent
    /\ \A t \in Threads : msg[t].uid = m.uid => m.uid \in overlap[c]
    /\ \A x \in DOMAIN Taken(c) : Taken(c)[x] = m => m.uid \in overlap[c]

\* A request comes after answered ones only.
BeforeOK == \A u \in Uids : \A v \in before[u] : \E a \in acked : a[2].uid = v

\* What was generated is what the send carries, and grows in real time.
Carries(g, q, m) == g.key = CounterKey[<<q, m.id>>] /\ g.seq = m.seq

GeneratedOK ==
  /\ \A g \in generated, a \in acked : g.uid = a[2].uid => Carries(g, a[1], a[2])
  /\ \A g \in generated, t \in Threads : g.uid = msg[t].uid => Carries(g, queue[t], msg[t])
  /\ \A g, h \in generated : g.key = h.key /\ g.uid \in before[h.uid] => g.seq < h.seq

\* A worker between two requests carries none.
IdleOK == \A t \in Threads : pc[t] = "idle" => msg[t].uid = 0

OrderInv ==
  /\ IdleOK /\ EarlyOK /\ TakenOK /\ StoredOK /\ ReplayOK /\ BeforeOK /\ GeneratedOK

FullInv == Inv /\ OrderInv

-----------------------------------------------------------------------------
(* Sequences.                                                               *)

\* A message that moves from the channel to the reader stays where it was,
\* and one that enters the channel comes last.
LEMMA JoinedSeq ==
  ASSUME NEW S, NEW r \in Seq(S), NEW b \in Seq(S)
  PROVE  /\ r \o b \in Seq(S)
         /\ b # <<>> => Append(r, Head(b)) \o Tail(b) = r \o b
         /\ \A f \in S : r \o Append(b, f) = Append(r \o b, f)
         /\ r \o <<>> = r
<1>1. r \o b \in Seq(S) /\ r \o <<>> = r
  OBVIOUS
<1>2. ASSUME b # <<>> PROVE Append(r, Head(b)) \o Tail(b) = r \o b
  <2> DEFINE x == Append(r, Head(b)) \o Tail(b)
             y == r \o b
  <2>1. /\ Tail(b) \in Seq(S) /\ Len(Tail(b)) = Len(b) - 1
        /\ Head(b) \in S /\ Head(b) = b[1]
        /\ \A i \in 1..(Len(b) - 1) : Tail(b)[i] = b[i + 1]
    BY <1>2
  <2>2. Append(r, Head(b)) \in Seq(S) /\ Len(Append(r, Head(b))) = Len(r) + 1
    BY <2>1
  <2>3. /\ x \in Seq(S) /\ Len(x) = Len(r) + 1 + (Len(b) - 1)
        /\ y \in Seq(S) /\ Len(y) = Len(r) + Len(b)
    BY <2>1, <2>2
  <2>4. ASSUME NEW i \in 1..(Len(r) + Len(b)) PROVE x[i] = y[i]
    <3>1. CASE i <= Len(r)
      BY <2>1, <2>2, <3>1
    <3>2. CASE i = Len(r) + 1
      <4>1. i \in 1..Len(Append(r, Head(b)))
        BY <2>2, <3>2
      <4>2. x[i] = Append(r, Head(b))[i]
        BY <2>1, <2>2, <4>1
      <4>3. Append(r, Head(b))[i] = Head(b)
        BY <2>1, <3>2
      <4>4. y[i] = b[1]
        BY <1>2, <3>2
      <4> QED BY <2>1, <4>2, <4>3, <4>4
    <3>3. CASE i > Len(r) + 1
      <4>1. x[i] = Tail(b)[i - (Len(r) + 1)] /\ y[i] = b[i - Len(r)]
        BY <2>1, <2>2, <3>3
      <4>2. i - (Len(r) + 1) \in 1..(Len(b) - 1) /\ (i - (Len(r) + 1)) + 1 = i - Len(r)
        BY <3>3
      <4> QED BY <2>1, <4>1, <4>2
    <3>4. i <= Len(r) \/ i = Len(r) + 1 \/ i > Len(r) + 1
      OBVIOUS
    <3> QED BY <3>1, <3>2, <3>3, <3>4
  <2>5. Len(x) = Len(y)
    BY <2>3
  <2> HIDE DEF x, y
  <2>6. x = y
    BY <2>3, <2>4, <2>5
  <2> QED BY <2>6 DEF x, y
<1>3. ASSUME NEW f \in S PROVE r \o Append(b, f) = Append(r \o b, f)
  <2> DEFINE x == r \o Append(b, f)
             y == Append(r \o b, f)
  <2>1. Append(b, f) \in Seq(S) /\ Len(Append(b, f)) = Len(b) + 1
    OBVIOUS
  <2>2. /\ x \in Seq(S) /\ Len(x) = Len(r) + Len(b) + 1
        /\ y \in Seq(S) /\ Len(y) = Len(r) + Len(b) + 1
    BY <2>1
  <2>3. ASSUME NEW i \in 1..(Len(r) + Len(b) + 1) PROVE x[i] = y[i]
    <3>1. CASE i <= Len(r)
      BY <2>1, <3>1
    <3>2. CASE i > Len(r) /\ i <= Len(r) + Len(b)
      BY <2>1, <3>2
    <3>3. CASE i = Len(r) + Len(b) + 1
      BY <2>1, <3>3
    <3> QED BY <3>1, <3>2, <3>3
  <2> HIDE DEF x, y
  <2>4. x = y
    BY <2>2, <2>3
  <2> QED BY <2>4 DEF x, y
<1> QED BY <1>1, <1>2, <1>3

\* What c was given is a sequence of messages.
LEMMA TakenType ==
  ASSUME TypeOK, NEW c \in Conns
  PROVE  /\ live[c] \in Seq(Sent) /\ inbox[c] \in Seq(Sent) /\ Taken(c) \in Seq(Sent)
         /\ Len(Taken(c)) \in Nat /\ DOMAIN Taken(c) = 1..Len(Taken(c))
         /\ \A x \in DOMAIN Taken(c) : Taken(c)[x] \in Sent
<1>1. live[c] \in Seq(Sent) /\ inbox[c] \in Seq(Sent)
  BY DEF TypeOK, ConnType, SeenType
<1>2. Taken(c) \in Seq(Sent)
  BY <1>1, JoinedSeq DEF Taken
<1> QED BY <1>1, <1>2

-----------------------------------------------------------------------------
(* The steps.                                                               *)

\* A step that accepts, numbers and answers no send and gives no
\* subscription anything it did not hold.
OrderQuietSends ==
  /\ UNCHANGED <<acked, before, sent, generated>>
  /\ \A t \in Threads :
       msg'[t].uid = 0 \/ (msg'[t] = msg[t] /\ queue'[t] = queue[t])
  /\ IdleOK' /\ StoredOK'

OrderQuietConn(c) ==
  /\ Taken(c)' = Taken(c)
  /\ prev'[c] \cup replayed'[c] \subseteq prev[c] \cup replayed[c]
  /\ overlap'[c] = overlap[c]
  /\ pc'[c] \in {"idle", "s_open", "s_read"} =>
       /\ prev'[c] = {} /\ replayed'[c] = {}
       /\ live'[c] = <<>> /\ inbox'[c] = <<>>

LEMMA OrderQuiet ==
  ASSUME FullInv, OrderQuietSends, \A c \in Conns : OrderQuietConn(c)
  PROVE  OrderInv'
<1>0. OrderInv /\ TypeOK
  BY DEF FullInv, Inv, TypeInv
<1>1. EarlyOK'
  BY DEF EarlyOK, OrderQuietConn
<1>2. TakenOK'
  BY <1>0 DEF OrderInv, TakenOK, InOrder, OrderQuietConn, OrderQuietSends
<1>3. ReplayOK'
  <2>0. SUFFICES ASSUME NEW c \in Conns, NEW m \in prev'[c] \cup replayed'[c]
                 PROVE  /\ m.uid <= sent'
                        /\ \A t \in Threads : msg'[t].uid = m.uid => m.uid \in overlap'[c]
                        /\ \A x \in DOMAIN Taken(c)' : Taken(c)'[x] = m => m.uid \in overlap'[c]
    BY DEF ReplayOK
  <2>1. m \in prev[c] \cup replayed[c] /\ OrderQuietConn(c)
    BY DEF OrderQuietConn
  <2>2. m.uid # 0
    BY <1>0, <2>1 DEF TypeOK, ConnType, SeenType, Sent, Uids
  <2> QED BY <1>0, <2>1, <2>2 DEF OrderInv, ReplayOK, OrderQuietConn, OrderQuietSends
<1>4. BeforeOK'
  BY <1>0 DEF OrderInv, BeforeOK, OrderQuietSends
<1>5. GeneratedOK'
  <2>1. \A g \in generated : g.uid # 0
    BY <1>0 DEF TypeOK, PastType, Uids
  <2> QED BY <1>0, <2>1 DEF OrderInv, GeneratedOK, Carries, OrderQuietSends
<1> QED BY <1>1, <1>2, <1>3, <1>4, <1>5 DEF OrderInv, OrderQuietSends

\* A worker's step that leaves the subscriptions alone.
LEMMA OrderWorker ==
  ASSUME FullInv, OrderQuietSends, ConnsKept
  PROVE  OrderInv'
<1>1. ASSUME NEW c \in Conns PROVE OrderQuietConn(c)
  BY DEF FullInv, OrderInv, EarlyOK, ConnsKept, OrderQuietConn, Taken
<1> QED BY <1>1, OrderQuiet

\* Trees that lose messages stay within the past.
LEMMA StoredLess ==
  ASSUME FullInv, UNCHANGED sent, \A q \in Queues : store'[q] \subseteq store[q]
  PROVE  StoredOK'
BY DEF FullInv, OrderInv, StoredOK

\* A worker whose step leaves it busy, or answers its request.
LEMMA IdleBusy ==
  ASSUME FullInv, NEW t \in Threads,
         \/ pc'[t] # "idle" /\ \A u \in Threads \ {t} : pc'[u] = pc[u] /\ msg'[u] = msg[u]
         \/ Answer(t)
         \/ UNCHANGED <<pc, msg>>
  PROVE  IdleOK'
<1>1. NoMsg.uid = 0
  BY DEF NoMsg
<1>2. pc \in [Procs -> ThreadPC \cup ConnPC] /\ msg \in [Threads -> Draft]
  BY DEF FullInv, Inv, TypeInv, TypeOK, ProcType, SendType
<1> QED BY <1>1, <1>2 DEF FullInv, OrderInv, IdleOK, Answer, Procs

LEMMA OrderWork ==
  ASSUME FullInv, NEW t \in Threads,
         \/ OpenTree(t) \/ Insert(t) \/ ScanSurplus(t)
         \/ Trim(t) \/ SendFails(t) \/ DeleteScan(t) \/ DeleteApply(t) \/ DropTree(t)
  PROVE  OrderInv'
<1>0. /\ Inv /\ TypeInv /\ TypeOK /\ StoredOK
      /\ \A c \in Conns : c # t /\ t \in Procs /\ c \in Procs
  BY QueueAssumption DEF Procs, FullInv, Inv, TypeInv, OrderInv
<1>1. /\ store \in [Queues -> SUBSET Sent]
      /\ pc \in [Procs -> ThreadPC \cup ConnPC] /\ msg \in [Threads -> Draft]
      /\ queue \in [Procs -> Queues \cup {NoQueue}]
  BY <1>0 DEF TypeOK, SledType, ProcType, SendType
<1>2. CASE OpenTree(t) \/ ScanSurplus(t) \/ DeleteScan(t)
  <2>1. /\ ConnsKept
        /\ UNCHANGED <<acked, before, sent, generated, msg, queue, store>>
    BY <1>0, <1>1, <1>2 DEF OpenTree, ScanSurplus, DeleteScan, ConnsKept
  <2>2. IdleOK'
    BY <1>0, <1>1, <1>2, <2>1, IdleBusy DEF OpenTree, ScanSurplus, DeleteScan, Procs
  <2>3. OrderQuietSends
    BY <2>1, <2>2, StoredLess DEF OrderQuietSends
  <2> QED BY <2>1, <2>3, OrderWorker
<1>3. CASE Trim(t)
  <2>1. ConnsKept /\ UNCHANGED <<acked, before, sent, generated, msg, queue>>
    BY <1>0, <1>1, <1>3 DEF Trim, ConnsKept
  <2>2. \A q \in Queues : store'[q] \subseteq store[q]
    BY <1>1, <1>3 DEF Trim, RemoveKeys
  <2>3. IdleOK'
    BY <1>0, <1>1, <1>3, <2>1, IdleBusy DEF Trim, Procs
  <2>4. OrderQuietSends
    BY <2>1, <2>2, <2>3, StoredLess DEF OrderQuietSends
  <2> QED BY <2>1, <2>4, OrderWorker
<1>4. CASE Insert(t)
  <2>1. ConnsKept /\ UNCHANGED <<acked, before, sent, generated, msg, queue>>
    BY <1>0, <1>1, <1>4 DEF Insert, ConnsKept
  <2>2. \A q \in Queues : store'[q] \subseteq store[q] \cup {msg[t]}
    BY <1>1, <1>4 DEF Insert, InsertInto
  <2>3. msg[t].uid <= sent
    BY <1>0 DEF Inv, SequenceInv, UidsOK, TypeOK, PastType
  <2>4. StoredOK'
    BY <1>0, <2>1, <2>2, <2>3 DEF StoredOK
  <2>5. IdleOK'
    BY <1>0, <1>1, <1>4, <2>1, IdleBusy DEF Insert, Procs
  <2>6. OrderQuietSends
    BY <2>1, <2>4, <2>5 DEF OrderQuietSends
  <2> QED BY <2>1, <2>6, OrderWorker
<1>5. CASE SendFails(t) \/ DeleteApply(t) \/ DropTree(t)
  <2>1. Answer(t) /\ UNCHANGED <<acked, before, sent, generated>>
    BY <1>5 DEF SendFails, DeleteApply, DropTree
  <2>2. UNCHANGED <<want, prev, inbox, rx, replayed, live, overlap, horizon>>
    BY <1>5 DEF SendFails, DeleteApply, DropTree
  <2>3. ConnsKept
    BY <1>0, <2>1, <2>2, AnswerQuiet DEF ConnsKept
  <2>4. \A q \in Queues : store'[q] \subseteq store[q]
    BY <1>1, <1>5 DEF SendFails, DeleteApply, DropTree, RemoveKeys
  <2>5. \A u \in Threads : msg'[u].uid = 0 \/ (msg'[u] = msg[u] /\ queue'[u] = queue[u])
    <3>1. NoMsg.uid = 0
      BY DEF NoMsg
    <3> QED BY <1>0, <1>1, <2>1, <3>1 DEF Answer, Procs
  <2>6. OrderQuietSends
    BY <2>1, <2>4, <2>5, StoredLess, IdleBusy DEF OrderQuietSends
  <2> QED BY <2>3, <2>6, OrderWorker
<1> QED BY <1>2, <1>3, <1>4, <1>5

LEMMA OrderAdmin ==
  ASSUME FullInv, NEW t \in Threads, NEW q \in Queues,
         CreateQueue(t, q) \/ CloseQueue(t, q) \/ \E i \in Ids : DeleteQueue(t, q, i)
  PROVE  OrderInv'
<1>0. /\ TypeOK /\ UidsOK
      /\ \A c \in Conns : c # t /\ t \in Procs /\ c \in Procs
  BY QueueAssumption DEF Procs, FullInv, Inv, SequenceInv, TypeInv
<1>1. /\ pc \in [Procs -> ThreadPC \cup ConnPC]
      /\ queue \in [Procs -> Queues \cup {NoQueue}]
      /\ msg \in [Threads -> Draft]
  BY <1>0 DEF TypeOK, ProcType, SendType
<1>2. CASE CreateQueue(t, q)
  <2>1. ConnsKept /\ UNCHANGED <<acked, before, sent, generated, msg, queue, store>>
    BY <1>0, <1>1, <1>2 DEF CreateQueue, ConnsKept
  <2>2. OrderQuietSends
    BY <1>2, <2>1, StoredLess, IdleBusy DEF OrderQuietSends, CreateQueue
  <2> QED BY <2>1, <2>2, OrderWorker
<1>3. CASE CloseQueue(t, q)
  <2>1. \A c \in Conns : /\ pc'[c] = pc[c] /\ queue'[c] = queue[c]
                         /\ rx'[c] \in {rx[c], "closed"}
    BY <1>0, <1>1, <1>3 DEF CloseQueue, CloseReceivers
  <2>2. ConnsKept /\ UNCHANGED <<acked, before, sent, generated, store, msg>>
    BY <1>3, <2>1 DEF CloseQueue, ConnsKept
  <2>3. \A u \in Threads : u # t => queue'[u] = queue[u]
    BY <1>0, <1>1, <1>3 DEF CloseQueue, Procs
  <2>4. pc[t] = "idle" /\ msg[t].uid = 0
    BY <1>3 DEF CloseQueue, FullInv, OrderInv, IdleOK
  <2>5. IdleOK'
    BY <1>0, <1>1, <1>3, <2>2 DEF CloseQueue, FullInv, OrderInv, IdleOK, Procs
  <2>6. OrderQuietSends
    BY <2>2, <2>3, <2>4, <2>5, StoredLess DEF OrderQuietSends
  <2> QED BY <2>2, <2>6, OrderWorker
<1>4. ASSUME NEW i \in Ids, DeleteQueue(t, q, i)
      PROVE  OrderInv'
  <2>1. \A c \in Conns : /\ pc'[c] = pc[c] /\ queue'[c] = queue[c]
                         /\ rx'[c] \in {rx[c], "closed"}
    BY <1>0, <1>1, <1>4 DEF DeleteQueue, CloseReceivers
  <2>2. ConnsKept /\ UNCHANGED <<acked, before, sent, generated, store>>
    BY <1>4, <2>1 DEF DeleteQueue, ConnsKept
  <2>3. [NoMsg EXCEPT !.id = i].uid = 0
    BY DEF NoMsg
  <2>4. \A u \in Threads : msg'[u].uid = 0 \/ (msg'[u] = msg[u] /\ queue'[u] = queue[u])
    BY <1>0, <1>1, <1>4, <2>3 DEF DeleteQueue, Procs
  <2>5. IdleOK'
    BY <1>0, <1>1, <1>4, <2>3, IdleBusy DEF DeleteQueue, Procs
  <2>6. OrderQuietSends
    BY <2>2, <2>4, <2>5, StoredLess DEF OrderQuietSends
  <2> QED BY <2>2, <2>6, OrderWorker
<1> QED BY <1>2, <1>3, <1>4

\* The steps of subscriptions touch no send.
LEMMA OrderConnSends ==
  ASSUME FullInv, NEW c \in Conns, Stream(c) \/ Client(c)
  PROVE  /\ OrderQuietSends
         /\ UNCHANGED <<acked, before, sent, generated, msg, store>>
         /\ \A t \in Threads : pc'[t] = pc[t] /\ queue'[t] = queue[t]
<1>1. UNCHANGED <<acked, before, sent, generated, msg, store>>
  BY DEF Stream, Client, Subscribe, SubscribeOpen, SubscribeRead, SubscribeLock,
         YieldPrev, YieldLive, StreamEnds, ClientGone
<1>2. \A t \in Threads : pc'[t] = pc[t]
  BY QueueAssumption
  DEF Stream, Client, Subscribe, SubscribeOpen, SubscribeRead, SubscribeLock,
      Refused, YieldPrev, YieldLive, StreamEnds, ClientGone, HandOut, LongpollTakes,
      ConnectionHandles, DropStream, FullInv, Inv, TypeInv, TypeOK, ProcType, Procs
<1>3. \A t \in Threads : queue'[t] = queue[t]
  BY QueueAssumption
  DEF Stream, Client, Subscribe, SubscribeOpen, SubscribeRead, SubscribeLock,
      YieldPrev, YieldLive, StreamEnds, ClientGone, FullInv, Inv, TypeInv, TypeOK,
      ProcType, Procs
<1>4. StoredOK' /\ IdleOK'
  BY <1>1, <1>2 DEF FullInv, OrderInv, StoredOK, IdleOK
<1> QED BY <1>1, <1>2, <1>3, <1>4 DEF OrderQuietSends

LEMMA OrderElse ==
  ASSUME FullInv, NEW c \in Conns, ElseKept(c)
  PROVE  \A d \in Conns \ {c} : OrderQuietConn(d)
BY DEF FullInv, OrderInv, EarlyOK, ElseKept, OrderQuietConn, Taken

\* The steps that give c nothing new.
LEMMA OrderConn ==
  ASSUME FullInv, NEW c \in Conns,
         \/ \E q \in Queues, i \in Topics, raw \in SequenceParams,
               kind \in {"ws", "longpoll"} : Subscribe(c, q, i, raw, kind)
         \/ SubscribeOpen(c) \/ SubscribeLock(c) \/ StreamEnds(c) \/ ClientGone(c)
  PROVE  OrderInv'
<1>0. TypeOK /\ EarlyOK /\ c \in Procs
  BY DEF FullInv, Inv, TypeInv, OrderInv, Procs
<1>1. /\ pc \in [Procs -> ThreadPC \cup ConnPC]
      /\ queue \in [Procs -> Queues \cup {NoQueue}]
      /\ want \in [Conns -> Wants]
      /\ rx \in [Conns -> {"none", "open", "lagged", "closed"}]
      /\ horizon \in [Conns -> 0..MaxSends]
  BY <1>0 DEF TypeOK, ProcType, ConnType, SeenType
<1>2. UNCHANGED <<prev, inbox, replayed, live, overlap>>
  BY DEF Subscribe, SubscribeOpen, SubscribeLock, StreamEnds, ClientGone
<1>3. ElseKept(c)
  BY <1>1, <1>2
  DEF Subscribe, SubscribeOpen, SubscribeLock, StreamEnds, ClientGone, Refused,
      DropStream, ElseKept, Procs
<1>4. pc'[c] \in {"idle", "s_open", "s_read"} => pc[c] \in {"idle", "s_open", "s_read"}
  BY <1>0, <1>1
  DEF Subscribe, SubscribeOpen, SubscribeLock, StreamEnds, ClientGone, Refused, DropStream
<1>5. OrderQuietConn(c)
  BY <1>0, <1>2, <1>4 DEF EarlyOK, OrderQuietConn, Taken
<1>6. OrderQuietSends
  BY OrderConnSends DEF Stream, Client
<1> QED BY <1>3, <1>5, <1>6, OrderElse, OrderQuiet

\* A message of the history or of the channel is handed out.
LEMMA OrderYield ==
  ASSUME FullInv, NEW c \in Conns, YieldPrev(c) \/ YieldLive(c)
  PROVE  OrderInv'
<1>0. /\ TypeOK /\ EarlyOK /\ HandOut(c) /\ pc[c] = "streaming"
      /\ prev \in [Conns -> SUBSET Sent] /\ replayed \in [Conns -> SUBSET Sent]
      /\ live \in [Conns -> Seq(Sent)] /\ inbox \in [Conns -> Seq(Sent)]
  BY DEF FullInv, Inv, TypeInv, TypeOK, ConnType, SeenType, OrderInv, YieldPrev, YieldLive
<1>1. UNCHANGED <<queue, want, overlap, horizon>>
  BY DEF YieldPrev, YieldLive
<1>2. OrderQuietSends
  BY OrderConnSends DEF Stream
<1>3. pc'[c] \in {"streaming", "ended"}
  BY <1>0, HandOutKeeps
<1>4. CASE YieldPrev(c)
  <2>1. PICK m \in prev[c] : /\ prev' = [prev EXCEPT ![c] = @ \ {m}]
                             /\ replayed' = [replayed EXCEPT ![c] = @ \cup {m}]
    BY <1>4 DEF YieldPrev
  <2>2. UNCHANGED <<inbox, live>>
    BY <1>4 DEF YieldPrev
  <2>3. ElseKept(c)
    BY <1>0, <1>1, <2>1, <2>2, HandOutKeeps DEF ElseKept
  <2>4. prev'[c] \cup replayed'[c] \subseteq prev[c] \cup replayed[c]
    BY <1>0, <2>1
  <2>5. OrderQuietConn(c)
    BY <1>1, <1>3, <2>2, <2>4 DEF OrderQuietConn, Taken
  <2> QED BY <1>2, <2>3, <2>5, OrderElse, OrderQuiet
<1>5. CASE YieldLive(c)
  <2>1. /\ inbox' = [inbox EXCEPT ![c] = Tail(@)] /\ inbox[c] # <<>>
        /\ live' = [live EXCEPT ![c] = Append(@, Head(inbox[c]))]
        /\ UNCHANGED <<prev, replayed>>
    BY <1>5 DEF YieldLive
  <2>2. ElseKept(c)
    BY <1>0, <1>1, <2>1, HandOutKeeps DEF ElseKept
  <2>3. live[c] \in Seq(Sent) /\ inbox[c] \in Seq(Sent)
    BY <1>0
  <2>4. Append(live[c], Head(inbox[c])) \o Tail(inbox[c]) = live[c] \o inbox[c]
    <3> DEFINE r == live[c]
               b == inbox[c]
    <3>1. r \in Seq(Sent) /\ b \in Seq(Sent) /\ b # <<>>
      BY <2>1, <2>3
    <3> HIDE DEF r, b
    <3>2. Append(r, Head(b)) \o Tail(b) = r \o b
      BY <3>1, JoinedSeq
    <3> QED BY <3>2 DEF r, b
  <2>5. live'[c] = Append(live[c], Head(inbox[c])) /\ inbox'[c] = Tail(inbox[c])
    BY <1>0, <2>1
  <2>6. OrderQuietConn(c)
    BY <1>1, <1>3, <2>1, <2>4, <2>5 DEF OrderQuietConn, Taken
  <2> QED BY <1>2, <2>2, <2>6, OrderElse, OrderQuiet
<1> QED BY <1>4, <1>5

\* The history is read: what comes with it and is in flight is in the window.
LEMMA OrderRead ==
  ASSUME FullInv, NEW c \in Conns, SubscribeRead(c)
  PROVE  OrderInv'
<1>0. /\ TypeOK /\ EarlyOK /\ OrderInv /\ c \in Procs
      /\ pc \in [Procs -> ThreadPC \cup ConnPC]
      /\ queue[c] \in Queues /\ want[c].from \in Froms
      /\ prev \in [Conns -> SUBSET Sent] /\ overlap \in [Conns -> SUBSET Uids]
      /\ store \in [Queues -> SUBSET Sent]
  BY DEF FullInv, Inv, TypeInv, TypeOK, SledType, ProcType, ConnType, SeenType, Wants,
         OrderInv, Procs, SubscribeRead
<1>1. UNCHANGED <<queue, want, rx, horizon, inbox, replayed, live>>
  BY DEF SubscribeRead
<1>2. /\ OrderQuietSends
      /\ UNCHANGED <<acked, before, sent, generated, msg, store>>
      /\ \A t \in Threads : pc'[t] = pc[t] /\ queue'[t] = queue[t]
  BY OrderConnSends DEF Stream
<1>3. ElseKept(c)
  BY <1>0, <1>1 DEF SubscribeRead, Refused, ElseKept, Procs
<1>4. /\ replayed[c] = {} /\ prev[c] = {} /\ Taken(c) = <<>> /\ Taken(c)' = <<>>
  BY <1>0, <1>1 DEF EarlyOK, SubscribeRead, Taken
<1>5. CASE pc'[c] = "ended"
  <2>1. UNCHANGED <<prev, overlap>>
    <3>1. pc' # [pc EXCEPT ![c] = "s_lock"]
      BY <1>0, <1>5
    <3> QED BY <3>1 DEF SubscribeRead
  <2>2. OrderQuietConn(c)
    BY <1>1, <1>4, <1>5, <2>1 DEF OrderQuietConn
  <2> QED BY <1>2, <1>3, <2>2, OrderElse, OrderQuiet
<1>6. CASE pc'[c] # "ended"
  <2>1. /\ pc'[c] = "s_lock"
        /\ prev'[c] = get_prev_items(store[queue[c]], want[c].from, want[c].id)
        /\ overlap'[c] = InFlight
    BY <1>0, <1>6 DEF SubscribeRead, Refused
  <2>2. prev'[c] \subseteq store[queue[c]]
    BY <1>0, <2>1, HistoryRead
  <2>3. EarlyOK'
    BY <1>0, <1>3, <2>1 DEF EarlyOK, ElseKept
  <2>4. \A d \in Conns : Taken(d)' = Taken(d)
    BY <1>1 DEF Taken
  <2>5. TakenOK'
    BY <1>0, <1>2, <2>4 DEF OrderInv, TakenOK, InOrder
  <2>6. ReplayOK'
    <3> SUFFICES ASSUME NEW d \in Conns, NEW m \in prev'[d] \cup replayed'[d]
                 PROVE  /\ m.uid <= sent'
                        /\ \A t \in Threads : msg'[t].uid = m.uid => m.uid \in overlap'[d]
                        /\ \A x \in DOMAIN Taken(d)' : Taken(d)'[x] = m => m.uid \in overlap'[d]
      BY DEF ReplayOK
    <3>1. CASE d = c
      <4>1. m \in store[queue[c]] /\ m \in Sent
        BY <1>0, <1>1, <1>4, <2>2, <3>1
      <4>2. m.uid # 0 /\ m.uid <= sent
        BY <1>0, <4>1 DEF OrderInv, StoredOK, Sent, Uids
      <4>3. \A t \in Threads : msg[t].uid = m.uid => m.uid \in InFlight
        BY <4>2 DEF InFlight
      <4>4. DOMAIN Taken(d)' = {}
        BY <1>4, <3>1
      <4> QED BY <1>2, <2>1, <3>1, <4>2, <4>3, <4>4
    <3>2. CASE d # c
      <4>1. /\ prev'[d] = prev[d] /\ replayed'[d] = replayed[d]
            /\ overlap'[d] = overlap[d] /\ Taken(d)' = Taken(d)
        BY <1>3, <2>4, <3>2 DEF ElseKept
      <4> QED BY <1>0, <1>2, <4>1 DEF OrderInv, ReplayOK
    <3> QED BY <3>1, <3>2
  <2>7. BeforeOK'
    BY <1>0, <1>2 DEF OrderInv, BeforeOK
  <2>8. GeneratedOK'
    BY <1>0, <1>2, SMTT(30) DEF OrderInv, GeneratedOK, Carries
  <2> QED BY <1>2, <2>3, <2>5, <2>6, <2>7, <2>8 DEF OrderInv, OrderQuietSends
<1> QED BY <1>5, <1>6

\* A send is accepted: its uid is new, and everything answered comes before.
LEMMA OrderSend ==
  ASSUME FullInv, NEW t \in Threads, NEW q \in Queues, NEW i \in Ids,
         NEW seq \in CustomSeqs \cup {0}, SendToQueue(t, q, i, seq)
  PROVE  OrderInv'
<1>0. /\ TypeInv /\ TypeOK /\ OrderInv /\ AckedOK /\ UidsOK
      /\ \A c \in Conns : c # t /\ t \in Procs /\ c \in Procs
  BY QueueAssumption DEF FullInv, Inv, TypeInv, SequenceInv, DeliveryInv, Procs
<1>1. /\ sent \in Nat /\ sent + 1 \in Uids /\ sent' = sent + 1
      /\ pc \in [Procs -> ThreadPC \cup ConnPC]
      /\ queue \in [Procs -> Queues \cup {NoQueue}]
      /\ msg \in [Threads -> Draft]
      /\ before \in [Uids -> SUBSET Uids]
      /\ overlap \in [Conns -> SUBSET Uids]
  BY <1>0, QueueAssumption
  DEF TypeOK, ProcType, SendType, PastType, SeenType, SendToQueue, Uids
<1>2. UNCHANGED <<acked, generated, store, prev, inbox, replayed, live>>
  BY DEF SendToQueue
<1>3. /\ \A u \in Uids : u # sent + 1 => before'[u] = before[u]
      /\ before'[sent + 1] = {a[2].uid : a \in acked}
  BY <1>1 DEF SendToQueue
<1>4. \A c \in Conns : /\ pc'[c] = pc[c] /\ overlap[c] \subseteq overlap'[c]
                       /\ Taken(c)' = Taken(c)
  BY <1>0, <1>1, <1>2 DEF SendToQueue, Taken
<1>5. \A u \in Threads :
        \/ msg'[u].uid = sent + 1 /\ pc'[u] # "idle"
        \/ msg'[u] = msg[u] /\ queue'[u] = queue[u] /\ pc'[u] = pc[u]
  BY <1>1 DEF SendToQueue, AfterSequence, Procs
<1>6. IdleOK' /\ EarlyOK'
  BY <1>0, <1>2, <1>4, <1>5 DEF OrderInv, IdleOK, EarlyOK
<1>7. \A a \in acked : a[2].uid \in Uids /\ a[2].uid <= sent /\ a[2].uid # sent + 1
  BY <1>0, <1>1 DEF AckedOK, TypeOK, PastType, Sent, Uids
<1>8. TakenOK'
  <2> SUFFICES ASSUME NEW c \in Conns
               PROVE  /\ \A x \in DOMAIN Taken(c) : \E a \in acked : a[2] = Taken(c)[x]
                      /\ \A x, y \in DOMAIN Taken(c) : x < y =>
                           /\ Taken(c)[y] # Taken(c)[x]
                           /\ Taken(c)[y].uid \notin before'[Taken(c)[x].uid]
    BY <1>2, <1>4 DEF TakenOK, InOrder
  <2>1. \A x \in DOMAIN Taken(c) : \E a \in acked : a[2] = Taken(c)[x]
    BY <1>0 DEF OrderInv, TakenOK
  <2>2. \A x \in DOMAIN Taken(c) : before'[Taken(c)[x].uid] = before[Taken(c)[x].uid]
    BY <1>3, <1>7, <2>1
  <2> QED BY <1>0, <2>1, <2>2 DEF OrderInv, TakenOK, InOrder
<1>9. StoredOK'
  <2>1. \A p \in Queues : \A m \in store[p] : m.uid \in Nat
    BY <1>0 DEF TypeOK, SledType, Sent, Uids
  <2> QED BY <1>0, <1>1, <1>2, <2>1 DEF OrderInv, StoredOK
<1>10. ReplayOK'
  <2> SUFFICES ASSUME NEW c \in Conns, NEW m \in prev[c] \cup replayed[c]
               PROVE  /\ m.uid <= sent + 1
                      /\ \A u \in Threads : msg'[u].uid = m.uid => m.uid \in overlap'[c]
                      /\ \A x \in DOMAIN Taken(c) : Taken(c)[x] = m => m.uid \in overlap'[c]
    BY <1>1, <1>2, <1>4 DEF ReplayOK
  <2>1. m.uid \in Nat /\ m.uid <= sent
    BY <1>0 DEF OrderInv, ReplayOK, TypeOK, ConnType, SeenType, Sent, Uids
  <2>2. \A u \in Threads : msg'[u].uid = m.uid => msg[u].uid = m.uid
    BY <1>1, <1>5, <2>1
  <2> QED BY <1>0, <1>1, <1>4, <2>1, <2>2 DEF OrderInv, ReplayOK
<1>11. BeforeOK'
  BY <1>0, <1>2, <1>3 DEF OrderInv, BeforeOK
<1>12. GeneratedOK'
  <2>1. \A g \in generated : g.uid \in Uids /\ g.uid # sent + 1
    BY <1>0, <1>1, QueueAssumption DEF UidsOK, TypeOK, PastType, Uids
  <2>2. \A g \in generated, u \in Threads : g.uid = msg'[u].uid =>
          g.uid = msg[u].uid /\ msg'[u] = msg[u] /\ queue'[u] = queue[u]
    BY <1>5, <2>1
  <2>3. \A g \in generated : before'[g.uid] = before[g.uid]
    BY <1>3, <2>1
  <2> QED BY <1>0, <1>2, <2>2, <2>3 DEF OrderInv, GeneratedOK, Carries
<1> QED BY <1>6, <1>8, <1>9, <1>10, <1>11, <1>12 DEF OrderInv

\* A sequence is drawn: it is larger than all that the counter gave out.
LEMMA OrderGenerate ==
  ASSUME FullInv, NEW t \in Threads, GenerateNextId(t)
  PROVE  OrderInv'
<1> DEFINE k == CounterKey[<<queue[t], msg[t].id>>]
           n == NextSequence(ids[k])
           new == [key |-> k, seq |-> n, uid |-> msg[t].uid]
<1>0. /\ TypeInv /\ TypeOK /\ SequenceInv /\ OrderInv /\ AckedOK /\ UidsOK
      /\ \A c \in Conns : c # t /\ t \in Procs /\ c \in Procs
  BY QueueAssumption DEF FullInv, Inv, TypeInv, SequenceInv, DeliveryInv, Procs
<1>1. queue[t] \in Queues /\ msg[t].id \in Ids /\ msg[t].uid \in Uids /\ pc[t] = "generate"
  BY <1>0 DEF TypeOK, ProcType, SendType, GenerateNextId, Procs
<1>2. k \in CounterKeys
  BY <1>1, QueueAssumption
<1>3. n = ids[k] + 1 /\ ids[k] \in Nat
  <2>1. ids[k] < MaxSends /\ ids[k] \in 0..U64Max
    BY <1>0, <1>1, <1>2, CounterBelowSends DEF TypeOK, SledType
  <2> QED BY <2>1, QueueAssumption, U64Assumption, SendsAssumption DEF NextSequence
<1> HIDE DEF k, n
<1>4. /\ msg' = [msg EXCEPT ![t].seq = n]
      /\ generated' = generated \cup {new}
      /\ UNCHANGED <<acked, before, sent, store, queue, prev, inbox, rx, replayed, live, overlap>>
      /\ pc' = [pc EXCEPT ![t] = AfterSequence]
  BY DEF GenerateNextId, k, n
<1>5. /\ \A u \in Threads \ {t} : msg'[u] = msg[u]
      /\ msg'[t].uid = msg[t].uid /\ msg'[t].id = msg[t].id /\ msg'[t].seq = n
  BY <1>0, <1>4 DEF TypeOK, SendType, Draft
<1>6. /\ \A c \in Conns : pc'[c] = pc[c]
      /\ \A u \in Threads \ {t} : pc'[u] = pc[u]
      /\ pc'[t] # "idle"
  BY <1>0, <1>4 DEF TypeOK, ProcType, Procs, AfterSequence
<1>7. IdleOK' /\ EarlyOK' /\ StoredOK' /\ BeforeOK'
  BY <1>0, <1>4, <1>5, <1>6 DEF OrderInv, IdleOK, EarlyOK, StoredOK, BeforeOK
<1>8. \A c \in Conns : Taken(c)' = Taken(c)
  BY <1>4 DEF Taken
<1>9. TakenOK'
  BY <1>0, <1>4, <1>8 DEF OrderInv, TakenOK, InOrder
<1>10. ReplayOK'
  <2>1. \A u \in Threads : msg'[u].uid = msg[u].uid
    BY <1>5
  <2> QED BY <1>0, <1>4, <1>8, <2>1 DEF OrderInv, ReplayOK
<1>11. \A a \in acked : a[2].uid # msg[t].uid
  BY <1>0 DEF AckedOK
<1>12. \A g \in generated : g.uid # msg[t].uid
  BY <1>0, <1>1 DEF UidsOK
<1>13. \A u \in Threads \ {t} : msg[u].uid # msg[t].uid
  BY <1>0, <1>1 DEF UidsOK, Uids
<1>14. \A g \in generated : g.key = k => g.seq < n
  <2>1. \A g \in generated : g.key = k => g.seq \in 1..ids[k]
    BY <1>0, <1>2 DEF SequenceInv, SequencesDense
  <2> QED BY <1>3, <2>1
<1>15. \A u \in Uids : msg[t].uid \notin before[u]
  BY <1>0, <1>11 DEF OrderInv, BeforeOK
<1>16. new.key = k /\ new.seq = n /\ new.uid = msg[t].uid
  OBVIOUS
<1> HIDE DEF new
<1>17. ASSUME NEW g \in generated', NEW a \in acked, g.uid = a[2].uid
       PROVE  Carries(g, a[1], a[2])
  BY <1>0, <1>4, <1>11, <1>16, <1>17 DEF OrderInv, GeneratedOK
<1>18. ASSUME NEW g \in generated', NEW u \in Threads, g.uid = msg'[u].uid
       PROVE  Carries(g, queue[u], msg'[u])
  <2>1. CASE g \in generated
    <3>1. u # t
      BY <1>5, <1>12, <1>18, <2>1
    <3> QED BY <1>0, <1>5, <1>18, <2>1, <3>1 DEF OrderInv, GeneratedOK
  <2>2. CASE g = new
    <3>1. u = t
      BY <1>5, <1>13, <1>16, <1>18, <2>2
    <3> QED BY <1>5, <1>16, <2>2, <3>1 DEF Carries, k
  <2> QED BY <1>4, <2>1, <2>2
<1>19. ASSUME NEW g \in generated', NEW h \in generated', g.key = h.key, g.uid \in before[h.uid]
       PROVE  g.seq < h.seq
  <2>1. h.uid \in Uids
    BY <1>0, <1>1, <1>4, <1>16 DEF TypeOK, PastType
  <2>2. g \in generated
    BY <1>4, <1>15, <1>16, <1>19, <2>1
  <2>3. CASE h \in generated
    BY <1>0, <1>19, <2>2, <2>3 DEF OrderInv, GeneratedOK
  <2>4. CASE h = new
    BY <1>14, <1>16, <1>19, <2>2, <2>4
  <2> QED BY <1>4, <2>3, <2>4
<1>20. GeneratedOK'
  BY <1>4, <1>17, <1>18, <1>19 DEF GeneratedOK, Carries
<1> QED BY <1>7, <1>9, <1>10, <1>20 DEF OrderInv

\* Cutting a channel short, or adding an answered message that no message in
\* it comes after and that is not in it yet, keeps it in order.
LEMMA OrderPrefix ==
  ASSUME NEW r \in Seq(Sent), NEW b \in Seq(Sent), InOrder(r \o b)
  PROVE  /\ InOrder(r)
         /\ \A x \in DOMAIN r : x \in DOMAIN (r \o b) /\ (r \o b)[x] = r[x]
<1>1. \A x \in DOMAIN r : x \in DOMAIN (r \o b) /\ (r \o b)[x] = r[x]
  OBVIOUS
<1> QED BY <1>1 DEF InOrder

LEMMA OrderAppend ==
  ASSUME NEW s \in Seq(Sent), NEW m \in Sent, InOrder(s),
         \A x \in DOMAIN s : s[x] # m /\ m.uid \notin before[s[x].uid]
  PROVE  /\ InOrder(Append(s, m))
         /\ \A x \in DOMAIN Append(s, m) :
              Append(s, m)[x] = m \/ (x \in DOMAIN s /\ Append(s, m)[x] = s[x])
<1> DEFINE r == Append(s, m)
<1>1. /\ Len(s) \in Nat /\ DOMAIN r = 1..(Len(s) + 1) /\ DOMAIN s = 1..Len(s)
      /\ r[Len(s) + 1] = m /\ \A x \in 1..Len(s) : r[x] = s[x]
  OBVIOUS
<1> HIDE DEF r
<1>2. \A x \in DOMAIN r : r[x] = m \/ (x \in DOMAIN s /\ r[x] = s[x])
  BY <1>1
<1>3. ASSUME NEW x \in DOMAIN r, NEW y \in DOMAIN r, x < y
      PROVE  r[y] # r[x] /\ r[y].uid \notin before[r[x].uid]
  <2>1. x \in DOMAIN s /\ r[x] = s[x]
    BY <1>1, <1>3
  <2>2. CASE y = Len(s) + 1
    BY <1>1, <2>1, <2>2
  <2>3. CASE y # Len(s) + 1
    <3>1. y \in DOMAIN s /\ r[y] = s[y]
      BY <1>1, <2>3
    <3> QED BY <1>3, <2>1, <3>1 DEF InOrder
  <2> QED BY <2>2, <2>3
<1>4. InOrder(r)
  BY <1>3 DEF InOrder
<1> QED BY <1>2, <1>4 DEF r

\* The message enters the channels and its send is answered.  It was in no
\* channel before, and no request that was answered came after it.
LEMMA OrderBroadcast ==
  ASSUME FullInv, NEW t \in Threads, Broadcast(t)
  PROVE  OrderInv'
<1> DEFINE q == queue[t]
           m == msg[t]
<1>0. /\ TypeInv /\ TypeOK /\ OrderInv /\ AckedOK /\ UidsOK
      /\ \A c \in Conns : c # t /\ t \in Procs /\ c \in Procs
  BY QueueAssumption DEF FullInv, Inv, TypeInv, SequenceInv, DeliveryInv, Procs
<1>1. m \in Sent /\ m.uid # 0 /\ m.uid \in Uids /\ q \in Queues
  BY <1>0 DEF Broadcast, TypeOK, SendType, ProcType, Procs, Sent, Uids
<1>2. UNCHANGED <<prev, replayed, live, overlap, store, sent, before, generated>>
  BY DEF Broadcast
<1>3. acked' = acked \cup {<<q, m>>} /\ Answer(t)
  BY DEF Broadcast
<1>4. /\ \A u \in Threads : msg'[u].uid = 0 \/ (msg'[u] = msg[u] /\ queue'[u] = queue[u])
      /\ \A c \in Conns : pc'[c] = pc[c]
  <2>1. NoMsg.uid = 0
    BY DEF NoMsg
  <2>2. \A u \in Threads : msg'[u].uid = 0 \/ (msg'[u] = msg[u] /\ queue'[u] = queue[u])
    BY <1>0, <1>3, <2>1 DEF Answer, Procs, TypeOK, ProcType, SendType
  <2> QED BY <1>0, <1>3, <2>2, AnswerQuiet
<1>5. \A c \in Conns :
        \/ inbox'[c] = <<>> /\ rx[c] = "open"
        \/ inbox'[c] = Append(inbox[c], m) /\ rx[c] = "open"
        \/ inbox'[c] = inbox[c]
  BY DEF Broadcast, Receivers
<1>6. \A a \in acked : a[2].uid # m.uid /\ a[2] # m
  BY <1>0 DEF AckedOK
<1> HIDE DEF q, m
<1>7. \A u \in Uids : m.uid \notin before[u]
  BY <1>0, <1>6 DEF OrderInv, BeforeOK
<1>8. IdleOK'
  BY <1>3, IdleBusy
<1>9. EarlyOK'
  <2>1. \A c \in Conns : rx[c] = "open" => pc[c] = "streaming"
    BY DEF FullInv, Inv, DeliveryInv, WindowOK
  <2> QED BY <1>0, <1>2, <1>4, <1>5, <2>1 DEF OrderInv, EarlyOK
<1>10. StoredOK' /\ BeforeOK'
  BY <1>0, <1>2, <1>3 DEF OrderInv, StoredOK, BeforeOK
<1>11. ASSUME NEW c \in Conns
       PROVE  /\ \A x \in DOMAIN Taken(c)' :
                   Taken(c)'[x] = m \/ (x \in DOMAIN Taken(c) /\ Taken(c)'[x] = Taken(c)[x])
              /\ InOrder(Taken(c)')
  <2> DEFINE r == live[c]
             b == inbox[c]
  <2>1. r \in Seq(Sent) /\ b \in Seq(Sent) /\ r \o b \in Seq(Sent)
    BY <1>0, TakenType DEF Taken
  <2>2. /\ InOrder(r \o b)
        /\ \A x \in DOMAIN (r \o b) : /\ \E a \in acked : a[2] = (r \o b)[x]
                                      /\ (r \o b)[x] \in Sent
    BY <1>0, TakenType DEF OrderInv, TakenOK, Taken
  <2>3. \A x \in DOMAIN (r \o b) :
          (r \o b)[x] # m /\ m.uid \notin before[(r \o b)[x].uid]
    <3>1. \A x \in DOMAIN (r \o b) : (r \o b)[x].uid \in Uids
      BY <2>2 DEF Sent
    <3> QED BY <1>6, <1>7, <2>2, <3>1
  <2>4. Taken(c)' = r \o inbox'[c] /\ Taken(c) = r \o b
    BY <1>2 DEF Taken
  <2>5. inbox'[c] = <<>> \/ inbox'[c] = Append(b, m) \/ inbox'[c] = b
    BY <1>5
  <2> HIDE DEF r, b
  <2>6. CASE inbox'[c] = <<>>
    <3>1. Taken(c)' = r
      BY <2>1, <2>4, <2>6
    <3> QED BY <2>1, <2>2, <2>4, <3>1, OrderPrefix
  <2>7. CASE inbox'[c] = Append(b, m)
    <3> DEFINE s == r \o b
    <3>1. Taken(c)' = Append(s, m)
      BY <1>1, <2>1, <2>4, <2>7, JoinedSeq
    <3>2. s \in Seq(Sent) /\ InOrder(s) /\ \A x \in DOMAIN s : s[x] # m /\ m.uid \notin before[s[x].uid]
      BY <2>1, <2>2, <2>3
    <3>3. Taken(c) = s
      BY <2>4
    <3> HIDE DEF s
    <3> QED BY <1>1, <3>1, <3>2, <3>3, OrderAppend
  <2>8. CASE inbox'[c] = b
    BY <2>2, <2>4, <2>8
  <2> QED BY <2>5, <2>6, <2>7, <2>8
<1>12. TakenOK'
  <2> SUFFICES ASSUME NEW c \in Conns
               PROVE  /\ \A x \in DOMAIN Taken(c)' : \E a \in acked' : a[2] = Taken(c)'[x]
                      /\ InOrder(Taken(c))'
    BY DEF TakenOK
  <2>1. \A x \in DOMAIN Taken(c) : \E a \in acked : a[2] = Taken(c)[x]
    BY <1>0 DEF OrderInv, TakenOK
  <2>2. <<q, m>> \in acked' /\ <<q, m>>[2] = m /\ acked \subseteq acked'
    BY <1>3
  <2>3. InOrder(Taken(c))'
    BY <1>2, <1>11 DEF InOrder
  <2>4. ASSUME NEW x \in DOMAIN Taken(c)' PROVE \E a \in acked' : a[2] = Taken(c)'[x]
    <3>1. CASE Taken(c)'[x] = m
      BY <2>2, <3>1
    <3>2. CASE x \in DOMAIN Taken(c) /\ Taken(c)'[x] = Taken(c)[x]
      BY <2>1, <2>2, <3>2
    <3> QED BY <1>11, <3>1, <3>2
  <2> QED BY <2>3, <2>4
<1>13. ReplayOK'
  <2> SUFFICES ASSUME NEW c \in Conns, NEW n \in prev[c] \cup replayed[c]
               PROVE  /\ n.uid <= sent
                      /\ \A u \in Threads : msg'[u].uid = n.uid => n.uid \in overlap[c]
                      /\ \A x \in DOMAIN Taken(c)' : Taken(c)'[x] = n => n.uid \in overlap[c]
    BY <1>2 DEF ReplayOK
  <2>1. n.uid # 0
    BY <1>0 DEF TypeOK, ConnType, SeenType, Sent, Uids
  <2>2. /\ n.uid <= sent
        /\ \A u \in Threads : msg[u].uid = n.uid => n.uid \in overlap[c]
        /\ \A x \in DOMAIN Taken(c) : Taken(c)[x] = n => n.uid \in overlap[c]
    BY <1>0 DEF OrderInv, ReplayOK
  <2>3. m = n => n.uid \in overlap[c]
    BY <2>2 DEF m
  <2> QED BY <1>4, <1>11, <2>1, <2>2, <2>3
<1>14. GeneratedOK'
  <2>1. \A g \in generated : g.uid # 0
    BY <1>0 DEF TypeOK, PastType, Uids
  <2>2. \A g \in generated : g.uid = m.uid => Carries(g, q, m)
    BY <1>0 DEF OrderInv, GeneratedOK, q, m
  <2>3. \A g \in generated, a \in acked' : g.uid = a[2].uid => Carries(g, a[1], a[2])
    BY <1>0, <1>3, <2>2 DEF OrderInv, GeneratedOK
  <2>4. \A g \in generated, u \in Threads : g.uid = msg'[u].uid => Carries(g, queue'[u], msg'[u])
    BY <1>0, <1>4, <2>1 DEF OrderInv, GeneratedOK
  <2>5. \A g, h \in generated : g.key = h.key /\ g.uid \in before[h.uid] => g.seq < h.seq
    BY <1>0 DEF OrderInv, GeneratedOK
  <2> QED BY <1>2, <2>3, <2>4, <2>5 DEF GeneratedOK, Carries
<1> QED BY <1>8, <1>9, <1>10, <1>12, <1>13, <1>14 DEF OrderInv

LEMMA OrderNext ==
  ASSUME FullInv, [Next]_vars
  PROVE  OrderInv'
<1>1. CASE UNCHANGED vars
  <2>1. UNCHANGED <<acked, before, sent, generated, msg, store, queue, want, prev, inbox,
                    rx, pc, replayed, live, overlap, horizon>>
    BY <1>1 DEF vars
  <2>2. OrderQuietSends /\ ConnsKept
    BY <2>1, StoredLess DEF OrderQuietSends, ConnsKept, FullInv, OrderInv, IdleOK
  <2> QED BY <2>2, OrderWorker
<1>2. ASSUME NEW t \in Threads, Work(t) PROVE OrderInv'
  BY <1>2, OrderGenerate, OrderWork, OrderBroadcast DEF Work
<1>3. ASSUME NEW t \in Threads, Request(t) PROVE OrderInv'
  BY <1>3, OrderSend, OrderAdmin DEF Request
<1>4. ASSUME NEW c \in Conns, Stream(c) PROVE OrderInv'
  BY <1>4, OrderConn, OrderRead, OrderYield DEF Stream
<1>5. ASSUME NEW c \in Conns, Client(c) PROVE OrderInv'
  BY <1>5, OrderConn DEF Client
<1> QED BY <1>1, <1>2, <1>3, <1>4, <1>5 DEF Next

\* The invariants of a server, together.
LEMMA FullInvariant == Spec => []FullInv
<1>1. Init => FullInv
  <2>1. Init => SequenceInv
    BY DEF Init, SequenceInv, UidsOK, SequencesDense, NoMsg
  <2>2. Init => DeliveryInv
    BY DEF Init, DeliveryInv, AckedOK, WindowOK, ReadOK, NoLossOutsideWindow, Procs, NoMsg
  <2>3. ASSUME Init PROVE OrderInv
    <3>1. \A c \in Conns : Taken(c) = <<>>
      BY <2>3 DEF Init, Taken
    <3>2. TakenOK
      BY <3>1 DEF TakenOK, InOrder
    <3>3. IdleOK /\ EarlyOK /\ StoredOK /\ ReplayOK /\ BeforeOK /\ GeneratedOK
      BY <2>3 DEF Init, IdleOK, EarlyOK, StoredOK, ReplayOK, BeforeOK, GeneratedOK, NoMsg
    <3> QED BY <3>2, <3>3 DEF OrderInv
  <2> QED BY <2>1, <2>2, <2>3, TypeInit DEF FullInv, Inv
<1>2. FullInv /\ [Next]_vars => FullInv'
  BY TypeNext, SequenceNext, DeliveryNext, OrderNext DEF FullInv, Inv
<1> QED BY <1>1, <1>2, PTL DEF Spec

\* For any number of workers, subscriptions and messages: no message reaches
\* a stream twice, neither twice from its channel nor once from the history
\* of get_prev_items and once live, except a send that was in flight between
\* the history read and the joining of the channel.
THEOREM NoDuplicates == Spec => []NoDuplicateOutsideWindow
<1>1. ASSUME FullInv PROVE NoDuplicateOutsideWindow
  <2> SUFFICES ASSUME NEW c \in Conns
               PROVE  /\ IsInjective(Taken(c))
                      /\ \A m \in prev[c] \cup replayed[c] :
                           m \in Pending(c) \cup Range(live[c]) => m.uid \in overlap[c]
    BY DEF NoDuplicateOutsideWindow, Taken
  <2>1. TypeOK /\ OrderInv
    BY <1>1 DEF FullInv, Inv, TypeInv
  <2>2. IsInjective(Taken(c))
    <3>1. DOMAIN Taken(c) = 1..Len(Taken(c)) /\ Len(Taken(c)) \in Nat
      BY <2>1, TakenType
    <3>2. \A x, y \in DOMAIN Taken(c) : x < y => Taken(c)[y] # Taken(c)[x]
      BY <2>1 DEF OrderInv, TakenOK, InOrder
    <3> QED BY <3>1, <3>2 DEF IsInjective
  <2>3. ASSUME NEW m \in prev[c] \cup replayed[c], m \in Pending(c) \cup Range(live[c])
        PROVE  m.uid \in overlap[c]
    <3>1. \E x \in DOMAIN Taken(c) : Taken(c)[x] = m
      <4> DEFINE r == live[c]
                 b == inbox[c]
      <4>1. r \in Seq(Sent) /\ b \in Seq(Sent)
        BY <2>1, TakenType
      <4>2. (\E x \in DOMAIN r : r[x] = m) \/ (\E x \in DOMAIN b : b[x] = m)
        BY <2>3 DEF Pending, Range
      <4> HIDE DEF r, b
      <4>3. /\ DOMAIN r = 1..Len(r) /\ DOMAIN b = 1..Len(b) /\ Len(r) \in Nat /\ Len(b) \in Nat
            /\ DOMAIN (r \o b) = 1..(Len(r) + Len(b))
            /\ \A x \in 1..Len(r) : (r \o b)[x] = r[x]
            /\ \A x \in 1..Len(b) : (r \o b)[Len(r) + x] = b[x]
        BY <4>1
      <4>4. \E x \in DOMAIN (r \o b) : (r \o b)[x] = m
        <5>1. ASSUME NEW x \in DOMAIN r, r[x] = m PROVE \E y \in DOMAIN (r \o b) : (r \o b)[y] = m
          BY <4>3, <5>1
        <5>2. ASSUME NEW x \in DOMAIN b, b[x] = m PROVE \E y \in DOMAIN (r \o b) : (r \o b)[y] = m
          <6>1. Len(r) + x \in DOMAIN (r \o b)
            BY <4>3
          <6> QED BY <4>3, <5>2, <6>1
        <5> QED BY <4>2, <5>1, <5>2
      <4> QED BY <4>4 DEF Taken, r, b
    <3> QED BY <2>1, <3>1 DEF OrderInv, ReplayOK
  <2> QED BY <2>2, <2>3
<1> QED BY <1>1, FullInvariant, PTL

\* For any number of workers, subscriptions and messages: a send to an id that
\* arrives after another one was answered has the larger generated sequence,
\* and no live stream hands out the two in the other order.
THEOREM OrderKept == Spec => []RealTimeOrder
<1>1. ASSUME FullInv PROVE RealTimeOrder
  <2>1. OrderInv /\ UidsOK
    BY <1>1 DEF FullInv, Inv, SequenceInv
  <2>2. ASSUME NEW a \in acked, NEW b \in acked, a[1] = b[1], a[2].id = b[2].id,
               {a[2].uid, b[2].uid} \subseteq GeneratedUids,
               a[2].uid \in before[b[2].uid]
        PROVE  a[2].seq < b[2].seq
    <3>1. PICK g \in generated : g.uid = a[2].uid
      BY <2>2 DEF GeneratedUids
    <3>2. PICK h \in generated : h.uid = b[2].uid
      BY <2>2 DEF GeneratedUids
    <3>3. Carries(g, a[1], a[2]) /\ Carries(h, b[1], b[2])
      BY <2>1, <3>1, <3>2 DEF OrderInv, GeneratedOK
    <3>4. g.key = h.key /\ g.seq = a[2].seq /\ h.seq = b[2].seq
      BY <2>2, <3>3 DEF Carries
    <3> QED BY <2>1, <2>2, <3>1, <3>2, <3>4 DEF OrderInv, GeneratedOK
  <2>3. ASSUME NEW c \in Conns, NEW x \in DOMAIN Taken(c), NEW y \in DOMAIN Taken(c), x < y
        PROVE  Taken(c)[y].uid \notin before[Taken(c)[x].uid]
    BY <2>1, <2>3 DEF OrderInv, TakenOK, InOrder
  <2> QED BY <2>2, <2>3 DEF RealTimeOrder, Taken
<1> QED BY <1>1, FullInvariant, PTL
=============================================================================
