--------------------------- MODULE Restart_proofs ---------------------------
(***************************************************************************)
(* Proofs about crashes: what sled has flushed survives them, with its     *)
(* sequences, and the history is bounded again after the first trim.       *)
(***************************************************************************)
EXTENDS Restart, Retention_proofs

USE DEF ThreadPC, ConnPC, Sequenced, sledVars, chanVars, procVars, sendVars,
        connVars, reqVars, pastVars, seenVars

-----------------------------------------------------------------------------
(* The image on disk.                                                       *)

DiskType ==
  /\ disk.trees \subseteq Queues
  /\ disk.store \in [Queues -> SUBSET Sent]
  /\ disk.ids \in [CounterKeys -> 0..U64Max]
  /\ \A q \in Queues : IsFiniteSet(disk.store[q])

\* Trees and counters are flushed together, so the image has one message per
\* key and its counters count what had been handed out.
DiskInv ==
  /\ DiskType
  /\ \A q \in Queues : \A x, y \in disk.store[q] : KeyOf(x) = KeyOf(y) => x = y
  /\ flushed \subseteq generated
  /\ logged.inserted \subseteq inserted /\ logged.removed \subseteq removed
  /\ \A k \in CounterKeys : {g.seq : g \in {h \in flushed : h.key = k}} = 1..disk.ids[k]

BaseInv == TypeInv /\ SequenceInv /\ UniqueKeys /\ DiskInv

\* A step that neither flushes nor crashes is one of the server of Queue.
LEMMA ServeSteps ==
  ASSUME [RestartNext]_allVars
  PROVE  \/ [Next]_vars /\ UNCHANGED <<disk, flushed, logged, durable>>
         \/ Flush
         \/ Crash
BY DEF RestartNext, Serve, allVars, restartVars

LEMMA FlushQuiet == Flush => UNCHANGED vars
BY DEF Flush

LEMMA CrashTypes ==
  ASSUME TypeInv, DiskInv, Crash
  PROVE  TypeInv'
<1> USE DEF Crash, Forget, new
<1>1. SledType' /\ ChanType'
  BY QueueAssumption DEF SledType, ChanType, DiskInv, DiskType
<1>2. ProcType'
  BY DEF ProcType, Procs
<1>3. SendType'
  BY QueueAssumption, U64Assumption DEF SendType, NoMsg, Draft, Topics, Procs
<1>4. ConnType'
  BY DEF ConnType, NoWant, Wants, Froms, NoFrom, Topics, Procs
<1>5. PastType' /\ SeenType'
  BY QueueAssumption DEF PastType, SeenType, TypeInv, TypeOK, DiskInv
<1>6. FiniteOK'
  BY FS_EmptySet DEF FiniteOK, DiskInv, DiskType
<1> QED BY <1>1, <1>2, <1>3, <1>4, <1>5, <1>6 DEF TypeInv, TypeOK

LEMMA CrashSequences ==
  ASSUME TypeInv, SequenceInv, DiskInv, Crash
  PROVE  SequenceInv'
<1>1. /\ ids' = disk.ids /\ generated' = flushed /\ flushed \subseteq generated
      /\ UNCHANGED sent
      /\ \A t \in Threads : pc'[t] = "idle" /\ msg'[t].uid = 0
  BY DEF Crash, Forget, new, NoMsg, Procs, DiskInv
<1>2. sent \in Nat
  BY QueueAssumption DEF TypeInv, TypeOK, PastType
<1>3. UidsOK'
  BY <1>1, <1>2 DEF UidsOK, SequenceInv
<1>4. SequencesDense'
  BY <1>1 DEF SequencesDense, SequenceInv, DiskInv
<1> QED BY <1>3, <1>4 DEF SequenceInv

LEMMA BaseInit == RestartInit => BaseInv
<1> SUFFICES ASSUME RestartInit PROVE BaseInv
  OBVIOUS
<1>1. TypeInv
  BY TypeInit DEF RestartInit
<1>2. SequenceInv /\ UniqueKeys
  BY DEF RestartInit, Init, SequenceInv, UidsOK, SequencesDense, NoMsg, UniqueKeys
<1>3. disk.trees = trees /\ disk.store = store /\ disk.ids = ids
  BY DEF RestartInit, Image
<1>4. DiskType
  BY <1>1, <1>3 DEF DiskType, TypeInv, TypeOK, SledType, FiniteOK
<1>5. DiskInv
  BY <1>3, <1>4 DEF DiskInv, RestartInit, Init, Past
<1> QED BY <1>1, <1>2, <1>5 DEF BaseInv

LEMMA BaseNext ==
  ASSUME BaseInv, [RestartNext]_allVars
  PROVE  BaseInv'
<1>0. TypeInv /\ SequenceInv /\ UniqueKeys /\ DiskInv
  BY DEF BaseInv
<1>1. CASE [Next]_vars /\ UNCHANGED <<disk, flushed, logged, durable>>
  <2>1. TypeInv' /\ SequenceInv' /\ UniqueKeys'
    BY <1>0, <1>1, TypeNext, SequenceNext, UniqueNext
  <2>2. generated \subseteq generated' /\ inserted \subseteq inserted' /\ removed \subseteq removed'
    BY <1>1, PastGrows
  <2>3. DiskInv'
    BY <1>0, <1>1, <2>2 DEF DiskInv, DiskType
  <2> QED BY <2>1, <2>3 DEF BaseInv
<1>2. CASE Flush
  <2>1. [Next]_vars
    BY <1>2, FlushQuiet
  <2>2. TypeInv' /\ SequenceInv' /\ UniqueKeys'
    BY <1>0, <2>1, TypeNext, SequenceNext, UniqueNext
  <2>3. /\ disk'.trees = trees' /\ disk'.store = store' /\ disk'.ids = ids'
        /\ flushed' = generated'
        /\ logged'.inserted = inserted' /\ logged'.removed = removed'
    BY <1>2, FlushQuiet DEF Flush, Image, Past, vars
  <2>4. DiskType'
    BY <2>2, <2>3 DEF DiskType, TypeInv, TypeOK, SledType, FiniteOK
  <2>5. DiskInv'
    BY <2>2, <2>3, <2>4 DEF DiskInv, UniqueKeys, SequenceInv, SequencesDense
  <2> QED BY <2>2, <2>5 DEF BaseInv
<1>3. CASE Crash
  <2>1. TypeInv' /\ SequenceInv'
    BY <1>0, <1>3, CrashTypes, CrashSequences
  <2>2. /\ store' = disk.store /\ generated' = flushed
        /\ inserted' = logged.inserted /\ removed' = logged.removed
        /\ UNCHANGED <<disk, flushed, logged>>
    BY <1>3 DEF Crash, new
  <2>3. UniqueKeys' /\ DiskInv'
    BY <1>0, <2>2 DEF UniqueKeys, DiskInv, DiskType
  <2> QED BY <2>1, <2>3 DEF BaseInv
<1> QED BY <1>1, <1>2, <1>3, ServeSteps

\* For any number of workers, queues, ids and crashes: a sequence that was
\* flushed is never handed out again, since generate_next_id draws from a
\* counter of the same database and sled recovers both from one prefix of
\* its log.
THEOREM SequencesSurvive == RestartSpec => []FlushedNeverReused
<1>1. BaseInv => FlushedNeverReused
  BY DEF BaseInv, DiskInv, SequenceInv, SequencesDense, FlushedNeverReused
<1> QED BY <1>1, BaseInit, BaseNext, PTL DEF RestartSpec

-----------------------------------------------------------------------------
(* The bound after a restart.  A crash may leave any number of versions of  *)
(* an id too many.  The scans made since bound what they leave, so that the *)
(* first trim is enough; no send that gave up on a dropped tree may pass    *)
(* for it.                                                                  *)

\* A send to id i of q that will fail where it should have trimmed.
FailedTrim(q, i) ==
  \E t \in Threads \cap stale :
    queue[t] = q /\ pc[t] \in {"scan", "trim"} /\ msg[t].id = i

RecoverInv ==
  Limited => \A q \in Queues, i \in Ids :
    /\ IsFiniteSet(Trimming(q, i))
    /\ ScansBounded(q, i, MaxKeyUpdates)
    /\ AtMost(q, i, {}, MaxKeyUpdates) \/ (<<q, i>> \in untrimmed /\ ~FailedTrim(q, i))

\* A handle goes stale by the drop that empties the tree.
LEMMA FailedTrimStep ==
  ASSUME TypeInv, [Next]_vars, NEW q \in Queues, NEW i \in Ids, FailedTrim(q, i)'
  PROVE  FailedTrim(q, i) \/ Emptied(q, i)
<1>1. PICK u \in Threads : /\ u \in stale' /\ queue'[u] = q
                           /\ pc'[u] \in {"scan", "trim"} /\ msg'[u].id = i
  BY DEF FailedTrim
<1>2. ASSUME u \in stale, queue'[u] = queue[u], pc'[u] = pc[u], msg'[u] = msg[u]
      PROVE  FailedTrim(q, i)
  BY <1>1, <1>2 DEF FailedTrim
<1>3. ASSUME NEW t \in Threads, Work(t), ~DropTree(t)
      PROVE  FailedTrim(q, i)
  <2>1. OthersKept(t)
    BY <1>3, WorkerTypes
    DEF Work, GenerateNextId, OpenTree, Insert, ScanSurplus, Trim, SendFails, Broadcast,
        DeleteScan, DeleteApply, Answer, open_tree, OthersKept
  <2>2. pc'[t] \in {"scan", "trim"} => t \notin stale'
    BY <1>3, WorkerTypes
    DEF Work, GenerateNextId, OpenTree, Insert, ScanSurplus, Trim, SendFails, Broadcast,
        DeleteScan, DeleteApply, Answer, AfterSequence
  <2> QED BY <1>1, <1>2, <2>1, <2>2 DEF OthersKept
<1>4. ASSUME NEW t \in Threads, DropTree(t)
      PROVE  FailedTrim(q, i) \/ Emptied(q, i)
  <2>1. CASE queue[t] = q
    BY <1>4, <2>1, KindDrop
  <2>2. CASE queue[t] # q
    <3>1. /\ pc'[t] = "idle"
          /\ \A w \in Threads \ {t} : pc'[w] = pc[w] /\ queue'[w] = queue[w] /\ msg'[w] = msg[w]
          /\ \A w \in Threads : w \in stale' /\ w \notin stale => queue[w] = queue[t]
      BY <1>4, WorkerTypes DEF DropTree, Answer, Holders
    <3> QED BY <1>1, <1>2, <2>2, <3>1
  <2> QED BY <2>1, <2>2
<1>5. ASSUME NEW t \in Threads, Request(t) PROVE FailedTrim(q, i)
  <2>1. OthersKept(t)
    <3>1. ASSUME NEW p \in Queues, NEW j \in Ids, NEW seq \in CustomSeqs \cup {0},
                 SendToQueue(t, p, j, seq)
          PROVE  OthersKept(t)
      BY <3>1, WorkerTypes DEF SendToQueue, OthersKept
    <3>2. ASSUME NEW p \in Queues, CreateQueue(t, p) \/ CloseQueue(t, p)
          PROVE  OthersKept(t)
      BY <3>2, WorkerTypes DEF CreateQueue, CloseQueue, open_tree, OthersKept
    <3>3. ASSUME NEW p \in Queues, NEW j \in Ids, DeleteQueue(t, p, j)
          PROVE  OthersKept(t)
      BY <3>3, WorkerTypes DEF DeleteQueue, OthersKept
    <3> QED BY <1>5, <3>1, <3>2, <3>3 DEF Request
  <2>2. pc'[t] \notin {"scan", "trim"}
    <3>1. ASSUME NEW p \in Queues, NEW j \in Ids, NEW seq \in CustomSeqs \cup {0},
                 SendToQueue(t, p, j, seq)
          PROVE  pc'[t] \notin {"scan", "trim"}
      BY <3>1, WorkerTypes DEF SendToQueue, AfterSequence
    <3>2. ASSUME NEW p \in Queues,
                 CreateQueue(t, p) \/ CloseQueue(t, p) \/ \E j \in Ids : DeleteQueue(t, p, j)
          PROVE  pc'[t] \notin {"scan", "trim"}
      BY <3>2, WorkerTypes DEF CreateQueue, CloseQueue, DeleteQueue
    <3> QED BY <1>5, <3>1, <3>2 DEF Request
  <2> QED BY <1>1, <1>2, <2>1, <2>2 DEF OthersKept
<1>6. ASSUME NEW c \in Conns, Stream(c) \/ Client(c) PROVE FailedTrim(q, i)
  <2>1. UNCHANGED msg
    BY <1>6
    DEF Stream, Client, Subscribe, SubscribeOpen, SubscribeRead, SubscribeLock,
        YieldPrev, YieldLive, StreamEnds, ClientGone
  <2>2. \A t \in Threads : pc'[t] = pc[t]
    BY <1>6, QueueAssumption, WorkerTypes
    DEF Stream, Client, Subscribe, SubscribeOpen, SubscribeRead, SubscribeLock,
        Refused, YieldPrev, YieldLive, StreamEnds, ClientGone, HandOut, LongpollTakes,
        ConnectionHandles, DropStream
  <2>3. \A t \in Threads : queue'[t] = queue[t] /\ (t \in stale' <=> t \in stale)
    BY <1>6, QueueAssumption, WorkerTypes
    DEF Stream, Client, Subscribe, SubscribeOpen, SubscribeRead, SubscribeLock,
        YieldPrev, YieldLive, StreamEnds, ClientGone, open_tree
  <2> QED BY <1>1, <1>2, <2>1, <2>2, <2>3
<1>7. CASE UNCHANGED vars
  BY <1>1, <1>2, <1>7 DEF vars
<1> QED BY <1>3, <1>4, <1>5, <1>6, <1>7 DEF Next

\* Going from "trim" to "broadcast" takes a Trim.
LEMMA TrimsTrim ==
  ASSUME TypeInv, [Next]_vars, NEW u \in Trims
  PROVE  u \in Threads /\ Trim(u)
<1>1. u \in Threads /\ pc[u] = "trim" /\ pc'[u] = "broadcast"
  BY DEF Trims
<1>2. ASSUME NEW t \in Threads, Work(t) PROVE Trim(u)
  <2>1. u # t => pc'[u] = pc[u]
    BY <1>1, <1>2, WorkerTypes
    DEF Work, GenerateNextId, OpenTree, Insert, ScanSurplus, Trim, SendFails, Broadcast,
        DeleteScan, DeleteApply, DropTree, Answer
  <2>2. u = t
    BY <1>1, <2>1
  <2>3. ~SendFails(t)
    BY <1>1, <2>2, WorkerTypes DEF SendFails, Answer
  <2> QED BY <1>1, <1>2, <2>2, <2>3
          DEF Work, GenerateNextId, OpenTree, Insert, ScanSurplus, Broadcast,
              DeleteScan, DeleteApply, DropTree
<1>3. ASSUME NEW t \in Threads, Request(t) PROVE FALSE
  <2>1. pc[t] = "idle" /\ \A w \in Threads \ {t} : pc'[w] = pc[w]
    BY <1>3, WorkerTypes
    DEF Request, SendToQueue, CreateQueue, CloseQueue, DeleteQueue
  <2> QED BY <1>1, <2>1
<1>4. ASSUME NEW c \in Conns, Stream(c) \/ Client(c) PROVE FALSE
  <2>1. pc'[u] = pc[u]
    BY <1>1, <1>4, QueueAssumption, WorkerTypes
    DEF Stream, Client, Subscribe, SubscribeOpen, SubscribeRead, SubscribeLock,
        Refused, YieldPrev, YieldLive, StreamEnds, ClientGone, HandOut, LongpollTakes,
        ConnectionHandles, DropStream
  <2> QED BY <1>1, <2>1
<1>5. CASE UNCHANGED vars
  BY <1>1, <1>5 DEF vars
<1> QED BY <1>1, <1>2, <1>3, <1>4, <1>5 DEF Next

LEMMA RecoverServe ==
  ASSUME TypeInv, UniqueKeys, RecoverInv, [Next]_vars,
         untrimmed' = untrimmed \ {<<queue[t], msg[t].id>> : t \in Trims}
  PROVE  RecoverInv'
<1> SUFFICES ASSUME Limited, NEW q \in Queues, NEW i \in Ids
             PROVE  /\ IsFiniteSet(Trimming(q, i)')
                    /\ ScansBounded(q, i, MaxKeyUpdates)'
                    /\ \/ AtMost(q, i, {}, MaxKeyUpdates)'
                       \/ <<q, i>> \in untrimmed' /\ ~FailedTrim(q, i)'
  BY DEF RecoverInv, Limited
<1> DEFINE n == MaxKeyUpdates
<1>1. n \in Nat /\ n >= MaxKeyUpdates - 1
  BY DEF Limited
<1>2. /\ IsFiniteSet(Trimming(q, i)) /\ ScansBounded(q, i, n)
      /\ AtMost(q, i, {}, n) \/ (<<q, i>> \in untrimmed /\ ~FailedTrim(q, i))
  BY DEF RecoverInv
<1>3. StepKinds(q, i)
  BY KindNext
<1> HIDE DEF n
<1>4. /\ IsFiniteSet(Trimming(q, i)') /\ ScansBounded(q, i, n)'
      /\ \/ AtMost(q, i, {}, n) \/ Emptied(q, i)
         \/ \E t \in Threads : TrimmedBy(q, i, t)
         => AtMost(q, i, {}, n)'
  BY <1>1, <1>2, <1>3, BoundStep
<1>5. CASE AtMost(q, i, {}, n)
  BY <1>4, <1>5 DEF n
<1>6. CASE /\ <<q, i>> \in untrimmed /\ ~FailedTrim(q, i)
           /\ ~Emptied(q, i) /\ ~\E t \in Threads : TrimmedBy(q, i, t)
  <2>1. ~FailedTrim(q, i)'
    BY <1>6, FailedTrimStep
  <2>2. ASSUME NEW t \in Trims, <<q, i>> = <<queue[t], msg[t].id>> PROVE FALSE
    <3>1. t \in Threads /\ Trim(t) /\ pc[t] = "trim"
      BY <2>2, TrimsTrim DEF Trims
    <3>2. t \in Trimming(q, i)
      BY <1>6, <2>2, <3>1 DEF FailedTrim, Trimming
    <3> QED BY <1>6, <3>1, <3>2, KindTrim
  <2> QED BY <1>4, <1>6, <2>1, <2>2 DEF n
<1> QED BY <1>2, <1>4, <1>5, <1>6 DEF n

LEMMA RecoverNext ==
  ASSUME BaseInv, BaseInv', RecoverInv, [RestartNext]_allVars
  PROVE  RecoverInv'
<1>0. TypeInv /\ UniqueKeys /\ DiskInv
  BY DEF BaseInv
<1>1. CASE Serve
  BY <1>0, <1>1, RecoverServe DEF Serve
<1>2. CASE Flush \/ UNCHANGED allVars
  <2>1. UNCHANGED <<store, pc, queue, msg, batch, stale, untrimmed>>
    BY <1>2 DEF Flush, vars, allVars, restartVars
  <2>2. ASSUME NEW q \in Queues, NEW i \in Ids
        PROVE  /\ Trimming(q, i)' = Trimming(q, i) /\ Scanned(q, i)' = Scanned(q, i)
               /\ FailedTrim(q, i)' = FailedTrim(q, i)
               /\ \A T : Left(q, i, T)' = Left(q, i, T)
    BY <2>1 DEF Trimming, Scanned, FailedTrim, Left, Versions
  <2>3. ASSUME NEW q \in Queues, NEW i \in Ids, NEW T
        PROVE  AtMost(q, i, T, MaxKeyUpdates)' = AtMost(q, i, T, MaxKeyUpdates)
    BY <2>2 DEF AtMost
  <2>4. ASSUME NEW q \in Queues, NEW i \in Ids
        PROVE  ScansBounded(q, i, MaxKeyUpdates)' = ScansBounded(q, i, MaxKeyUpdates)
    BY <2>2, <2>3 DEF ScansBounded
  <2> QED BY <2>1, <2>2, <2>3, <2>4 DEF RecoverInv
<1>3. CASE Crash
  <2> SUFFICES ASSUME Limited, NEW q \in Queues, NEW i \in Ids
               PROVE  /\ IsFiniteSet(Trimming(q, i)')
                      /\ ScansBounded(q, i, MaxKeyUpdates)'
                      /\ \/ AtMost(q, i, {}, MaxKeyUpdates)'
                         \/ <<q, i>> \in untrimmed' /\ ~FailedTrim(q, i)'
    BY DEF RecoverInv
  <2>1. /\ \A t \in Threads : pc'[t] = "idle"
        /\ stale' = {} /\ store' = disk.store
    BY <1>3 DEF Crash, Forget, new, Procs
  <2>2. Trimming(q, i)' = {} /\ Scanned(q, i)' = {} /\ ~FailedTrim(q, i)'
    BY <2>1 DEF Trimming, Scanned, FailedTrim
  <2>3. ScansBounded(q, i, MaxKeyUpdates)'
    BY <2>2 DEF ScansBounded
  <2>4. Left(q, i, {})' = {m \in disk.store[q] : m.id = i}
    BY <2>1 DEF Left, Versions
  <2>5. (Trimming(q, i) \ {})' = {}
    BY <2>2
  <2>6. Cardinality((Trimming(q, i) \ {})') = 0
    BY <2>5, FS_EmptySet
  <2>7. CASE Cardinality({m \in disk.store[q] : m.id = i}) > MaxKeyUpdates
    <3>1. <<q, i>> \in untrimmed'
      BY <1>3, <2>7, QueueAssumption DEF Crash, Limited
    <3> QED BY <2>2, <2>3, <3>1, FS_EmptySet
  <2>8. CASE ~(Cardinality({m \in disk.store[q] : m.id = i}) > MaxKeyUpdates)
    <3>1. Cardinality({m \in disk.store[q] : m.id = i}) \in Nat
      <4>1. IsFiniteSet(disk.store[q])
        BY <1>0 DEF DiskInv, DiskType
      <4>2. {m \in disk.store[q] : m.id = i} \subseteq disk.store[q]
        OBVIOUS
      <4> QED BY <4>1, <4>2, CardSub
    <3>2. AtMost(q, i, {}, MaxKeyUpdates)'
      BY <2>4, <2>6, <2>8, <3>1 DEF AtMost, Limited
    <3> QED BY <2>2, <2>3, <3>2, FS_EmptySet
  <2> QED BY <2>7, <2>8
<1> QED BY <1>1, <1>2, <1>3 DEF RestartNext

\* For any number of workers, queues, ids and crashes: a crash between the
\* insert and the trim of send_to_queue leaves too many versions of an id at
\* most until the first send to it that trims after the restart.
THEOREM BoundRestored == RestartSpec => []RetentionRecovers
<1>1. RestartInit => RecoverInv
  <2> SUFFICES ASSUME RestartInit, Limited, NEW q \in Queues, NEW i \in Ids
               PROVE  /\ IsFiniteSet(Trimming(q, i))
                      /\ ScansBounded(q, i, MaxKeyUpdates)
                      /\ AtMost(q, i, {}, MaxKeyUpdates)
    BY DEF RecoverInv
  <2>1. Trimming(q, i) = {} /\ Scanned(q, i) = {} /\ Left(q, i, {}) = {}
    BY DEF RestartInit, Init, Trimming, Scanned, Left, Versions, Procs
  <2>2. Cardinality(Left(q, i, {})) = 0 /\ Cardinality(Trimming(q, i) \ {}) = 0
    BY <2>1, FS_EmptySet
  <2>3. AtMost(q, i, {}, MaxKeyUpdates)
    BY <2>2 DEF AtMost, Limited
  <2>4. ScansBounded(q, i, MaxKeyUpdates)
    BY <2>1 DEF ScansBounded
  <2> QED BY <2>1, <2>3, <2>4, FS_EmptySet
<1>2. BaseInv /\ RecoverInv /\ [RestartNext]_allVars => (BaseInv /\ RecoverInv)'
  BY BaseNext, RecoverNext
<1>3. RecoverInv => RetentionRecovers
  <2> SUFFICES ASSUME RecoverInv, MaxKeyUpdates \notin {0, NoLimit},
                      NEW q \in Queues, NEW i \in Ids,
                      Trimming(q, i) = {}, <<q, i>> \notin untrimmed
               PROVE  Cardinality(Versions(q, i)) <= MaxKeyUpdates
    BY DEF RetentionRecovers
  <2>1. Limited /\ MaxKeyUpdates \in Nat
    BY QueueAssumption DEF Limited
  <2>2. AtMost(q, i, {}, MaxKeyUpdates)
    BY <2>1 DEF RecoverInv
  <2> QED BY <2>1, <2>2, AtMostVersions
<1> QED BY <1>1, <1>2, <1>3, BaseInit, PTL DEF RestartSpec

-----------------------------------------------------------------------------
(* What was flushed stays.  A crash takes a message out of the tree when    *)
(* the image does not have it, and puts one back that was trimmed or        *)
(* deleted since: both must be accounted for, in the trees and in the       *)
(* image.                                                                   *)

\* What the crash would find superseded.
LoggedNewer(q, m) ==
  {a[2].seq : a \in {b \in logged.inserted : /\ b[1] = q
                                             /\ b[2].id = m.id
                                             /\ b[2].seq > m.seq}}

DiskSuperseded(q, m) ==
  MaxKeyUpdates # NoLimit /\ Cardinality(LoggedNewer(q, m)) >= MaxKeyUpdates - 1

DiskKept(a) ==
  a[2] \in disk.store[a[1]] \/ a \in logged.removed \/ DiskSuperseded(a[1], a[2])

DurableInv ==
  /\ \A q \in Queues : \A m \in disk.store[q] :
       <<q, m>> \in logged.inserted /\ \E g \in flushed : Numbered(g, q, m)
  /\ durable \subseteq Queues \X Sent
  /\ \A a \in durable : Kept(a) /\ DiskKept(a)

LEMMA DurableServe ==
  ASSUME BaseInv, BaseInv', KeepInv, DurableInv, [Next]_vars,
         UNCHANGED <<disk, flushed, logged, durable>>
  PROVE  DurableInv'
<1>0. TypeInv /\ TypeInv' /\ SequenceInv
  BY DEF BaseInv
<1>1. ASSUME NEW q \in Queues, NEW m \in disk'.store[q]
      PROVE  <<q, m>> \in logged'.inserted /\ \E g \in flushed' : Numbered(g, q, m)
  BY <1>1 DEF DurableInv
<1>2. ASSUME NEW a \in durable' PROVE Kept(a)' /\ DiskKept(a)'
  <2>1. a \in Queues \X Sent /\ Kept(a) /\ DiskKept(a)
    BY <1>2 DEF DurableInv
  <2>2. Kept(a)'
    BY <1>0, <2>1, KeptStep
  <2>3. DiskKept(a)'
    BY <2>1 DEF DiskKept, DiskSuperseded, LoggedNewer
  <2> QED BY <2>2, <2>3
<1> QED BY <1>1, <1>2 DEF DurableInv

LEMMA DurableFlush ==
  ASSUME BaseInv, KeepInv, DurableInv, Flush
  PROVE  DurableInv'
<1>1. /\ UNCHANGED <<store, inserted, removed>> /\ disk'.store = store
      /\ flushed' = generated /\ logged'.inserted = inserted /\ logged'.removed = removed
      /\ durable' = durable \cup UNION {{q} \X store[q] : q \in Queues}
  BY DEF Flush, Image, Past, vars
<1>2. store \in [Queues -> SUBSET Sent]
  BY WorkerTypes DEF BaseInv
<1>3. \A q, m : Superseded(q, m)' = Superseded(q, m) /\ DiskSuperseded(q, m)' = Superseded(q, m)
  BY <1>1 DEF Superseded, NewerThan, DiskSuperseded, LoggedNewer
<1>4. ASSUME NEW q \in Queues, NEW m \in disk'.store[q]
      PROVE  <<q, m>> \in logged'.inserted /\ \E g \in flushed' : Numbered(g, q, m)
  BY <1>1, <1>4 DEF KeepInv, StoreOK
<1>5. ASSUME NEW a \in durable'
      PROVE  a \in Queues \X Sent /\ Kept(a)
  <2>1. CASE a \in durable
    BY <2>1 DEF DurableInv
  <2>2. CASE a \notin durable
    <3>1. PICK q \in Queues : a \in {q} \X store[q]
      BY <1>1, <1>5, <2>2
    <3>2. a = <<q, a[2]>> /\ a[2] \in store[q] /\ a[1] = q
      BY <3>1
    <3> QED BY <1>2, <3>2 DEF Kept
  <2> QED BY <2>1, <2>2
<1>6. ASSUME NEW a \in durable' PROVE Kept(a)' /\ DiskKept(a)'
  <2>1. Kept(a)
    BY <1>5, <1>6
  <2> QED BY <1>1, <1>3, <2>1 DEF Kept, DiskKept
<1> QED BY <1>4, <1>5, <1>6 DEF DurableInv

LEMMA DurableCrash ==
  ASSUME BaseInv, BaseInv', DurableInv, Crash
  PROVE  KeepInv' /\ DurableInv'
<1>1. /\ store' = disk.store /\ generated' = flushed
      /\ inserted' = logged.inserted /\ removed' = logged.removed
      /\ UNCHANGED <<disk, flushed, logged, durable>>
      /\ \A t \in Threads : pc'[t] = "idle"
  BY DEF Crash, Forget, new, Procs
<1>2. \A q, m : /\ Superseded(q, m)' = DiskSuperseded(q, m)
               /\ DiskSuperseded(q, m)' = DiskSuperseded(q, m)
  BY <1>1 DEF Superseded, NewerThan, DiskSuperseded, LoggedNewer
<1>3. UniqueKeys'
  BY DEF BaseInv
<1>4. StoreOK'
  BY <1>1 DEF StoreOK, DurableInv
<1>5. NumberedOK' /\ BatchOK'
  BY <1>1 DEF NumberedOK, BatchOK
<1>6. \A a \in durable' : Kept(a)' /\ DiskKept(a)'
  BY <1>1, <1>2 DEF DurableInv, Kept, DiskKept
<1>7. DurableInv'
  BY <1>1, <1>6 DEF DurableInv
<1> QED BY <1>3, <1>4, <1>5, <1>7 DEF KeepInv

\* Where senders leave the sequence to the server and no id starts with
\* another, for any number of workers, queues, ids and crashes: a message
\* that was flushed is in its tree, before and after any crash, until a
\* delete or a close took it or as many newer versions as the trim skips were
\* inserted and survived; a send after the restart never gets its key.
THEOREM FlushedHistoryKept == ASSUME Plain PROVE RestartSpec => []FlushedKept
<1> DEFINE Inv == BaseInv /\ KeepInv /\ DurableInv
<1>1. RestartInit => Inv
  <2> SUFFICES ASSUME RestartInit PROVE Inv
    OBVIOUS
  <2>1. BaseInv /\ KeepInv
    BY BaseInit, KeepInit DEF RestartInit
  <2>2. disk.store = store /\ durable = {} /\ \A q \in Queues : store[q] = {}
    BY DEF RestartInit, Image, Init
  <2>3. DurableInv
    BY <2>2 DEF DurableInv
  <2> QED BY <2>1, <2>3
<1>2. Inv /\ [RestartNext]_allVars => Inv'
  <2> SUFFICES ASSUME Inv, [RestartNext]_allVars PROVE Inv'
    OBVIOUS
  <2>0. BaseInv'
    BY BaseNext
  <2>1. CASE [Next]_vars /\ UNCHANGED <<disk, flushed, logged, durable>>
    <3>1. KeepInv'
      BY <2>0, <2>1, KeepNext DEF BaseInv
    <3> QED BY <2>0, <2>1, <3>1, DurableServe
  <2>2. CASE Flush
    <3>1. [Next]_vars
      BY <2>2, FlushQuiet
    <3>2. KeepInv'
      BY <2>0, <3>1, KeepNext DEF BaseInv
    <3> QED BY <2>0, <2>2, <3>2, DurableFlush
  <2>3. CASE Crash
    BY <2>0, <2>3, DurableCrash
  <2> QED BY <2>1, <2>2, <2>3, ServeSteps
<1>3. Inv => FlushedKept
  BY DEF DurableInv, Kept, Superseded, FlushedKept
<1> HIDE DEF Inv
<1> QED BY <1>1, <1>2, <1>3, PTL DEF RestartSpec
=============================================================================
