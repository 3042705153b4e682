------------------------------ MODULE Restart ------------------------------
(***************************************************************************)
(* The server of Queue with a database on disk (config.db_path): sled      *)
(* flushes in the background, a crash takes the server back to what was    *)
(* flushed, and Queue::new opens the database again.  sled recovers a      *)
(* prefix of its log, over all trees: an image of one moment.              *)
(***************************************************************************)
EXTENDS QueueProps

CONSTANT MaxCrashes  \* bound

ASSUME CrashAssumption == MaxCrashes \in Nat

VARIABLES disk, crashes

\* History variables: no action reads them.
VARIABLES
  flushed,   \* what generate_next_id had handed out at a flush
  logged,    \* what was inserted and removed until then
  durable,   \* <<q, m>> once m was flushed
  untrimmed  \* <<q, i>> with more than max_key_updates versions at a restart

restartVars == <<disk, crashes, flushed, logged, durable, untrimmed>>
allVars == <<vars, restartVars>>

Image == [trees |-> trees, store |-> store, ids |-> ids]
Past == [inserted |-> inserted, removed |-> removed]

RestartInit ==
  /\ Init
  /\ disk = Image /\ crashes = 0
  /\ flushed = {} /\ logged = Past /\ durable = {} /\ untrimmed = {}

\* The sends that trim in this step.
Trims == {t \in Threads : pc[t] = "trim" /\ pc'[t] = "broadcast"}

Serve ==
  /\ Next
  /\ untrimmed' = untrimmed \ {<<queue[t], msg[t].id>> : t \in Trims}
  /\ UNCHANGED <<disk, crashes, flushed, logged, durable>>

Flush ==
  /\ disk # Image
  /\ disk' = Image
  /\ flushed' = generated
  /\ logged' = Past
  /\ durable' = durable \cup UNION {{q} \X store[q] : q \in Queues}
  /\ UNCHANGED <<vars, crashes, untrimmed>>

\* The memory of the server is gone, and with it all channels, requests and
\* connections; clients may connect again.
Forget ==
  /\ channels' = [q \in Queues |-> {}]
  /\ lock' = Free
  /\ pc' = [p \in Procs |-> "idle"]
  /\ queue' = [p \in Procs |-> NoQueue]
  /\ stale' = {}
  /\ msg' = [t \in Threads |-> NoMsg]
  /\ batch' = [t \in Threads |-> {}]
  /\ want' = [c \in Conns |-> NoWant]
  /\ prev' = [c \in Conns |-> {}]
  /\ quota' = [c \in Conns |-> 0]
  /\ inbox' = [c \in Conns |-> <<>>]
  /\ rx' = [c \in Conns |-> "none"]
  /\ replayed' = [c \in Conns |-> {}]
  /\ live' = [c \in Conns |-> <<>>]
  /\ overlap' = [c \in Conns |-> {}]
  /\ horizon' = [c \in Conns |-> 0]

\* Mutant of new: the counters are not kept with the messages.
new_resets ==
  /\ trees' = disk.trees \cup DefaultQueues
  /\ store' = disk.store
  /\ ids' = [k \in CounterKeys |-> 0]

\* Queue::new: the database as it was flushed, and the default queues.
new ==
  /\ trees' = disk.trees \cup DefaultQueues
  /\ store' = disk.store
  /\ ids' = disk.ids

\* The process dies in the middle of anything, and starts again.  Sequences
\* handed out, and messages inserted or removed, since the last flush count
\* as if they had not been.
Crash ==
  /\ crashes < MaxCrashes
  /\ crashes' = crashes + 1
  /\ new
  /\ Forget
  /\ untrimmed' =
       IF MaxKeyUpdates = NoLimit THEN {}
       ELSE {p \in Queues \X Ids :
               Cardinality({m \in disk.store[p[1]] : m.id = p[2]}) > MaxKeyUpdates}
  /\ generated' = flushed
  /\ inserted' = logged.inserted
  /\ removed' = logged.removed
  /\ UNCHANGED <<reqVars, acked, before, disk, flushed, logged, durable>>

RestartNext == Serve \/ Flush \/ Crash

RestartSpec == RestartInit /\ [][RestartNext]_allVars

-----------------------------------------------------------------------------
(* Properties.                                                              *)

\* A message that was flushed is in the tree, across crashes, until a delete
\* or a close takes it or as many newer versions as the trim skips were
\* inserted, none of them lost in a crash: no send after a restart gets its
\* key, and no trim counts versions that the crash has taken.
FlushedKept ==
  \A a \in durable :
    \/ a[2] \in store[a[1]]
    \/ a \in removed
    \/ /\ MaxKeyUpdates # NoLimit
       /\ Cardinality(NewerThan(a[1], a[2])) >= MaxKeyUpdates - 1

\* A sequence that was flushed is not handed out again after a crash, not
\* even when its message is gone: who resumes after it misses nothing.
FlushedNeverReused ==
  \A g \in flushed, h \in generated : g.key = h.key /\ g.seq = h.seq => g = h

\* A crash between insert and trim leaves too many versions; the first send
\* of the id that trims after the restart removes them all.
RetentionRecovers ==
  MaxKeyUpdates \notin {0, NoLimit} =>
    \A q \in Queues, i \in Ids :
      Trimming(q, i) = {} /\ <<q, i>> \notin untrimmed =>
        Cardinality(Versions(q, i)) <= MaxKeyUpdates
=============================================================================
