----------------------------- MODULE QueueProps -----------------------------
(***************************************************************************)
(* What a Sonya server promises to senders and subscribers, stated over    *)
(* the specification Queue.                                                *)
(***************************************************************************)
EXTENDS Queue, Functions

-----------------------------------------------------------------------------
(* Vocabulary.                                                              *)

\* Subscription c covers messages m of queue q.
Matches(c, q, m) == queue[c] = q /\ want[c].id \in {NoId, m.id}

Pending(c) == Range(inbox[c])
Seen(c) == prev[c] \cup replayed[c] \cup Pending(c) \cup Range(live[c])

\* The parameter `sequence` of c asks for m by number or asks for all.
Asked(c, m) ==
  \/ want[c].from.at = "first"
  \/ want[c].from.at = "id" /\ m.seq >= want[c].from.seq

\* Sends to id i of q that have inserted and have yet to trim.
Trimming(q, i) ==
  {t \in Threads : /\ queue[t] = q
                   /\ pc[t] \in {"scan", "trim"}
                   /\ msg[t].id = i
                   /\ t \notin stale}

Versions(q, i) == {m \in store[q] : m.id = i}

\* The sequences ever inserted for the id of m in q that are newer than m.
NewerThan(q, m) ==
  {a[2].seq : a \in {b \in inserted : /\ b[1] = q
                                      /\ b[2].id = m.id
                                      /\ b[2].seq > m.seq}}

GeneratedUids == {g.uid : g \in generated}

-----------------------------------------------------------------------------
(* Sequences.                                                               *)

\* generate_next_id hands out, per counter, exactly 1, 2, ..., each to one
\* send, however the sends interleave: no gap, no sequence given twice.
SequencesDense ==
  /\ \A k \in CounterKeys : {g.seq : g \in {h \in generated : h.key = k}} = 1..ids[k]
  /\ \A g, h \in generated : g.key = h.key /\ g.seq = h.seq => g = h

\* Order in real time is kept: a message whose send was answered before
\* another send of the same id arrived has the smaller generated sequence,
\* and no live stream (send_to_queue broadcasts last, under the lock) hands
\* out the later one first.
RealTimeOrder ==
  /\ \A a, b \in acked :
       /\ a[1] = b[1] /\ a[2].id = b[2].id
       /\ {a[2].uid, b[2].uid} \subseteq GeneratedUids
       /\ a[2].uid \in before[b[2].uid]
       => a[2].seq < b[2].seq
  /\ \A c \in Conns :
       LET s == live[c] \o inbox[c]
       IN  \A x, y \in DOMAIN s : x < y => s[y].uid \notin before[s[x].uid]

-----------------------------------------------------------------------------
(* The stored history.                                                      *)

\* Sends that overlap lose no more than sends one after the other.  Once
\* send_to_queue has answered, its message is in the tree until a delete or a
\* close takes it, or until as many newer versions of its id were inserted as
\* the trim skips, max_key_updates - 1: no concurrent send overwrites it or
\* trims it with a scan of its own.  (That the trim skips one version less
\* than the documentation says is VersionsKept below.)
TrimmedOnlyIfSuperseded ==
  MaxKeyUpdates # 0 =>
    \A a \in acked :
      \/ a[2] \in store[a[1]]
      \/ a \in removed
      \/ /\ MaxKeyUpdates # NoLimit
         /\ Cardinality(NewerThan(a[1], a[2])) >= MaxKeyUpdates - 1

\* An id never keeps more than max_key_updates versions once the sends that
\* inserted one have trimmed, whatever their scans and batches interleaved
\* with.
RetentionBound ==
  MaxKeyUpdates \notin {0, NoLimit} =>
    \A q \in Queues, i \in Ids :
      Trimming(q, i) = {} => Cardinality(Versions(q, i)) <= MaxKeyUpdates

-----------------------------------------------------------------------------
(* Subscriptions.                                                           *)

\* While its Receiver is open, a stream has handed out, or still holds,
\* every answered message it covers that was sent after it joined the
\* channel, and every stored one its `sequence` asks for; only sends in
\* flight between its history read and its joining may be missing.
NoLossOutsideWindow ==
  \A c \in Conns, a \in acked :
    LET m == a[2]
    IN  /\ rx[c] = "open"
        /\ Matches(c, a[1], m)
        /\ m.uid \notin overlap[c]
        /\ \/ m.uid > horizon[c]
           \/ Asked(c, m) /\ m.seq # U64Max /\ m \in store[a[1]]
        => m \in Seen(c)

\* No message reaches a stream twice, except that a send in flight when the
\* history was read may come once from the history and once live.
NoDuplicateOutsideWindow ==
  \A c \in Conns :
    /\ IsInjective(live[c] \o inbox[c])
    /\ \A m \in prev[c] \cup replayed[c] :
         m \in Pending(c) \cup Range(live[c]) => m.uid \in overlap[c]

-----------------------------------------------------------------------------
(* Liveness.                                                                *)

\* Every accepted request is answered: the handlers that wait for the mutex
\* get it, since delete_queue and close_queue always give it back.
RequestAnswered == \A t \in Threads : pc[t] # "idle" ~> pc[t] = "idle"

\* A stream whose channel was closed, or that lagged behind it, ends.
StreamCloses ==
  \A c \in Conns : rx[c] \in {"closed", "lagged"} ~> pc[c] = "ended"

\* A long poll that found history answers, even if nothing is ever sent.
LongpollAnswers ==
  \A c \in Conns :
    (pc[c] = "streaming" /\ want[c].kind = "longpoll" /\ prev[c] # {})
      ~> pc[c] = "ended"

-----------------------------------------------------------------------------
(* What the documentation says and the code does not do.                    *)

\* documentation/api/queue/websocket.md: with `sequence` set, a subscriber
\* "will be also sent all key updates with >={sequence_id}".
AllUpdatesSent ==
  \A c \in Conns, a \in acked :
    LET m == a[2]
    IN  /\ rx[c] = "open"
        /\ Matches(c, a[1], m)
        /\ Asked(c, m)
        /\ m \in store[a[1]]
        => m \in Seen(c)

\* documentation/sequence.md: an update cleans old versions "if the count of
\* all message versions is more than `max_key_updates`"; with max_key_updates
\* newer versions there are that many, with fewer there are not.
VersionsKept ==
  MaxKeyUpdates \notin {0, NoLimit} =>
    \A a \in acked :
      \/ a[2] \in store[a[1]]
      \/ a \in removed
      \/ Cardinality(NewerThan(a[1], a[2])) >= MaxKeyUpdates

\* documentation/api/queue/delete.md: "Delete all events from queue by id".
DeleteOnlyItsId ==
  [][\A t \in Threads : pc[t] = "d_apply" /\ pc'[t] = "idle" =>
       \A m \in store[queue[t]] \ store'[queue[t]] : m.id = msg[t].id]_vars
=============================================================================
