------------------------------- MODULE FanOut -------------------------------
(***************************************************************************)
(* The HTTP side of the proxy (sonya-proxy/src/main.rs) over the queue     *)
(* servers of its ring: create, delete and close go to every shard, a send *)
(* and a long poll by id to the shard of the id, a queue-wide long poll to *)
(* every shard until the answers stop coming.                              *)
(*                                                                         *)
(* A shard is what sonya/src/main.rs makes visible of it over one queue.   *)
(* Its handlers run in one step, except that a send and a long poll look   *)
(* for the tree in one step and open it, creating it if need be, in the    *)
(* next, and that a long poll that waits reads its channel in a step of    *)
(* its own; module Queue has the rest of their interleavings, and the ids  *)
(* that are prefixes of others.  A request that the proxy has given up on  *)
(* is not gone: the shard may still handle it.                             *)
(***************************************************************************)
EXTENDS Integers, FiniteSets

CONSTANTS Shards, Ids,
          NoId,            \* a request for the whole queue
          Maglev(_, _),    \* the shard of an id, for a ring
          Default,         \* whether the queue is in config.default
          MaxKeyUpdates, NoLimit,   \* config.max_key_updates, or None
          Capacity,        \* the length of a broadcast channel
          Asked,           \* the requests that clients make
          Mixes,           \* bound: how many of each kind come together
          MaxRequests,     \* bound: client requests
          MaxFaults        \* bound: failed calls, 500s and changes of the ring

ASSUME FanOutAssumption ==
  /\ NoId \notin Ids
  /\ \A R \in SUBSET Shards, i \in Ids : R # {} => Maglev(R, i) \in R
  /\ Default \in BOOLEAN
  /\ NoLimit \notin Nat /\ MaxKeyUpdates \in Nat \cup {NoLimit}
  /\ Capacity \in Nat \ {0}
  /\ MaxRequests \in Nat /\ MaxFaults \in Nat

\* Requests are numbered as they come.  A message is the request that sent it.
Requests == 1..MaxRequests

Diagonal == {"create", "delete", "close"}
Ops ==
  [kind : {"create", "close"}, id : {NoId}, past : {FALSE}]
    \cup [kind : {"delete", "send"}, id : Ids, past : {FALSE}]
    \cup [kind : {"poll"}, id : Ids \cup {NoId}, past : BOOLEAN]

ASSUME AskedAssumption ==
  Asked \subseteq Ops /\ Mixes \subseteq [Diagonal \cup {"send", "poll"} -> Nat]

VARIABLES
  ring,      \* the registry
  open,      \* the shards on which the queue exists
  store,     \* the messages of each shard
  counter,   \* the last sequence of each id on each shard
  seq,       \* the sequence of a message, 0 before it has one
  behind,    \* the messages in its channel that a long poll has not read
  op,        \* what a request asks for
  targets,   \* the shards it was sent to
  call,      \* what has become of it on each
  body,      \* the messages in the answer of each
  lost,      \* the shards whose call has failed for the proxy
  rest,      \* `requests`: the shards still waited for
  got,       \* `results`
  answer,    \* what the client got
  accepted, faults, rings

\* History variables: no action reads them.
VARIABLES
  before,    \* before[r]: the requests answered when r came
  stamp,     \* stamp[r]: the ring changes when r came
  removed,   \* messages that a delete or a close has removed
  ended,     \* long polls whose channel a delete or a close dropped
  overrun,   \* long polls sent more than Capacity messages before they ran
  last,      \* the last diagonal request, or 0
  alone,     \* whether no other was under way on any shard
  reopened   \* shards whose tree was created anew by a late open_tree

shardVars == <<open, store, counter, seq>>
proxyVars == <<op, targets, rest, got, answer>>
callVars == <<call, behind, body, lost>>
boundVars == <<accepted, faults, rings>>
sinceVars == <<before, stamp>>
diagVars == <<last, alone>>
endVars == <<removed, ended, overrun>>
pastVars == <<sinceVars, endVars, diagVars, reopened>>
vars == <<ring, shardVars, proxyVars, callVars, boundVars, pastVars>>

Status == {"ok", "missing", "refused"}
Calls == {"none", "sent", "checked", "waiting"} \cup Status

NoOp == [kind |-> "none", id |-> NoId, past |-> FALSE]

\* The types of the state; a request without an answer has a shard to wait
\* for.
TypeOK ==
  /\ ring \subseteq Shards /\ open \subseteq Shards
  /\ store \in [Shards -> SUBSET Requests]
  /\ counter \in [Shards -> [Ids -> Nat]]
  /\ seq \in [Requests -> Nat]
  /\ op \in [Requests -> Ops \cup {NoOp}]
  /\ targets \in [Requests -> SUBSET Shards]
  /\ call \in [Requests -> [Shards -> Calls]]
  /\ behind \in [Requests -> [Shards -> 0..Capacity]]
  /\ body \in [Requests -> [Shards -> SUBSET Requests]]
  /\ lost \in [Requests -> SUBSET Shards]
  /\ rest \in [Requests -> SUBSET Shards]
  /\ got \in [Requests -> SUBSET Requests]
  /\ answer \in [Requests -> {"none", "gone", "dropped"} \cup Status]
  /\ accepted \in 0..MaxRequests /\ faults \in 0..MaxFaults /\ rings \in 0..MaxFaults
  /\ before \in [Requests -> SUBSET Requests]
  /\ stamp \in [Requests -> 0..MaxFaults]
  /\ removed \subseteq Requests /\ ended \subseteq Requests /\ overrun \subseteq Requests
  /\ last \in 0..MaxRequests /\ alone \in BOOLEAN /\ reopened \subseteq Shards
  /\ \A r \in 1..accepted : answer[r] = "none" => rest[r] # {}

Init ==
  /\ ring = Shards /\ open = IF Default THEN Shards ELSE {}
  /\ store = [s \in Shards |-> {}]
  /\ counter = [s \in Shards |-> [i \in Ids |-> 0]]
  /\ seq = [r \in Requests |-> 0]
  /\ op = [r \in Requests |-> NoOp]
  /\ targets = [r \in Requests |-> {}]
  /\ call = [r \in Requests |-> [s \in Shards |-> "none"]]
  /\ behind = [r \in Requests |-> [s \in Shards |-> 0]]
  /\ body = [r \in Requests |-> [s \in Shards |-> {}]]
  /\ lost = [r \in Requests |-> {}]
  /\ rest = [r \in Requests |-> {}]
  /\ got = [r \in Requests |-> {}]
  /\ answer = [r \in Requests |-> "none"]
  /\ accepted = 0 /\ faults = 0 /\ rings = 0
  /\ before = [r \in Requests |-> {}]
  /\ stamp = [r \in Requests |-> 0]
  /\ removed = {} /\ ended = {} /\ overrun = {}
  /\ last = 0 /\ alone = TRUE /\ reopened = {}

Answered == {r \in Requests : answer[r] # "none"}

\* Messages and long polls of id i, or of the whole queue for NoId.
Covers(i, j) == i = NoId \/ i = j

-----------------------------------------------------------------------------
(* The proxy takes a request.                                               *)

\* Discovery gives the registry another list.
UpdateRegistry(R) ==
  /\ faults + rings < MaxFaults /\ R # ring
  /\ rings' = rings + 1
  /\ ring' = R
  /\ UNCHANGED <<shardVars, proxyVars, callVars, accepted, faults, pastVars>>

\* get_all_addresses or get_address.
Addresses(o) ==
  IF o.kind \in Diagonal \/ (o.kind = "poll" /\ o.id = NoId)
  THEN ring ELSE {Maglev(ring, o.id)}

\* The diagonal calls that a shard has not handled yet.
UnderWay == {r \in Requests : op[r].kind \in Diagonal /\ \E s \in Shards : call[r][s] = "sent"}

\* The bound: with o the requests are still one of the mixes, or part of one.
Fits(o) ==
  \E mix \in Mixes : \A k \in DOMAIN mix :
    Cardinality({r \in Requests : op[r].kind = k}) + (IF k = o.kind THEN 1 ELSE 0) <= mix[k]

Remember(r, o) ==
  /\ before' = [before EXCEPT ![r] = Answered]
  /\ stamp' = [stamp EXCEPT ![r] = rings]
  /\ IF o.kind \in Diagonal
     THEN last' = r /\ alone' = (UnderWay = {}) /\ reopened' = {}
     ELSE UNCHANGED <<last, alone, reopened>>

\* Mutant of Accept: an empty ring is a list like any other.
AcceptNobody(o) ==
  LET r == accepted + 1
      T == IF ring = {} THEN {} ELSE Addresses(o)
  IN  /\ accepted < MaxRequests /\ Fits(o)
      /\ accepted' = r
      /\ op' = [op EXCEPT ![r] = o]
      /\ targets' = [targets EXCEPT ![r] = T]
      /\ rest' = [rest EXCEPT ![r] = T]
      /\ call' = [call EXCEPT ![r] = [s \in Shards |-> IF s \in T THEN "sent" ELSE "none"]]
      /\ Remember(r, o)
      /\ UNCHANGED <<ring, shardVars, got, answer, behind, body, lost, faults, rings, endVars>>

\* A handler reads the registry and sends its requests.  An empty registry is
\* a panic, and the connection is dropped.
Accept(o) ==
  LET r == accepted + 1
      T == IF ring = {} THEN {} ELSE Addresses(o)
  IN  /\ accepted < MaxRequests /\ Fits(o)
      /\ accepted' = r
      /\ op' = [op EXCEPT ![r] = o]
      /\ targets' = [targets EXCEPT ![r] = T]
      /\ rest' = [rest EXCEPT ![r] = T]
      /\ call' = [call EXCEPT ![r] = [s \in Shards |-> IF s \in T THEN "sent" ELSE "none"]]
      /\ answer' = [answer EXCEPT ![r] = IF ring = {} THEN "dropped" ELSE @]
      /\ Remember(r, o)
      /\ UNCHANGED <<ring, shardVars, got, behind, body, lost, faults, rings, endVars>>

-----------------------------------------------------------------------------
(* A shard handles it.                                                      *)

Reply(r, s, status) == call' = [call EXCEPT ![r][s] = status]

\* The long polls on s whose channel a message of id i goes to.
Waiting(s, i) == {p \in Requests : call[p][s] = "waiting" /\ Covers(op[p].id, i)}

\* open_tree creates a missing tree.
OpenLate(s) ==
  /\ open' = open \cup {s}
  /\ reopened' = IF s \in open THEN reopened ELSE reopened \cup {s}

\* check_tree_exists.
Check(r, s) ==
  /\ call[r][s] = "sent" /\ op[r].kind \in {"send", "poll"}
  /\ Reply(r, s, IF s \in open THEN "checked" ELSE "missing")
  /\ UNCHANGED <<ring, shardVars, proxyVars, behind, body, lost, boundVars, pastVars>>

\* What is left of the messages S when those of id i, with the sequences q,
\* are trimmed to the newest MaxKeyUpdates - 1.
Trim(S, i, q) ==
  {m \in S : \/ MaxKeyUpdates = NoLimit \/ op[m].id # i
              \/ Cardinality({n \in S : op[n].id = i /\ q[n] > q[m]}) < MaxKeyUpdates - 1}

\* The message r is put into the channels of who waits for it.  A long poll
\* reads one message, the first; if its channel overflows before it has, it
\* reads Lagged and answers with none.
Broadcast(r, s) ==
  LET W == Waiting(s, op[r].id)
      Over == {p \in W : behind[p][s] = Capacity}
  IN  /\ call' = [p \in Requests |-> IF p \in Over \cup {r} THEN [call[p] EXCEPT ![s] = "ok"]
                                                             ELSE call[p]]
      /\ behind' = [p \in Requests |-> IF p \in W \ Over THEN [behind[p] EXCEPT ![s] = @ + 1]
                                                          ELSE behind[p]]
      /\ body' = [p \in Requests |->
                   IF p \in Over THEN [body[p] EXCEPT ![s] = {}]
                   ELSE IF p \in W /\ behind[p][s] = 0 THEN [body[p] EXCEPT ![s] = {r}]
                   ELSE body[p]]
      /\ overrun' = overrun \cup Over

\* send_to_queue takes the next sequence, stores the message, trims its id and
\* hands the message to who waits for it.  With max_key_updates 0 nothing is
\* stored, and the tree not even opened.
Store(r, s) ==
  LET i == op[r].id
      q == [seq EXCEPT ![r] = counter[s][i] + 1]
  IN  /\ call[r][s] = "checked" /\ op[r].kind = "send"
      /\ counter' = [counter EXCEPT ![s][i] = @ + 1]
      /\ seq' = q
      /\ IF MaxKeyUpdates = 0
         THEN UNCHANGED <<open, store, reopened>>
         ELSE /\ store' = [store EXCEPT ![s] = Trim(@ \cup {r}, i, q)]
              /\ OpenLate(s)
      /\ Broadcast(r, s)
      /\ UNCHANGED <<ring, proxyVars, lost, boundVars, sinceVars, removed, ended, diagVars>>

History(r, s) ==
  IF op[r].past THEN {m \in store[s] : Covers(op[r].id, op[m].id)} ELSE {}

\* Mutant of Join: without max(1) an empty history is an empty answer.
JoinNoMax(r, s) ==
  /\ call[r][s] = "checked" /\ op[r].kind = "poll"
  /\ body' = [body EXCEPT ![r][s] = History(r, s)]
  /\ Reply(r, s, IF op[r].past THEN "ok" ELSE "waiting")
  /\ OpenLate(s)
  /\ UNCHANGED <<ring, store, counter, seq, proxyVars, behind, lost, boundVars, sinceVars,
                 endVars, diagVars>>

\* A long poll answers with the history it asked for, or waits for one
\* message.
Join(r, s) ==
  /\ call[r][s] = "checked" /\ op[r].kind = "poll"
  /\ body' = [body EXCEPT ![r][s] = History(r, s)]
  /\ Reply(r, s, IF History(r, s) # {} THEN "ok" ELSE "waiting")
  /\ OpenLate(s)
  /\ UNCHANGED <<ring, store, counter, seq, proxyVars, behind, lost, boundVars, sinceVars,
                 endVars, diagVars>>

\* A long poll that was waiting reads its first message.
Wake(r, s) ==
  /\ call[r][s] = "waiting" /\ behind[r][s] > 0
  /\ Reply(r, s, "ok")
  /\ UNCHANGED <<ring, shardVars, proxyVars, behind, body, lost, boundVars, pastVars>>

Create(r, s) ==
  /\ call[r][s] = "sent" /\ op[r].kind = "create"
  /\ open' = open \cup {s}
  /\ Reply(r, s, "ok")
  /\ UNCHANGED <<ring, store, counter, seq, proxyVars, behind, body, lost, boundVars, pastVars>>

\* delete_queue (id i) and close_queue (NoId) remove messages and drop the
\* channels that the long polls P wait on: these answer with the first message
\* that was already there, or with none.
Remove(r, s, P, i) ==
  LET M == {m \in store[s] : Covers(i, op[m].id)}
  IN  /\ call[r][s] = "sent"
      /\ store' = [store EXCEPT ![s] = @ \ M]
      /\ removed' = removed \cup M
      /\ call' = [p \in Requests |-> IF p \in P \cup {r} THEN [call[p] EXCEPT ![s] = "ok"]
                                                        ELSE call[p]]
      /\ ended' = ended \cup P
      /\ UNCHANGED <<ring, counter, seq, proxyVars, behind, body, lost, boundVars, sinceVars,
                     overrun, diagVars, reopened>>

\* A delete creates a missing tree.
Delete(r, s) ==
  /\ op[r].kind = "delete"
  /\ open' = open \cup {s}
  /\ Remove(r, s, {p \in Waiting(s, op[r].id) : op[p].id = op[r].id}, op[r].id)

Close(r, s) ==
  /\ op[r].kind = "close"
  /\ open' = open \ {s}
  /\ Remove(r, s, {p \in Requests : call[p][s] = "waiting"}, NoId)

\* An error of sled: 500.
Refuse(r, s) ==
  /\ call[r][s] \in {"sent", "checked"} /\ faults + rings < MaxFaults
  /\ faults' = faults + 1
  /\ Reply(r, s, "refused")
  /\ UNCHANGED <<ring, shardVars, proxyVars, behind, body, lost, accepted, rings, pastVars>>

-----------------------------------------------------------------------------
(* The proxy answers.                                                       *)

\* A call fails for the proxy: no connection, a broken one, a timeout.
Fail(r, s) ==
  /\ r \notin Answered /\ s \in rest[r] \ lost[r] /\ faults + rings < MaxFaults
  /\ faults' = faults + 1
  /\ lost' = [lost EXCEPT ![r] = @ \cup {s}]
  /\ UNCHANGED <<ring, shardVars, proxyVars, call, behind, body, accepted, rings, pastVars>>

\* The futures of r that are ready.
Ready(r) == {s \in rest[r] : s \in lost[r] \/ call[r][s] \in Status}

\* With its answer r drops the long polls that still wait.
Finish(r, status) ==
  /\ answer' = [answer EXCEPT ![r] = status]
  /\ call' = [call EXCEPT ![r] = [s \in Shards |->
                IF @[s] = "waiting" /\ status # "none" THEN "none" ELSE @[s]]]
  /\ UNCHANGED <<ring, shardVars, behind, body, lost, op, targets, boundVars, pastVars>>

\* What the one shard says is passed on, with its status.
Forward(r) ==
  /\ r \notin Answered
  /\ \E s \in Ready(r) :
       /\ rest' = [rest EXCEPT ![r] = {}]
       /\ got' = [got EXCEPT ![r] = IF s \in lost[r] THEN {} ELSE body[r][s]]
       /\ Finish(r, IF s \in lost[r] THEN "gone" ELSE call[r][s])

send_to_queue(r) == op[r].kind = "send" /\ Forward(r)
subscribe_queue_by_id_longpoll(r) == op[r].kind = "poll" /\ op[r].id # NoId /\ Forward(r)

\* Mutant of base_diagonal_proxy: one shard that answers is enough.
DiagonalAny(r) ==
  /\ r \notin Answered /\ op[r].kind \in Diagonal
  /\ Ready(r) = rest[r]
  /\ rest' = [rest EXCEPT ![r] = {}]
  /\ Finish(r, IF rest[r] \subseteq lost[r] THEN "gone" ELSE "ok")
  /\ UNCHANGED got

\* join_all: a transport error of one is an error, the status of an answer is
\* not looked at.
base_diagonal_proxy(r) ==
  /\ r \notin Answered /\ op[r].kind \in Diagonal
  /\ Ready(r) = rest[r]
  /\ rest' = [rest EXCEPT ![r] = {}]
  /\ Finish(r, IF lost[r] # {} THEN "gone" ELSE "ok")
  /\ UNCHANGED got

QueueWide(r) == r \notin Answered /\ op[r].kind = "poll" /\ op[r].id = NoId

\* Mutant of Collect: the answers that came before are overwritten.
CollectLast(r, s) ==
  /\ QueueWide(r) /\ s \in Ready(r) \ lost[r] /\ call[r][s] = "ok"
  /\ rest' = [rest EXCEPT ![r] = @ \ {s}]
  /\ got' = [got EXCEPT ![r] = body[r][s]]
  /\ Finish(r, IF rest[r] = {s} THEN "ok" ELSE "none")

\* select_all: an answer is added to the results.  A bad status is passed on
\* if it comes first; later the code looks at the first status again, and the
\* text does not parse as JSON.
Collect(r, s) ==
  /\ QueueWide(r) /\ s \in Ready(r)
  /\ rest' = [rest EXCEPT ![r] = @ \ {s}]
  /\ \/ /\ s \notin lost[r] /\ call[r][s] = "ok"
        /\ got' = [got EXCEPT ![r] = @ \cup body[r][s]]
        /\ Finish(r, IF rest[r] = {s} THEN "ok" ELSE "none")
     \/ /\ s \in lost[r] \/ call[r][s] # "ok"
        /\ got' = [got EXCEPT ![r] = {}]
        /\ Finish(r, IF s \in lost[r] \/ rest[r] # targets[r] THEN "gone" ELSE call[r][s])

\* Mutant of Timeout: every shard is waited for.
TimeoutNever(r) == FALSE /\ UNCHANGED vars

\* A second after the last answer the results are returned.
Timeout(r) ==
  /\ QueueWide(r) /\ rest[r] # targets[r]
  /\ Finish(r, "ok")
  /\ UNCHANGED <<rest, got>>

-----------------------------------------------------------------------------
Handle(r, s) ==
  \/ Check(r, s) \/ Store(r, s) \/ Join(r, s) \/ Wake(r, s)
  \/ Create(r, s) \/ Delete(r, s) \/ Close(r, s)

Proxy(r) ==
  \/ send_to_queue(r) \/ subscribe_queue_by_id_longpoll(r)
  \/ base_diagonal_proxy(r) \/ Timeout(r)
  \/ \E s \in Shards : Collect(r, s)

\* What happens by itself, once the requests are made.
Run ==
  \/ \E r \in Requests, s \in Shards : Handle(r, s)
  \/ \E r \in Requests : Proxy(r)

Next ==
  \/ Run
  \/ \E R \in SUBSET Shards : UpdateRegistry(R)
  \/ \E o \in Asked : Accept(o)
  \/ \E r \in Requests, s \in Shards : Refuse(r, s) \/ Fail(r, s)

\* A shard handles what reaches it, and the proxy polls what is ready.  These
\* steps are finitely many, so that one condition serves them all.
Fairness == WF_vars(Run)

Spec == Init /\ [][Next]_vars
FairSpec == Spec /\ Fairness

-----------------------------------------------------------------------------
(* Properties.                                                              *)

IsSent(m) == op[m].kind = "send" /\ answer[m] = "ok"

\* A diagonal request that the proxy calls a success and no shard refused.
Done(r) ==
  /\ op[r].kind \in Diagonal /\ answer[r] = "ok"
  /\ \A s \in targets[r] : call[r][s] # "refused"

\* After a create, delete or close that succeeded and ran alone, its shards
\* agree whether the queue exists, but for those where a send or a long poll
\* had found the queue before the close and opened its tree after it.
ShardsAgree ==
  last # 0 /\ alone /\ Done(last) =>
    \A s \in targets[last] \ reopened : (s \in open) = (op[last].kind # "close")

\* What a successful delete or close removes is not handed out again: no long
\* poll that comes later gets a message that was answered before it, if the
\* ring did not change from the send to the delete.
RemovedStaysRemoved ==
  \A m, r, p \in Requests :
    /\ IsSent(m) /\ m \in before[r] /\ stamp[m] = stamp[r]
    /\ Done(r) /\ op[r].kind # "create" /\ Covers(op[r].id, op[m].id)
    /\ r \in before[p]
    => m \notin got[p]

\* The messages of m's id that its shard took after m.
Newer(m) ==
  {n \in Requests : targets[n] = targets[m] /\ op[n].id = op[m].id /\ seq[n] > seq[m]}

\* The trim may have removed m.
Superseded(m) ==
  MaxKeyUpdates # NoLimit /\ Cardinality(Newer(m)) >= MaxKeyUpdates - 1

\* A long poll for the history finds every answered message on an unchanged
\* ring, through whichever shards the two were sent, unless it was deleted or
\* max_key_updates - 1 newer messages of its id were stored; only a shard that
\* was later than the second that the proxy waits for is left out.  (Run
\* retention_doc shows that the documentation promises one version more; with
\* max_key_updates 0 and 1 there is no history.)
HistoryReachable ==
  \A m, p \in Requests :
    /\ IsSent(m) /\ m \in before[p] /\ stamp[m] = stamp[p]
    /\ op[p].kind = "poll" /\ op[p].past /\ Covers(op[p].id, op[m].id)
    /\ answer[p] = "ok"
    => m \in got[p] \cup removed \/ Superseded(m) \/ targets[m] \subseteq rest[p]

\* An empty list means that, while the long poll was waiting, the queue was
\* closed, the id deleted, or a channel of the long poll overrun by more
\* messages than it holds.
EmptyOnlyWhenEnded ==
  \A p \in Requests :
    op[p].kind = "poll" /\ answer[p] = "ok" /\ got[p] = {} => p \in ended \cup overrun

\* Nobody is left waiting: every send, create, delete and close is answered,
\* and a long poll once one of its shards has answered it, though the others
\* may wait for ever.
NobodyLeftWaiting ==
  <>[](\A r \in (1..accepted) \ Answered :
         op[r].kind = "poll" /\ rest[r] = targets[r] /\ Ready(r) = {})
=============================================================================
