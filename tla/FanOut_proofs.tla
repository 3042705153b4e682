---------------------------- MODULE FanOut_proofs ----------------------------
(***************************************************************************)
(* Machine-checked proofs about FanOut, for every value of its constants:  *)
(* any number of shards, ids and requests, any Maglev table, any           *)
(* max_key_updates and length of the channels, any number of failed calls  *)
(* and changes of the ring.                                                *)
(***************************************************************************)
EXTENDS FanOut, FiniteSetTheorems, TLAPS

USE DEF shardVars, proxyVars, callVars, boundVars, sinceVars, endVars, diagVars, pastVars

-----------------------------------------------------------------------------
(* The inductive invariant, in parts.                                       *)

\* Nothing is known of a request that has not come.
FreshOK ==
  \A r \in Requests : r > accepted =>
    /\ op[r] = NoOp /\ targets[r] = {} /\ rest[r] = {} /\ got[r] = {}
    /\ answer[r] = "none" /\ before[r] = {} /\ seq[r] = 0
    /\ \A s \in Shards : call[r][s] = "none" /\ body[r][s] = {} /\ behind[r][s] = 0

\* The shards that a request is sent to when the ring is R.
To(o, R) ==
  IF R = {} THEN {}
  ELSE IF o.kind \in Diagonal \/ (o.kind = "poll" /\ o.id = NoId)
       THEN R ELSE {Maglev(R, o.id)}

\* Requests with one stamp went to one ring.
RingOK ==
  /\ \A r \in 1..accepted :
       /\ op[r] \in Ops
       /\ stamp[r] <= rings
       /\ stamp[r] = rings => targets[r] = To(op[r], ring)
  /\ \A r, q \in 1..accepted : stamp[r] = stamp[q] =>
       \E R \in SUBSET Shards : targets[r] = To(op[r], R) /\ targets[q] = To(op[q], R)

\* What a call can be, by the kind of its request.
CallOK ==
  \A r \in Requests, s \in Shards :
    /\ call[r][s] # "none" => s \in targets[r]
    /\ call[r][s] \in {"checked", "missing"} => op[r].kind \in {"send", "poll"}
    /\ call[r][s] = "waiting" => op[r].kind = "poll"
    /\ call[r][s] \in {"sent", "checked"} => behind[r][s] = 0
    /\ call[r][s] = "waiting" => behind[r][s] = 0 \/ body[r][s] # {}

\* A message gets its sequence in the step that ends its call.
SeqOK ==
  \A n \in Requests : seq[n] # 0 => \A s \in Shards : call[n][s] \notin {"sent", "checked"}

\* A delete, a close or a trim may have taken m away.
Gone(m) == m \in removed \/ Superseded(m)

\* A shard stores the messages whose send it has handled, until it removes
\* them.
StoreOK ==
  \A m \in Requests, s \in Shards :
    /\ m \in store[s] => op[m].kind = "send" /\ call[m][s] = "ok"
    /\ op[m].kind = "send" /\ call[m][s] = "ok" => m \in store[s] \/ Gone(m)

\* Only answered requests are remembered.
BeforeOK ==
  \A r \in Requests : \A q \in before[r] : answer[q] # "none"

\* What the proxy has concluded from the calls of a request.
AnswerOK ==
  \A r \in Requests :
    /\ answer[r] = "none" /\ ~(op[r].kind = "poll" /\ op[r].id = NoId) =>
         rest[r] = targets[r]
    /\ answer[r] = "ok" /\ op[r].kind = "send" =>
         \A s \in targets[r] : call[r][s] = "ok"
    /\ answer[r] = "ok" /\ op[r].kind \in Diagonal =>
         \A s \in targets[r] : call[r][s] \in {"ok", "refused"}
    /\ answer[r] \in {"none", "ok"} /\ op[r].kind = "poll" =>
         \A s \in targets[r] \ rest[r] : call[r][s] = "ok" /\ body[r][s] \subseteq got[r]

\* r removes m, which was answered before r came.
Removes(r, m) ==
  /\ IsSent(m) /\ m \in before[r]
  /\ op[r].kind \in {"delete", "close"} /\ Covers(op[r].id, op[m].id)

\* Where a delete or a close has been handled, what came before it is gone.
RemovedOK ==
  /\ \A r, m \in Requests, s \in Shards :
       Removes(r, m) /\ call[r][s] = "ok" => m \notin store[s]
  /\ \A m, r, p \in Requests :
       Removes(r, m) /\ stamp[m] = stamp[r] /\ Done(r) /\ r \in before[p] =>
         m \notin got[p] /\ \A s \in Shards : m \notin body[p][s]

\* A long poll for the history has read it where it is waiting or answered.
ReadOK ==
  \A m, p \in Requests : \A s \in targets[m] :
    /\ IsSent(m) /\ m \in before[p]
    /\ op[p].kind = "poll" /\ op[p].past /\ Covers(op[p].id, op[m].id)
    /\ call[p][s] \in {"waiting", "ok"}
    => Gone(m) \/ (call[p][s] = "ok" /\ m \in body[p][s])

\* A shard answers a long poll with nothing only when it ends or overruns it,
\* and the proxy that has collected nothing else knows of such an end.
EmptyOK ==
  \A p \in Requests : op[p].kind = "poll" =>
    /\ \A s \in Shards : call[p][s] = "ok" /\ body[p][s] = {} => p \in ended \cup overrun
    /\ answer[p] = "none" /\ rest[p] # targets[p] /\ got[p] = {} =>
         p \in ended \cup overrun

\* While the last create, delete or close is alone, the shards that have
\* handled it show its effect.
AgreeOK ==
  /\ last # 0 => last <= accepted /\ op[last].kind \in Diagonal
  /\ alone =>
       /\ \A r \in Requests, s \in Shards :
            op[r].kind \in Diagonal /\ call[r][s] = "sent" => r = last
       /\ last # 0 =>
            \A s \in Shards \ reopened :
              call[last][s] = "ok" => (s \in open <=> op[last].kind # "close")

IInv ==
  /\ TypeOK /\ FreshOK /\ RingOK /\ CallOK /\ SeqOK /\ StoreOK /\ BeforeOK /\ AnswerOK
  /\ RemovedOK /\ ReadOK /\ EmptyOK /\ EmptyOnlyWhenEnded /\ AgreeOK

-----------------------------------------------------------------------------
(* What the steps do to call and body, entry by entry.                      *)

Replied(r, s, status) ==
  /\ call' \in [Requests -> [Shards -> Calls]]
  /\ \A p \in Requests, x \in Shards :
       call'[p][x] = IF p = r /\ x = s THEN status ELSE call[p][x]

Ended(r, s, P) ==
  /\ call' \in [Requests -> [Shards -> Calls]]
  /\ \A p \in Requests, x \in Shards :
       call'[p][x] = IF p \in P \cup {r} /\ x = s THEN "ok" ELSE call[p][x]

Overrun(r, s) == {p \in Waiting(s, op[r].id) : behind[p][s] = Capacity}

Published(r, s) ==
  /\ call' \in [Requests -> [Shards -> Calls]]
  /\ behind' \in [Requests -> [Shards -> 0..Capacity]]
  /\ body' \in [Requests -> [Shards -> SUBSET Requests]]
  /\ \A p \in Requests, x \in Shards :
       /\ call'[p][x] = IF p \in Overrun(r, s) \cup {r} /\ x = s THEN "ok" ELSE call[p][x]
       /\ behind'[p][x] = IF p \in Waiting(s, op[r].id) \ Overrun(r, s) /\ x = s
                          THEN behind[p][x] + 1 ELSE behind[p][x]
       /\ body'[p][x] = IF p \in Overrun(r, s) /\ x = s THEN {}
                        ELSE IF p \in Waiting(s, op[r].id) /\ behind[p][s] = 0 /\ x = s THEN {r}
                        ELSE body[p][x]

\* Reply writes one call.
LEMMA ReplyEffect ==
  ASSUME TypeOK, NEW r \in Requests, NEW s \in Shards, NEW status \in Calls,
         Reply(r, s, status)
  PROVE  Replied(r, s, status)
<1>1. call \in [Requests -> [Shards -> Calls]]
  BY DEF TypeOK
<1>2. call' = [call EXCEPT ![r] = [call[r] EXCEPT ![s] = status]]
  BY <1>1 DEF Reply
<1>3. [call[r] EXCEPT ![s] = status] \in [Shards -> Calls]
  BY <1>1
<1> QED
  BY <1>1, <1>2, <1>3 DEF Replied

\* Remove answers r and the long polls P on one shard.
LEMMA EndEffect ==
  ASSUME TypeOK, NEW r \in Requests, NEW s \in Shards, NEW P,
         call' = [p \in Requests |-> IF p \in P \cup {r} THEN [call[p] EXCEPT ![s] = "ok"]
                                                      ELSE call[p]]
  PROVE  Ended(r, s, P)
<1>1. call \in [Requests -> [Shards -> Calls]]
  BY DEF TypeOK
<1>2. \A p \in Requests : [call[p] EXCEPT ![s] = "ok"] \in [Shards -> Calls]
  BY <1>1 DEF Calls, Status
<1>3. \A p \in Requests :
        call'[p] = IF p \in P \cup {r} THEN [call[p] EXCEPT ![s] = "ok"] ELSE call[p]
  OBVIOUS
<1>4. call' \in [Requests -> [Shards -> Calls]]
  BY <1>1, <1>2
<1>5. ASSUME NEW p \in Requests, NEW x \in Shards
      PROVE call'[p][x] = IF p \in P \cup {r} /\ x = s THEN "ok" ELSE call[p][x]
  <2>1. [call[p] EXCEPT ![s] = "ok"][x] = IF x = s THEN "ok" ELSE call[p][x]
    BY <1>1
  <2> QED
    BY <1>3, <2>1
<1> QED
  BY <1>4, <1>5 DEF Ended

\* Broadcast answers r, and overruns or reaches those who wait.
LEMMA BroadcastEffect ==
  ASSUME TypeOK, NEW r \in Requests, NEW s \in Shards, Broadcast(r, s)
  PROVE  Published(r, s)
<1> USE FanOutAssumption
<1> DEFINE W == Waiting(s, op[r].id)
           Over == Overrun(r, s)
<1>1. /\ call \in [Requests -> [Shards -> Calls]]
      /\ behind \in [Requests -> [Shards -> 0..Capacity]]
      /\ body \in [Requests -> [Shards -> SUBSET Requests]]
  BY DEF TypeOK
<1>2. /\ call' = [p \in Requests |-> IF p \in Over \cup {r} THEN [call[p] EXCEPT ![s] = "ok"]
                                                        ELSE call[p]]
      /\ behind' = [p \in Requests |-> IF p \in W \ Over
                                      THEN [behind[p] EXCEPT ![s] = behind[p][s] + 1] ELSE behind[p]]
      /\ body' = [p \in Requests |->
                   IF p \in Over THEN [body[p] EXCEPT ![s] = {}]
                   ELSE IF p \in W /\ behind[p][s] = 0 THEN [body[p] EXCEPT ![s] = {r}]
                   ELSE body[p]]
  BY <1>1 DEF Broadcast, Overrun
<1>3. ASSUME NEW p \in W \ Over PROVE behind[p][s] + 1 \in 0..Capacity
  <2>1. p \in Requests /\ behind[p][s] # Capacity
    BY <1>3 DEF Overrun, Waiting
  <2>2. behind[p][s] \in 0..Capacity
    BY <1>1, <2>1
  <2> QED
    BY <2>1, <2>2
<1> HIDE DEF W, Over
<1>4. Ended(r, s, Over)
  BY <1>2, EndEffect
<1>5. ASSUME NEW p \in Requests
      PROVE  /\ behind'[p] \in [Shards -> 0..Capacity] /\ body'[p] \in [Shards -> SUBSET Requests]
             /\ \A x \in Shards :
                  /\ behind'[p][x] = IF p \in W \ Over /\ x = s THEN behind[p][x] + 1 ELSE behind[p][x]
                  /\ body'[p][x] = IF p \in Over /\ x = s THEN {}
                                   ELSE IF p \in W /\ behind[p][s] = 0 /\ x = s THEN {r}
                                   ELSE body[p][x]
  <2>1. /\ behind[p] \in [Shards -> 0..Capacity] /\ body[p] \in [Shards -> SUBSET Requests]
        /\ {} \in SUBSET Requests /\ {r} \in SUBSET Requests
    BY <1>1
  <2>2. behind'[p] = IF p \in W \ Over THEN [behind[p] EXCEPT ![s] = behind[p][s] + 1] ELSE behind[p]
    BY <1>2
  <2>3. body'[p] = IF p \in Over THEN [body[p] EXCEPT ![s] = {}]
                   ELSE IF p \in W /\ behind[p][s] = 0 THEN [body[p] EXCEPT ![s] = {r}]
                   ELSE body[p]
    BY <1>2
  <2>4. /\ behind'[p] \in [Shards -> 0..Capacity]
        /\ \A x \in Shards :
             behind'[p][x] = IF p \in W \ Over /\ x = s THEN behind[p][x] + 1 ELSE behind[p][x]
    BY <1>3, <2>1, <2>2
  <2>5. /\ body'[p] \in [Shards -> SUBSET Requests]
        /\ \A x \in Shards :
             body'[p][x] = IF p \in Over /\ x = s THEN {}
                           ELSE IF p \in W /\ behind[p][s] = 0 /\ x = s THEN {r}
                           ELSE body[p][x]
    BY <2>1, <2>3
  <2> QED
    BY <2>4, <2>5
<1>6. /\ behind' \in [Requests -> [Shards -> 0..Capacity]]
      /\ body' \in [Requests -> [Shards -> SUBSET Requests]]
  <2>1. behind' = [p \in Requests |-> behind'[p]] /\ body' = [p \in Requests |-> body'[p]]
    BY <1>2
  <2> QED
    BY <1>5, <2>1
<1> QED
  BY <1>4, <1>5, <1>6 DEF Published, Ended, W, Over

\* Finish ends the long polls of r that wait, if it is an answer.
LEMMA FinishEffect ==
  ASSUME TypeOK, NEW r \in Requests, NEW status, Finish(r, status)
  PROVE  /\ call' \in [Requests -> [Shards -> Calls]]
         /\ \A p \in Requests, x \in Shards :
              call'[p][x] = IF p = r /\ call[p][x] = "waiting" /\ status # "none"
                            THEN "none" ELSE call[p][x]
<1>1. call \in [Requests -> [Shards -> Calls]]
  BY DEF TypeOK
<1> DEFINE c == [s \in Shards |->
                   IF call[r][s] = "waiting" /\ status # "none" THEN "none" ELSE call[r][s]]
<1>2. call' = [call EXCEPT ![r] = c]
  BY <1>1 DEF Finish
<1>3. c \in [Shards -> Calls]
  BY <1>1 DEF Calls
<1> HIDE DEF c
<1>4. \A p \in Requests : call'[p] = IF p = r THEN c ELSE call[p]
  BY <1>1, <1>2
<1>5. call' \in [Requests -> [Shards -> Calls]]
  BY <1>1, <1>2, <1>3
<1>6. ASSUME NEW p \in Requests, NEW x \in Shards
      PROVE call'[p][x] = IF p = r /\ call[p][x] = "waiting" /\ status # "none"
                          THEN "none" ELSE call[p][x]
  <2>1. c[x] = IF call[r][x] = "waiting" /\ status # "none" THEN "none" ELSE call[r][x]
    BY DEF c
  <2>2. CASE p = r
    BY <1>4, <2>1, <2>2
  <2>3. CASE p # r
    BY <1>4, <2>3
  <2> QED
    BY <2>2, <2>3
<1> QED
  BY <1>5, <1>6

\* Join reads the history into one answer.
LEMMA JoinEffect ==
  ASSUME TypeOK, NEW r \in Requests, NEW s \in Shards, Join(r, s)
  PROVE  /\ call' \in [Requests -> [Shards -> Calls]]
         /\ body' \in [Requests -> [Shards -> SUBSET Requests]]
         /\ \A p \in Requests, x \in Shards :
              /\ call'[p][x] = IF p = r /\ x = s
                               THEN (IF History(r, s) # {} THEN "ok" ELSE "waiting")
                               ELSE call[p][x]
              /\ body'[p][x] = IF p = r /\ x = s THEN History(r, s) ELSE body[p][x]
<1>1. /\ body \in [Requests -> [Shards -> SUBSET Requests]]
      /\ History(r, s) \in SUBSET Requests
  BY DEF TypeOK, History
<1>2. (IF History(r, s) # {} THEN "ok" ELSE "waiting") \in Calls
  BY DEF Calls, Status
<1>3. body' = [body EXCEPT ![r] = [body[r] EXCEPT ![s] = History(r, s)]]
  BY <1>1 DEF Join
<1>4. [body[r] EXCEPT ![s] = History(r, s)] \in [Shards -> SUBSET Requests]
  BY <1>1
<1>5. /\ body' \in [Requests -> [Shards -> SUBSET Requests]]
      /\ \A p \in Requests, x \in Shards :
           body'[p][x] = IF p = r /\ x = s THEN History(r, s) ELSE body[p][x]
  BY <1>1, <1>3, <1>4
<1>6. Replied(r, s, IF History(r, s) # {} THEN "ok" ELSE "waiting")
  BY <1>2, ReplyEffect DEF Join
<1> QED
  BY <1>5, <1>6 DEF Replied

Accepted(o, r) ==
  /\ r = accepted + 1 /\ accepted' = r /\ o \in Ops
  /\ To(o, ring) \subseteq ring
  /\ op' = [op EXCEPT ![r] = o]
  /\ targets' = [targets EXCEPT ![r] = To(o, ring)]
  /\ rest' = [rest EXCEPT ![r] = To(o, ring)]
  /\ answer' = [answer EXCEPT ![r] = IF ring = {} THEN "dropped" ELSE answer[r]]
  /\ call' \in [Requests -> [Shards -> Calls]]
  /\ \A p \in Requests, x \in Shards :
       call'[p][x] = IF p = r THEN (IF x \in To(o, ring) THEN "sent" ELSE "none") ELSE call[p][x]
  /\ before' = [before EXCEPT ![r] = Answered]
  /\ stamp' = [stamp EXCEPT ![r] = rings]
  /\ \/ o.kind \in Diagonal /\ last' = r /\ alone' = (UnderWay = {}) /\ reopened' = {}
     \/ o.kind \notin Diagonal /\ UNCHANGED <<last, alone, reopened>>
  /\ UNCHANGED <<ring, shardVars, got, behind, body, lost, faults, rings, endVars>>

\* A request goes to shards of the ring.
LEMMA ToInRing ==
  ASSUME NEW R \in SUBSET Shards, NEW o \in Ops
  PROVE  To(o, R) \subseteq R
<1>1. CASE o.kind \in Diagonal \/ (o.kind = "poll" /\ o.id = NoId) \/ R = {}
  BY <1>1 DEF To
<1>2. CASE ~(o.kind \in Diagonal \/ (o.kind = "poll" /\ o.id = NoId)) /\ R # {}
  <2>1. o.id \in Ids
    BY <1>2 DEF Ops, Diagonal
  <2> QED
    BY <1>2, <2>1, FanOutAssumption DEF To
<1> QED
  BY <1>1, <1>2

\* Accept sends the new request to its targets.
LEMMA AcceptEffect ==
  ASSUME TypeOK, NEW o \in Asked, Accept(o)
  PROVE  \E r \in Requests : Accepted(o, r)
<1> DEFINE r == accepted + 1
           T == IF ring = {} THEN {} ELSE Addresses(o)
           c == [s \in Shards |-> IF s \in T THEN "sent" ELSE "none"]
<1>1. r \in Requests /\ o \in Ops /\ accepted' = r
  BY FanOutAssumption, AskedAssumption DEF Accept, TypeOK, Requests
<1>2. T = To(o, ring)
  BY DEF Addresses, To
<1>3. To(o, ring) \subseteq ring
  BY <1>1, ToInRing DEF TypeOK
<1>4. c \in [Shards -> Calls]
  BY DEF Calls
<1>5. /\ call \in [Requests -> [Shards -> Calls]]
      /\ call' = [call EXCEPT ![r] = c]
  BY DEF TypeOK, Accept
<1>6. /\ op' = [op EXCEPT ![r] = o]
      /\ targets' = [targets EXCEPT ![r] = To(o, ring)]
      /\ rest' = [rest EXCEPT ![r] = To(o, ring)]
      /\ answer' = [answer EXCEPT ![r] = IF ring = {} THEN "dropped" ELSE answer[r]]
      /\ UNCHANGED <<ring, shardVars, got, behind, body, lost, faults, rings, endVars>>
  BY <1>1, <1>2 DEF Accept, TypeOK
<1>10. /\ before' = [before EXCEPT ![r] = Answered]
       /\ stamp' = [stamp EXCEPT ![r] = rings]
       /\ \/ o.kind \in Diagonal /\ last' = r /\ alone' = (UnderWay = {}) /\ reopened' = {}
          \/ o.kind \notin Diagonal /\ UNCHANGED <<last, alone, reopened>>
  BY DEF Accept, Remember
<1>7. \A x \in Shards : c[x] = IF x \in To(o, ring) THEN "sent" ELSE "none"
  BY <1>2
<1> HIDE DEF c, T
<1>8. call' \in [Requests -> [Shards -> Calls]]
  BY <1>1, <1>4, <1>5
<1>9. \A p \in Requests : call'[p] = IF p = r THEN c ELSE call[p]
  BY <1>1, <1>5
<1> QED
  BY <1>1, <1>3, <1>6, <1>7, <1>8, <1>9, <1>10 DEF Accepted

-----------------------------------------------------------------------------
(* The steps of a shard and of the proxy, summed up.                        *)

Kept(p, x) ==
  call'[p][x] = call[p][x] /\ behind'[p][x] = behind[p][x] /\ body'[p][x] = body[p][x]

\* What the shard x may do to the call of p when it handles that of r.
Moves(r, p, x) ==
  \/ /\ p = r /\ behind'[p][x] = behind[p][x] /\ body'[p][x] = body[p][x]
     /\ \/ call[p][x] = "sent" /\ op[p].kind \in {"send", "poll"} /\ call'[p][x] \in {"checked", "missing"}
        \/ call[p][x] \in {"sent", "checked"} /\ call'[p][x] = "refused"
        \/ call[p][x] = "checked" /\ op[p].kind = "send" /\ call'[p][x] = "ok"
        \/ call[p][x] = "sent" /\ op[p].kind \in Diagonal /\ call'[p][x] = "ok"
  \/ /\ p = r /\ call[p][x] = "checked" /\ op[p].kind = "poll"
     /\ behind'[p][x] = behind[p][x] /\ call'[p][x] \in {"ok", "waiting"}
  \/ /\ call[p][x] = "waiting"
     /\ \/ call'[p][x] = "ok"
        \/ /\ call'[p][x] = "waiting"
           /\ body'[p][x] = IF behind[p][x] = 0 THEN {r} ELSE body[p][x]

Served(r, s) ==
  /\ UNCHANGED <<ring, proxyVars, lost, accepted, rings, sinceVars, diagVars>>
  /\ removed \subseteq removed' /\ ended \cup overrun \subseteq ended' \cup overrun'
  /\ \A p \in Requests, x \in Shards : Kept(p, x) \/ (x = s /\ Moves(r, p, x))

\* The proxy gets on with r, which stays unanswered if the status is "none".
Proxied(r, status, R, G) ==
  /\ answer[r] = "none"
  /\ answer' = [answer EXCEPT ![r] = status]
  /\ rest' = [rest EXCEPT ![r] = R] /\ R \subseteq rest[r]
  /\ got' = [got EXCEPT ![r] = G]
  /\ \A p \in Requests, x \in Shards :
       call'[p][x] = IF p = r /\ call[p][x] = "waiting" /\ status # "none"
                     THEN "none" ELSE call[p][x]
  /\ UNCHANGED <<ring, shardVars, behind, body, lost, op, targets, boundVars, pastVars>>

\* What the proxy makes of the calls of r.
Concludes(r, status, R, G) ==
  \/ /\ op[r].kind \in {"send", "poll"} /\ (op[r].kind = "poll" => op[r].id # NoId)
     /\ status # "none" /\ R = {}
     /\ status = "ok" => \E s \in rest[r] : call[r][s] = "ok" /\ G = body[r][s]
     /\ G = {} \/ \E s \in Shards : G = body[r][s]
  \/ /\ op[r].kind \in Diagonal /\ status # "none" /\ G = got[r]
     /\ status = "ok" => \A s \in rest[r] : call[r][s] \in Status
  \/ /\ op[r].kind = "poll" /\ op[r].id = NoId
     /\ \/ \E s \in rest[r] : /\ R = rest[r] \ {s} /\ status \in {"none", "ok"}
                             /\ call[r][s] = "ok" /\ G = got[r] \cup body[r][s]
        \/ G = {} /\ status \notin {"none", "ok"}
        \/ R = rest[r] /\ R # targets[r] /\ G = got[r] /\ status = "ok"

\* A shard's steps are Served, and keep the types.
LEMMA ServedStep ==
  ASSUME TypeOK, NEW r \in Requests, NEW s \in Shards, Handle(r, s) \/ Refuse(r, s)
  PROVE  Served(r, s) /\ TypeOK'
<1> USE FanOutAssumption
<1>1. CASE Check(r, s)
  <2>1. (IF s \in open THEN "checked" ELSE "missing") \in Calls
    BY DEF Calls, Status
  <2>2. Replied(r, s, IF s \in open THEN "checked" ELSE "missing")
    BY <1>1, <2>1, ReplyEffect DEF Check
  <2>3. TypeOK'
    BY <1>1, <2>2 DEF Check, Replied, TypeOK
  <2> QED
    BY <1>1, <2>2, <2>3 DEF Check, Replied, Served, Kept, Moves
<1>2. CASE Store(r, s)
  <2>1. Published(r, s)
    BY <1>2, BroadcastEffect DEF Store
  <2>2. TypeOK'
    <3>0. op[r] \in Ops \cup {NoOp} /\ op[r].kind = "send"
      BY <1>2 DEF Store, TypeOK
    <3>1. op[r].id \in Ids /\ counter[s] \in [Ids -> Nat]
      <4>1. op[r] \in Ops
        BY <3>0 DEF NoOp
      <4>2. op[r].id \in Ids
        BY <3>0, <4>1 DEF Ops
      <4> QED
        BY <4>2 DEF TypeOK
    <3>2. counter[s][op[r].id] + 1 \in Nat
      BY <3>1
    <3>3. counter' = [counter EXCEPT ![s] = [counter[s] EXCEPT ![op[r].id] = counter[s][op[r].id] + 1]]
      BY <1>2, <3>1 DEF Store, TypeOK
    <3>4. [counter[s] EXCEPT ![op[r].id] = counter[s][op[r].id] + 1] \in [Ids -> Nat]
      BY <3>1, <3>2
    <3>5. counter' \in [Shards -> [Ids -> Nat]]
      BY <3>3, <3>4 DEF TypeOK
    <3>6. seq' \in [Requests -> Nat]
      BY <1>2, <3>2 DEF Store, TypeOK
    <3>7. store' \in [Shards -> SUBSET Requests]
      <4>1. Trim(store[s] \cup {r}, op[r].id, seq') \in SUBSET Requests
        BY DEF Trim, TypeOK
      <4>2. store' = store \/ store' = [store EXCEPT ![s] = Trim(store[s] \cup {r}, op[r].id, seq')]
        BY <1>2 DEF Store, TypeOK
      <4>3. CASE store' = store
        BY <4>3 DEF TypeOK
      <4>4. CASE store' # store
        <5>1. PICK N \in SUBSET Requests : store' = [store EXCEPT ![s] = N]
          BY <4>1, <4>2, <4>4
        <5> QED
          BY <5>1 DEF TypeOK
      <4> QED
        BY <4>3, <4>4
    <3>8. open' \subseteq Shards /\ reopened' \subseteq Shards
      BY <1>2 DEF Store, OpenLate, TypeOK
    <3>9. overrun' \subseteq Requests
      BY <1>2 DEF Store, Broadcast, Waiting, TypeOK
    <3> QED
      BY <1>2, <2>1, <3>5, <3>6, <3>7, <3>8, <3>9 DEF Store, Published, TypeOK
  <2>3. ASSUME NEW p \in Requests, NEW x \in Shards PROVE Kept(p, x) \/ (x = s /\ Moves(r, p, x))
    <3>1. CASE x # s \/ (p # r /\ p \notin Waiting(s, op[r].id))
      <4>1. x # s \/ (p # r /\ p \notin Waiting(s, op[r].id) /\ p \notin Overrun(r, s))
        BY <3>1 DEF Overrun
      <4> QED
        BY <2>1, <4>1 DEF Published, Kept
    <3>2. CASE x = s /\ p = r
      <4>1. /\ p \notin Waiting(s, op[r].id) /\ p \notin Overrun(r, s)
            /\ call[p][x] = "checked" /\ op[p].kind = "send"
        BY <1>2, <3>2 DEF Store, Waiting, Overrun
      <4> QED
        BY <2>1, <3>2, <4>1 DEF Published, Moves
    <3>3. CASE x = s /\ p # r /\ p \in Waiting(s, op[r].id)
      <4>1. call[p][x] = "waiting"
        BY <3>3 DEF Waiting
      <4>2. CASE p \in Overrun(r, s)
        BY <2>1, <3>3, <4>1, <4>2 DEF Published, Moves
      <4>3. CASE p \notin Overrun(r, s)
        BY <2>1, <3>3, <4>1, <4>3 DEF Published, Moves
      <4> QED
        BY <4>2, <4>3
    <3> QED
      BY <3>1, <3>2, <3>3
  <2> QED
    BY <1>2, <2>2, <2>3 DEF Store, Broadcast, Served
<1>3. CASE Join(r, s)
  <2>1. TypeOK'
    <3>1. /\ call' \in [Requests -> [Shards -> Calls]]
          /\ body' \in [Requests -> [Shards -> SUBSET Requests]]
      BY <1>3, JoinEffect
    <3>2. open' \subseteq Shards /\ reopened' \subseteq Shards
      BY <1>3 DEF Join, OpenLate, TypeOK
    <3> QED
      BY <1>3, <3>1, <3>2 DEF Join, TypeOK
  <2>2. \A p \in Requests, x \in Shards : Kept(p, x) \/ (x = s /\ Moves(r, p, x))
    <3>0. behind' = behind
      BY <1>3 DEF Join
    <3>1. /\ \A p \in Requests, x \in Shards : ~(p = r /\ x = s) => Kept(p, x)
          /\ call'[r][s] \in {"ok", "waiting"}
      BY <1>3, <3>0, JoinEffect DEF Kept
    <3> QED
      BY <1>3, <3>0, <3>1 DEF Join, Moves
  <2> QED
    BY <1>3, <2>1, <2>2 DEF Join, Served
<1>4. CASE Create(r, s)
  <2>1. "ok" \in Calls
    BY DEF Calls, Status
  <2>2. Replied(r, s, "ok")
    BY <1>4, <2>1, ReplyEffect DEF Create
  <2>3. TypeOK'
    BY <1>4, <2>2 DEF Create, Replied, TypeOK
  <2> QED
    BY <1>4, <2>2, <2>3 DEF Create, Replied, Served, Kept, Moves, Diagonal
<1>5. ASSUME NEW P \in SUBSET Requests, NEW i, Remove(r, s, P, i), open' \subseteq Shards,
             op[r].kind \in Diagonal, \A p \in P : call[p][s] = "waiting"
      PROVE Served(r, s) /\ TypeOK'
  <2>1. Ended(r, s, P)
    BY <1>5, EndEffect DEF Remove
  <2>2. TypeOK'
    BY <1>5, <2>1 DEF Remove, Ended, TypeOK
  <2>3. behind' = behind /\ body' = body /\ call[r][s] = "sent"
    BY <1>5 DEF Remove
  <2>4. \A p \in Requests, x \in Shards : Kept(p, x) \/ (x = s /\ Moves(r, p, x))
    BY <1>5, <2>1, <2>3 DEF Ended, Kept, Moves
  <2> QED
    BY <1>5, <2>2, <2>4 DEF Remove, Served
<1>6. CASE Delete(r, s)
  <2>1. open' \subseteq Shards /\ op[r].kind \in Diagonal
    BY <1>6 DEF Delete, TypeOK, Diagonal
  <2> QED
    BY <1>5, <1>6, <2>1 DEF Delete, Waiting
<1>7. CASE Close(r, s)
  <2>1. open' \subseteq Shards /\ op[r].kind \in Diagonal
    BY <1>7 DEF Close, TypeOK, Diagonal
  <2> QED
    BY <1>5, <1>7, <2>1 DEF Close
<1>8. CASE Refuse(r, s)
  <2>1. "refused" \in Calls
    BY DEF Calls, Status
  <2>2. Replied(r, s, "refused")
    BY <1>8, <2>1, ReplyEffect DEF Refuse
  <2>3. TypeOK'
    BY <1>8, <2>2 DEF Refuse, Replied, TypeOK
  <2> QED
    BY <1>8, <2>2, <2>3 DEF Refuse, Replied, Served, Kept, Moves
<1>9. CASE Wake(r, s)
  <2>1. "ok" \in Calls
    BY DEF Calls, Status
  <2>2. Replied(r, s, "ok")
    BY <1>9, <2>1, ReplyEffect DEF Wake
  <2>3. TypeOK'
    BY <1>9, <2>2 DEF Wake, Replied, TypeOK
  <2> QED
    BY <1>9, <2>2, <2>3 DEF Wake, Replied, Served, Kept, Moves
<1> QED
  BY <1>1, <1>2, <1>3, <1>4, <1>6, <1>7, <1>8, <1>9 DEF Handle

\* The proxy's steps are Proxied, with one of its conclusions, and keep the
\* types.
LEMMA ProxiedStep ==
  ASSUME TypeOK, NEW r \in Requests, Proxy(r)
  PROVE  /\ \E status, R, G : Proxied(r, status, R, G) /\ Concludes(r, status, R, G)
         /\ TypeOK'
<1> USE FanOutAssumption
<1>0. ASSUME NEW status \in {"none", "gone", "dropped"} \cup Status,
             NEW R \in SUBSET rest[r], NEW G \in SUBSET Requests,
             answer[r] = "none", Finish(r, status),
             rest' = [rest EXCEPT ![r] = R], got' = [got EXCEPT ![r] = G],
             status = "none" => R # {}
      PROVE Proxied(r, status, R, G) /\ TypeOK'
  <2>1. Proxied(r, status, R, G)
    <3>1. \A p \in Requests, x \in Shards :
            call'[p][x] = IF p = r /\ call[p][x] = "waiting" /\ status # "none"
                          THEN "none" ELSE call[p][x]
      BY <1>0, FinishEffect
    <3>2. /\ answer' = [answer EXCEPT ![r] = status]
          /\ UNCHANGED <<ring, shardVars, behind, body, lost, op, targets, boundVars, pastVars>>
      BY <1>0 DEF Finish
    <3> QED
      BY <1>0, <3>1, <3>2 DEF Proxied
  <2>2. call' \in [Requests -> [Shards -> Calls]]
    BY <1>0, FinishEffect
  <2>3. rest' \in [Requests -> SUBSET Shards] /\ got' \in [Requests -> SUBSET Requests]
    BY <1>0 DEF TypeOK
  <2>4. answer' \in [Requests -> {"none", "gone", "dropped"} \cup Status]
    BY <1>0 DEF TypeOK, Finish
  <2>5. \A p \in 1..accepted : answer'[p] = "none" => rest'[p] # {}
    BY <1>0 DEF TypeOK, Finish, Requests
  <2> QED
    BY <1>0, <2>1, <2>2, <2>3, <2>4, <2>5 DEF TypeOK, Finish
<1>1. ASSUME Forward(r), op[r].kind \in {"send", "poll"}, op[r].kind = "poll" => op[r].id # NoId
      PROVE  /\ \E status, R, G : Proxied(r, status, R, G) /\ Concludes(r, status, R, G)
             /\ TypeOK'
  <2>1. PICK s \in Ready(r) :
          /\ rest' = [rest EXCEPT ![r] = {}]
          /\ got' = [got EXCEPT ![r] = IF s \in lost[r] THEN {} ELSE body[r][s]]
          /\ Finish(r, IF s \in lost[r] THEN "gone" ELSE call[r][s])
    BY <1>1 DEF Forward
  <2> DEFINE status == IF s \in lost[r] THEN "gone" ELSE call[r][s]
             G == IF s \in lost[r] THEN {} ELSE body[r][s]
  <2>2. s \in rest[r] /\ s \in Shards /\ status \in {"gone"} \cup Status /\ G \in SUBSET Requests
    BY DEF Ready, TypeOK
  <2>3. answer[r] = "none"
    BY <1>1 DEF Forward, Answered
  <2>4. status # "none"
    BY <2>2 DEF Status
  <2>5. Concludes(r, status, {}, G)
    BY <1>1, <2>2, <2>4 DEF Concludes
  <2> HIDE DEF status, G
  <2>6. Proxied(r, status, {}, G) /\ TypeOK'
    <3>1. Finish(r, status) /\ got' = [got EXCEPT ![r] = G]
      BY <2>1 DEF status, G
    <3> QED
      BY <1>0, <2>1, <2>2, <2>3, <2>4, <3>1
  <2> QED
    BY <2>5, <2>6
<1>2. CASE send_to_queue(r)
  BY <1>1, <1>2 DEF send_to_queue
<1>3. CASE subscribe_queue_by_id_longpoll(r)
  BY <1>1, <1>3 DEF subscribe_queue_by_id_longpoll
<1>4. CASE base_diagonal_proxy(r)
  <2> DEFINE status == IF lost[r] # {} THEN "gone" ELSE "ok"
  <2>1. status \in {"gone"} \cup Status /\ status # "none"
    BY DEF Status
  <2>2. /\ answer[r] = "none" /\ got[r] \in SUBSET Requests
        /\ got' = [got EXCEPT ![r] = got[r]]
    BY <1>4 DEF base_diagonal_proxy, Answered, TypeOK
  <2>3. Concludes(r, status, {}, got[r])
    BY <1>4, <2>1 DEF base_diagonal_proxy, Concludes, Ready
  <2>4. Finish(r, status) /\ rest' = [rest EXCEPT ![r] = {}]
    BY <1>4 DEF base_diagonal_proxy
  <2> HIDE DEF status
  <2>5. Proxied(r, status, {}, got[r]) /\ TypeOK'
    BY <1>0, <2>1, <2>2, <2>4
  <2> QED
    BY <2>3, <2>5
<1>5. CASE Timeout(r)
  <2>1. /\ answer[r] = "none" /\ got[r] \in SUBSET Requests /\ "ok" \in Status
        /\ got' = [got EXCEPT ![r] = got[r]] /\ rest' = [rest EXCEPT ![r] = rest[r]]
    BY <1>5 DEF Timeout, QueueWide, Answered, TypeOK, Status
  <2>2. Concludes(r, "ok", rest[r], got[r])
    BY <1>5 DEF Timeout, QueueWide, Concludes
  <2>3. Proxied(r, "ok", rest[r], got[r]) /\ TypeOK'
    BY <1>0, <1>5, <2>1 DEF Timeout
  <2> QED
    BY <2>2, <2>3
<1>6. ASSUME NEW s \in Shards, Collect(r, s)
      PROVE  /\ \E status, R, G : Proxied(r, status, R, G) /\ Concludes(r, status, R, G)
             /\ TypeOK'
  <2>1. /\ answer[r] = "none" /\ s \in rest[r] /\ rest' = [rest EXCEPT ![r] = rest[r] \ {s}]
        /\ op[r].kind = "poll" /\ op[r].id = NoId
        /\ got[r] \cup body[r][s] \in SUBSET Requests
    BY <1>6 DEF Collect, QueueWide, Answered, Ready, TypeOK
  <2>2. CASE s \notin lost[r] /\ call[r][s] = "ok"
    <3> DEFINE status == IF rest[r] = {s} THEN "ok" ELSE "none"
    <3>1. /\ status \in {"none", "ok"} /\ "ok" \in Status
          /\ status = "none" => rest[r] \ {s} # {}
      BY <2>1 DEF Status
    <3>2. Concludes(r, status, rest[r] \ {s}, got[r] \cup body[r][s])
      BY <2>1, <2>2, <3>1 DEF Concludes
    <3>3. Finish(r, status) /\ got' = [got EXCEPT ![r] = got[r] \cup body[r][s]]
      BY <1>6, <2>2 DEF Collect, TypeOK
    <3> HIDE DEF status
    <3>4. PICK R, G : R = rest[r] \ {s} /\ G = got[r] \cup body[r][s]
      OBVIOUS
    <3>5. /\ R \in SUBSET rest[r] /\ G \in SUBSET Requests
          /\ status \in {"none", "gone"} \cup Status /\ (status = "none" => R # {})
          /\ rest' = [rest EXCEPT ![r] = R] /\ got' = [got EXCEPT ![r] = G]
      BY <2>1, <3>1, <3>3, <3>4
    <3>6. Proxied(r, status, R, G) /\ TypeOK'
      BY <1>0, <2>1, <3>3, <3>5
    <3> QED
      BY <3>2, <3>4, <3>6
  <2>3. CASE s \in lost[r] \/ call[r][s] # "ok"
    <3> DEFINE status == IF s \in lost[r] \/ rest[r] # targets[r] THEN "gone" ELSE call[r][s]
    <3>1. status \in {"gone"} \cup Status /\ status # "none" /\ status # "ok"
      BY <1>6, <2>3 DEF Collect, Ready, Status
    <3>2. Concludes(r, status, rest[r] \ {s}, {})
      BY <2>1, <3>1 DEF Concludes
    <3>3. Finish(r, status) /\ got' = [got EXCEPT ![r] = {}]
      BY <1>6, <2>3 DEF Collect
    <3> HIDE DEF status
    <3>4. Proxied(r, status, rest[r] \ {s}, {}) /\ TypeOK'
      BY <1>0, <2>1, <3>1, <3>3
    <3> QED
      BY <3>2, <3>4
  <2> QED
    BY <2>2, <2>3
<1> QED
  BY <1>2, <1>3, <1>4, <1>5, <1>6 DEF Proxy

\* r is being stored on s.
Stores(r, s) == call[r][s] = "checked" /\ op[r].kind = "send" /\ call'[r][s] = "ok"

\* When r is stored on s, m has enough newer messages for the trim.
Outdone(r, s, m) ==
  /\ MaxKeyUpdates # NoLimit /\ Stores(r, s)
  /\ Cardinality({n \in store[s] \cup {r} : op[n].id = op[m].id /\ seq'[n] > seq'[m]})
       >= MaxKeyUpdates - 1

\* What it does to the messages of the shard s and to the answers.
Data(r, s) ==
  /\ \A n \in Requests : seq'[n] = seq[n] \/ (n = r /\ Stores(r, s))
  /\ \A x \in Shards : \A m \in store'[x] \ store[x] : m = r /\ x = s /\ Stores(r, s)
  /\ \A x \in Shards : \A m \in store[x] :
       m \in store'[x] \cup removed' \/ (x = s /\ Outdone(r, s, m))
  /\ Stores(r, s) => r \in store'[s] \/ Outdone(r, s, r)
  /\ op[r].kind \in {"delete", "close"} /\ call[r][s] = "sent" /\ call'[r][s] = "ok" =>
       \A m \in store'[s] : ~Covers(op[r].id, op[m].id)
  /\ \A p \in Requests, x \in Shards : \A m \in body'[p][x] \ body[p][x] :
       m \in store[x] \/ (m = r /\ x = s /\ Stores(r, s))
  /\ op[r].kind = "poll" /\ call[r][s] = "checked" /\ call'[r][s] \in {"ok", "waiting"} =>
       body'[r][s] = History(r, s) /\ (call'[r][s] = "ok" <=> body'[r][s] # {})
  /\ \A p \in Requests, x \in Shards :
       call[p][x] = "waiting" /\ call'[p][x] = "ok" /\ body'[p][x] = {} =>
         p \in ended' \cup overrun' \/ (behind[p][x] # 0 /\ body[p][x] = {})

\* What it does to the queue's tree.
Trees(r, s) ==
  \/ /\ op[r].kind \in Diagonal /\ call[r][s] = "sent" /\ reopened' = reopened
     /\ open' = IF op[r].kind = "close" THEN open \ {s} ELSE open \cup {s}
  \/ /\ op[r].kind \in Diagonal /\ call[r][s] = "sent" => call'[r][s] # "ok"
     /\ reopened \subseteq reopened'
     /\ open' = open \/ (open' = open \cup {s} /\ s \in open \cup reopened')

\* There are finitely many requests.
LEMMA FiniteRequests ==
  ASSUME NEW S \in SUBSET Requests
  PROVE  /\ Cardinality(S) \in Nat
         /\ \A T \in SUBSET S : Cardinality(T) \in Nat /\ Cardinality(T) <= Cardinality(S)
<1>1. IsFiniteSet(Requests)
  BY FS_Interval, FanOutAssumption DEF Requests
<1>2. IsFiniteSet(S)
  BY <1>1, FS_Subset
<1>3. \A T \in SUBSET S : IsFiniteSet(T) /\ Cardinality(T) <= Cardinality(S)
  BY <1>2, FS_Subset
<1> QED
  BY <1>2, <1>3, FS_CardinalityType

\* A shard's steps have these effects.
LEMMA DataStep ==
  ASSUME TypeOK, NEW r \in Requests, NEW s \in Shards, Handle(r, s) \/ Refuse(r, s)
  PROVE  Data(r, s) /\ Trees(r, s)
<1> USE DEF Diagonal
<1>1. CASE Check(r, s)
  <2>1. (IF s \in open THEN "checked" ELSE "missing") \in Calls
    BY DEF Calls, Status
  <2>2. Replied(r, s, IF s \in open THEN "checked" ELSE "missing")
    BY <1>1, <2>1, ReplyEffect DEF Check
  <2> QED
    BY <1>1, <2>2 DEF Check, Replied, Data, Stores, Trees
<1>2. CASE Store(r, s)
  <2> USE FanOutAssumption
  <2> DEFINE i == op[r].id
             S == store[s] \cup {r}
             L(m) == {n \in S : op[n].id = i /\ seq'[n] > seq'[m]}
  <2>1. Published(r, s)
    BY <1>2, BroadcastEffect DEF Store
  <2>2. Stores(r, s)
    BY <1>2, <2>1 DEF Store, Published, Stores
  <2>3. /\ \A n \in Requests : seq'[n] = seq[n] \/ n = r
        /\ seq' = [seq EXCEPT ![r] = counter[s][i] + 1]
    BY <1>2 DEF Store, TypeOK
  <2>4. \A m \in S : Cardinality(L(m)) \in Nat
    <3>1. S \in SUBSET Requests
      BY DEF TypeOK
    <3> QED
      BY <3>1, FiniteRequests
  <2>5. \A x \in Shards : x # s => store'[x] = store[x]
    BY <1>2 DEF Store, TypeOK
  <2>6. /\ store'[s] \subseteq S
        /\ \A m \in S : m \in store'[s] \/ Outdone(r, s, m)
    <3>1. CASE MaxKeyUpdates = 0
      <4>1. store' = store /\ MaxKeyUpdates # NoLimit
        BY <1>2, <3>1 DEF Store
      <4>2. Outdone(r, s, r)
        BY <2>2, <2>4, <3>1, <4>1 DEF Outdone
      <4> QED
        BY <4>1, <4>2
    <3>2. CASE MaxKeyUpdates # 0
      <4>1. store'[s] = Trim(S, i, seq')
        BY <1>2, <3>2, <2>3 DEF Store, TypeOK
      <4>2. ASSUME NEW m \in S, m \notin store'[s]
            PROVE  Outdone(r, s, m)
        <5>1. /\ MaxKeyUpdates # NoLimit /\ op[m].id = i
              /\ ~(Cardinality(L(m)) < MaxKeyUpdates - 1)
          BY <4>1, <4>2 DEF Trim
        <5>2. Cardinality(L(m)) \in Nat /\ MaxKeyUpdates \in Nat
          BY <2>4, <5>1
        <5>3. Cardinality(L(m)) >= MaxKeyUpdates - 1
          BY <5>1, <5>2
        <5> QED
          BY <2>2, <5>1, <5>3 DEF Outdone
      <4>3. store'[s] \subseteq S
        BY <4>1 DEF Trim
      <4> QED
        BY <4>2, <4>3
    <3> QED
      BY <3>1, <3>2
  <2> HIDE DEF S, L, i
  <2>7. ASSUME NEW p \in Requests, NEW x \in Shards
        PROVE  /\ \A m \in body'[p][x] \ body[p][x] : m = r /\ x = s
               /\ call[p][x] = "waiting" /\ call'[p][x] = "ok" => p \in Overrun(r, s)
    <3>1. /\ body'[p][x] = {} \/ (body'[p][x] = {r} /\ x = s) \/ body'[p][x] = body[p][x]
          /\ call'[p][x] = IF p \in Overrun(r, s) \cup {r} /\ x = s THEN "ok" ELSE call[p][x]
      BY <2>1 DEF Published
    <3>2. p = r /\ x = s => call[p][x] = "checked"
      BY <2>2 DEF Stores
    <3> QED
      BY <3>1, <3>2
  <2>8. overrun' = overrun \cup Overrun(r, s)
    BY <1>2 DEF Store, Broadcast, Overrun
  <2>9. op[r].kind \notin {"delete", "close", "poll"}
    BY <2>2 DEF Stores
  <2>10. /\ \A x \in Shards : \A m \in store'[x] \ store[x] : m = r /\ x = s
         /\ \A x \in Shards : \A m \in store[x] : m \in store'[x] \/ (x = s /\ Outdone(r, s, m))
         /\ r \in store'[s] \/ Outdone(r, s, r)
    BY <2>5, <2>6 DEF S
  <2>11. Data(r, s)
    BY <2>2, <2>3, <2>7, <2>8, <2>9, <2>10 DEF Data
  <2>12. Trees(r, s)
    BY <1>2 DEF Store, OpenLate, Trees
  <2> QED
    BY <2>11, <2>12
<1>3. CASE Join(r, s)
  <2>1. History(r, s) \subseteq store[s]
    BY DEF History
  <2>2. /\ \A p \in Requests, x \in Shards :
             ~(p = r /\ x = s) => call'[p][x] = call[p][x] /\ body'[p][x] = body[p][x]
        /\ body'[r][s] = History(r, s)
        /\ call'[r][s] = IF History(r, s) # {} THEN "ok" ELSE "waiting"
    BY <1>3, JoinEffect
  <2>3. Data(r, s)
    BY <1>3, <2>1, <2>2 DEF Join, Data, Stores
  <2>4. Trees(r, s)
    BY <1>3 DEF Join, OpenLate, Trees
  <2> QED
    BY <2>3, <2>4
<1>4. CASE Create(r, s)
  <2>1. "ok" \in Calls
    BY DEF Calls, Status
  <2>2. Replied(r, s, "ok")
    BY <1>4, <2>1, ReplyEffect DEF Create
  <2> QED
    BY <1>4, <2>2 DEF Create, Replied, Data, Stores, Trees
<1>5. ASSUME NEW P \in SUBSET Requests, NEW i, Remove(r, s, P, i), op[r].kind \in {"delete", "close"},
             \A p \in P : call[p][s] = "waiting", i \in {op[r].id, NoId}
      PROVE Data(r, s)
  <2>2. Ended(r, s, P)
    BY <1>5, EndEffect DEF Remove
  <2>3. /\ \A x \in Shards : store'[x] \subseteq store[x] /\ store[x] \subseteq store'[x] \cup removed'
        /\ \A m \in store'[s] : ~Covers(i, op[m].id)
    BY <1>5 DEF Remove, TypeOK
  <2>4. ended' = ended \cup P
    BY <1>5 DEF Remove
  <2>5. \A m : ~Covers(i, op[m].id) => ~Covers(op[r].id, op[m].id)
    BY <1>5 DEF Covers
  <2>6. /\ \A p \in Requests, x \in Shards :
             /\ call[p][x] = "waiting" /\ call'[p][x] = "ok" => p \in P
             /\ body'[p][x] = body[p][x]
        /\ call[r][s] = "sent" /\ seq' = seq
    BY <1>5, <2>2 DEF Ended, Remove
  <2> QED
    BY <1>5, <2>3, <2>4, <2>5, <2>6 DEF Data, Stores
<1>6. CASE Delete(r, s)
  <2>1. Data(r, s)
    BY <1>5, <1>6 DEF Delete, Waiting
  <2>2. Trees(r, s)
    BY <1>6 DEF Delete, Remove, Trees
  <2> QED
    BY <2>1, <2>2
<1>7. CASE Close(r, s)
  <2>1. Data(r, s)
    BY <1>5, <1>7 DEF Close
  <2>2. Trees(r, s)
    BY <1>7 DEF Close, Remove, Trees
  <2> QED
    BY <2>1, <2>2
<1>8. CASE Refuse(r, s)
  <2>1. "refused" \in Calls
    BY DEF Calls, Status
  <2>2. Replied(r, s, "refused")
    BY <1>8, <2>1, ReplyEffect DEF Refuse
  <2> QED
    BY <1>8, <2>2 DEF Refuse, Replied, Data, Stores, Trees
<1>9. CASE Wake(r, s)
  <2>1. "ok" \in Calls
    BY DEF Calls, Status
  <2>2. Replied(r, s, "ok")
    BY <1>9, <2>1, ReplyEffect DEF Wake
  <2>3. Data(r, s)
    <3>1. behind[r][s] # 0 /\ call[r][s] = "waiting"
      BY <1>9, FanOutAssumption DEF Wake, TypeOK
    <3>2. store' = store /\ seq' = seq /\ body' = body
      BY <1>9 DEF Wake
    <3> QED
      BY <2>2, <3>1, <3>2 DEF Replied, Data, Stores
  <2>4. Trees(r, s)
    BY <1>9, <2>2 DEF Wake, Trees
  <2> QED
    BY <2>3, <2>4
<1> QED
  BY <1>1, <1>2, <1>3, <1>4, <1>6, <1>7, <1>8, <1>9 DEF Handle

\* The steps that touch neither requests nor shards.
Idle == UNCHANGED <<shardVars, proxyVars, call, behind, body, accepted, pastVars>>

\* There are four kinds of step.
LEMMA StepCases ==
  ASSUME [Next]_vars
  PROVE  \/ \E r \in Requests, s \in Shards : Handle(r, s) \/ Refuse(r, s)
         \/ \E r \in Requests : Proxy(r)
         \/ \E o \in Asked : Accept(o)
         \/ Idle
<1>1. ASSUME NEW r \in Requests, NEW s \in Shards, Fail(r, s) PROVE Idle
  BY <1>1 DEF Fail, Idle
<1>2. ASSUME NEW R \in SUBSET Shards, UpdateRegistry(R) PROVE Idle
  BY <1>2 DEF UpdateRegistry, Idle
<1>3. CASE UNCHANGED vars
  BY <1>3 DEF Idle, vars
<1> QED
  BY <1>1, <1>2, <1>3 DEF Next, Run

\* Every step keeps the types.
LEMMA TypeStep == TypeOK /\ [Next]_vars => TypeOK'
<1> USE FanOutAssumption
<1> SUFFICES ASSUME TypeOK, [Next]_vars PROVE TypeOK'
  OBVIOUS
<1>1. ASSUME NEW r \in Requests, NEW s \in Shards, Handle(r, s) \/ Refuse(r, s) PROVE TypeOK'
  BY <1>1, ServedStep
<1>2. ASSUME NEW r \in Requests, Proxy(r) PROVE TypeOK'
  BY <1>2, ProxiedStep
<1>3. ASSUME NEW r \in Requests, NEW s \in Shards, Fail(r, s) PROVE TypeOK'
  BY <1>3 DEF Fail, TypeOK
<1>4. ASSUME NEW R \in SUBSET Shards, UpdateRegistry(R) PROVE TypeOK'
  BY <1>4 DEF UpdateRegistry, TypeOK
<1>5. ASSUME NEW o \in Asked, Accept(o) PROVE TypeOK'
  <2>1. PICK r \in Requests : Accepted(o, r)
    BY <1>5, AcceptEffect
  <2>2. To(o, ring) \subseteq Shards /\ (ring # {} => To(o, ring) # {})
    <3>1. To(o, ring) \subseteq ring /\ ring \subseteq Shards
      BY <2>1 DEF Accepted, TypeOK
    <3>2. ring # {} => To(o, ring) # {}
      BY DEF To
    <3> QED
      BY <3>1, <3>2
  <2>3. /\ targets' \in [Requests -> SUBSET Shards] /\ rest' \in [Requests -> SUBSET Shards]
        /\ call' \in [Requests -> [Shards -> Calls]] /\ accepted' \in 0..MaxRequests
    <3>1. targets' \in [Requests -> SUBSET Shards]
      BY <2>1, <2>2 DEF TypeOK, Accepted
    <3>2. rest' \in [Requests -> SUBSET Shards]
      BY <2>1, <2>2 DEF TypeOK, Accepted
    <3>3. call' \in [Requests -> [Shards -> Calls]]
      BY <2>1 DEF Accepted
    <3>4. accepted' \in 0..MaxRequests
      BY <2>1 DEF TypeOK, Accepted, Requests
    <3> QED
      BY <3>1, <3>2, <3>3, <3>4
  <2>4. /\ op' \in [Requests -> Ops \cup {NoOp}]
        /\ answer' \in [Requests -> {"none", "gone", "dropped"} \cup Status]
    BY <2>1 DEF TypeOK, Accepted
  <2>5. before' \in [Requests -> SUBSET Requests] /\ stamp' \in [Requests -> 0..MaxFaults]
    BY <2>1 DEF TypeOK, Accepted, Answered
  <2>6. last' \in 0..MaxRequests /\ alone' \in BOOLEAN /\ reopened' \subseteq Shards
    <3>1. alone' \in BOOLEAN
      BY <2>1 DEF TypeOK, Accepted
    <3> QED
      BY <2>1, <3>1 DEF TypeOK, Accepted, Requests
  <2>7. \A p \in 1..accepted' : answer'[p] = "none" => rest'[p] # {}
    <3>1. \A p \in 1..accepted' : p \in Requests /\ (p = r \/ p \in 1..accepted)
      BY <2>1 DEF TypeOK, Accepted, Requests
    <3>2. answer'[r] = "none" => rest'[r] # {}
      BY <2>1, <2>2 DEF TypeOK, Accepted
    <3>3. \A p \in Requests : p # r => answer'[p] = answer[p] /\ rest'[p] = rest[p]
      BY <2>1 DEF TypeOK, Accepted
    <3> QED
      BY <3>1, <3>2, <3>3 DEF TypeOK
  <2> QED
    BY <2>1, <2>3, <2>4, <2>5, <2>6, <2>7 DEF TypeOK, Accepted
<1>6. CASE UNCHANGED vars
  BY <1>6 DEF vars, TypeOK
<1> QED
  BY <1>1, <1>2, <1>3, <1>4, <1>5, <1>6 DEF Next, Run

-----------------------------------------------------------------------------
(* Every step keeps every part.                                             *)

\* A step is about requests that have come.
LEMMA FreshStep == IInv /\ [Next]_vars => FreshOK'
<1> SUFFICES ASSUME IInv, [Next]_vars PROVE FreshOK'
  OBVIOUS
<1>0. TypeOK /\ TypeOK'
  BY TypeStep DEF IInv
<1>1. ASSUME NEW r \in Requests, NEW s \in Shards, Served(r, s), Data(r, s), Trees(r, s)
      PROVE FreshOK'
  <2>1. UNCHANGED <<op, targets, rest, got, answer, before, accepted>>
    BY <1>1 DEF Served
  <2>2. ASSUME NEW p \in Requests, p > accepted, NEW x \in Shards PROVE Kept(p, x)
    <3>1. call[p][x] = "none"
      BY <2>2 DEF IInv, FreshOK
    <3>2. Kept(p, x) \/ Moves(r, p, x)
      BY <1>1, <2>2 DEF Served
    <3> QED
      BY <3>1, <3>2 DEF Moves
  <2>3. ASSUME NEW p \in Requests, p > accepted PROVE seq'[p] = seq[p]
    <3>1. call[p][s] = "none"
      BY <2>3 DEF IInv, FreshOK
    <3> QED
      BY <1>1, <3>1 DEF Data, Stores
  <2> QED
    BY <2>1, <2>2, <2>3 DEF IInv, FreshOK, Kept
<1>2. ASSUME NEW r \in Requests, NEW status, NEW R, NEW G,
             Proxied(r, status, R, G), Concludes(r, status, R, G)
      PROVE FreshOK'
  <2>1. r <= accepted
    BY <1>0, <1>2 DEF IInv, FreshOK, TypeOK, Requests, Concludes, Diagonal, NoOp
  <2> QED
    BY <1>0, <1>2, <2>1 DEF IInv, FreshOK, TypeOK, Requests, Proxied
<1>3. ASSUME NEW o \in Asked, NEW r \in Requests, Accepted(o, r)
      PROVE FreshOK'
  <2> SUFFICES ASSUME NEW p \in Requests, p > accepted'
               PROVE  /\ op'[p] = NoOp /\ targets'[p] = {} /\ rest'[p] = {} /\ got'[p] = {}
                      /\ answer'[p] = "none" /\ before'[p] = {} /\ seq'[p] = 0
                      /\ \A x \in Shards : /\ call'[p][x] = "none" /\ body'[p][x] = {}
                                           /\ behind'[p][x] = 0
    BY DEF FreshOK
  <2>1. p > accepted /\ p # r
    BY <1>0, <1>3 DEF TypeOK, Requests, Accepted
  <2>2. /\ op'[p] = op[p] /\ targets'[p] = targets[p] /\ rest'[p] = rest[p]
        /\ answer'[p] = answer[p] /\ before'[p] = before[p]
    BY <1>0, <1>3, <2>1 DEF TypeOK, Accepted
  <2>3. /\ got' = got /\ seq' = seq /\ body' = body /\ behind' = behind
        /\ \A x \in Shards : call'[p][x] = call[p][x]
    BY <1>3, <2>1 DEF Accepted, shardVars
  <2> QED
    BY <2>1, <2>2, <2>3 DEF IInv, FreshOK
<1>4. CASE Idle
  BY <1>4 DEF Idle, IInv, FreshOK
<1> QED
  BY <1>0, <1>1, <1>2, <1>3, <1>4, StepCases, ServedStep, DataStep, ProxiedStep, AcceptEffect

\* A call moves along the kind of its request.
LEMMA CallStep == IInv /\ [Next]_vars => CallOK'
<1> SUFFICES ASSUME IInv, [Next]_vars PROVE CallOK'
  OBVIOUS
<1>0. TypeOK /\ TypeOK'
  BY TypeStep DEF IInv
<1>1. ASSUME NEW r \in Requests, NEW s \in Shards, Served(r, s), Data(r, s), Trees(r, s)
      PROVE CallOK'
  <2> SUFFICES ASSUME NEW p \in Requests, NEW x \in Shards
               PROVE  /\ call'[p][x] # "none" => x \in targets[p]
                      /\ call'[p][x] \in {"checked", "missing"} => op[p].kind \in {"send", "poll"}
                      /\ call'[p][x] = "waiting" => op[p].kind = "poll"
                      /\ call'[p][x] \in {"sent", "checked"} => behind'[p][x] = 0
                      /\ call'[p][x] = "waiting" => behind'[p][x] = 0 \/ body'[p][x] # {}
    BY <1>1 DEF CallOK, Served
  <2>1. Kept(p, x) \/ Moves(r, p, x)
    BY <1>1 DEF Served
  <2>2. /\ call[p][x] # "none" => x \in targets[p]
        /\ call[p][x] \in {"checked", "missing"} => op[p].kind \in {"send", "poll"}
        /\ call[p][x] = "waiting" => op[p].kind = "poll"
        /\ call[p][x] \in {"sent", "checked"} => behind[p][x] = 0
        /\ call[p][x] = "waiting" => behind[p][x] = 0 \/ body[p][x] # {}
    BY DEF IInv, CallOK
  <2>3. CASE Kept(p, x)
    BY <2>2, <2>3 DEF Kept
  <2>4. CASE Moves(r, p, x)
    BY <2>2, <2>4 DEF Moves
  <2> QED
    BY <2>1, <2>3, <2>4
<1>2. ASSUME NEW r \in Requests, NEW status, NEW R, NEW G,
             Proxied(r, status, R, G), Concludes(r, status, R, G)
      PROVE CallOK'
  BY <1>0, <1>2 DEF IInv, CallOK, TypeOK, Proxied
<1>3. ASSUME NEW o \in Asked, NEW r \in Requests, Accepted(o, r)
      PROVE CallOK'
  <2>1. r > accepted
    BY <1>0, <1>3, FanOutAssumption DEF TypeOK, Accepted, Requests
  <2>2. \A x \in Shards : behind[r][x] = 0
    BY <2>1 DEF IInv, FreshOK
  <2>3. behind' = behind /\ body' = body /\ targets'[r] = To(o, ring)
    BY <1>0, <1>3 DEF TypeOK, Accepted
  <2>4. \A p \in Requests : p # r => op'[p] = op[p] /\ targets'[p] = targets[p]
    BY <1>0, <1>3 DEF TypeOK, Accepted
  <2>5. \A p \in Requests, x \in Shards :
          call'[p][x] = IF p = r THEN (IF x \in To(o, ring) THEN "sent" ELSE "none") ELSE call[p][x]
    BY <1>3 DEF Accepted
  <2> QED
    BY <2>2, <2>3, <2>4, <2>5 DEF IInv, CallOK
<1>4. CASE Idle
  BY <1>4 DEF Idle, IInv, CallOK
<1> QED
  BY <1>0, <1>1, <1>2, <1>3, <1>4, StepCases, ServedStep, DataStep, ProxiedStep, AcceptEffect

\* An answer is never taken back.
LEMMA BeforeStep == IInv /\ [Next]_vars => BeforeOK'
<1> SUFFICES ASSUME IInv, [Next]_vars PROVE BeforeOK'
  OBVIOUS
<1>0. TypeOK /\ TypeOK'
  BY TypeStep DEF IInv
<1>1. ASSUME NEW r \in Requests, NEW s \in Shards, Served(r, s), Data(r, s), Trees(r, s)
      PROVE BeforeOK'
  BY <1>1 DEF IInv, BeforeOK, Served
<1>2. ASSUME NEW r \in Requests, NEW status, NEW R, NEW G,
             Proxied(r, status, R, G), Concludes(r, status, R, G)
      PROVE BeforeOK'
  BY <1>0, <1>2 DEF IInv, BeforeOK, TypeOK, Proxied
<1>3. ASSUME NEW o \in Asked, NEW r \in Requests, Accepted(o, r)
      PROVE BeforeOK'
  <2>1. \A q \in Requests : answer[q] # "none" => answer'[q] # "none"
    BY <1>0, <1>3 DEF TypeOK, Accepted
  <2> QED
    BY <1>0, <1>3, <2>1 DEF IInv, BeforeOK, TypeOK, Accepted, Answered
<1>4. CASE Idle
  BY <1>4 DEF Idle, IInv, BeforeOK
<1> QED
  BY <1>0, <1>1, <1>2, <1>3, <1>4, StepCases, ServedStep, DataStep, ProxiedStep, AcceptEffect

\* The targets of a request, by its kind.
LEMMA TargetsOf ==
  ASSUME IInv, NEW r \in 1..accepted
  PROVE  /\ op[r].kind \in Diagonal \cup {"send", "poll"}
         /\ op[r].kind = "send" \/ (op[r].kind = "poll" /\ op[r].id # NoId) =>
              \A x, y \in targets[r] : x = y
<1>1. PICK R \in SUBSET Shards : targets[r] = To(op[r], R)
  BY DEF IInv, RingOK
<1>2. op[r].kind \in Diagonal \cup {"send", "poll"}
  BY DEF IInv, RingOK, Ops, Diagonal
<1> QED
  BY <1>1, <1>2 DEF To, Diagonal

\* A send has one call.
LEMMA OneCall ==
  ASSUME IInv, NEW m \in Requests, op[m].kind = "send", NEW s \in Shards, call[m][s] # "none"
  PROVE  /\ m \in 1..accepted /\ targets[m] = {s}
         /\ \A x \in Shards : x # s => call[m][x] = "none"
<1>1. m \in 1..accepted
  BY DEF IInv, TypeOK, FreshOK, Requests
<1>2. \A x \in Shards : call[m][x] # "none" => x \in targets[m]
  BY DEF IInv, CallOK
<1>3. \A x, y \in targets[m] : x = y
  BY <1>1, TargetsOf
<1>4. targets[m] = {s}
  BY <1>2, <1>3
<1> QED
  BY <1>1, <1>2, <1>4

\* A message has its sequence when its call has ended.
LEMMA SeqStep == IInv /\ [Next]_vars => SeqOK'
<1> SUFFICES ASSUME IInv, [Next]_vars PROVE SeqOK'
  OBVIOUS
<1>0. TypeOK /\ TypeOK' /\ SeqOK
  BY TypeStep DEF IInv
<1>1. ASSUME NEW r \in Requests, NEW s \in Shards, Served(r, s), Data(r, s), Trees(r, s)
      PROVE SeqOK'
  <2> SUFFICES ASSUME NEW n \in Requests, NEW x \in Shards, call'[n][x] \in {"sent", "checked"}
               PROVE  seq'[n] = 0
    BY DEF SeqOK
  <2>1. call[n][x] \in {"sent", "checked"}
    BY <1>1 DEF Served, Kept, Moves
  <2>2. seq[n] = 0
    BY <1>0, <2>1 DEF SeqOK
  <2>3. ASSUME n = r, Stores(r, s) PROVE FALSE
    <3>1. x = s
      BY <2>1, <2>3, OneCall DEF Stores
    <3> QED
      BY <2>3, <3>1 DEF Stores
  <2> QED
    BY <1>1, <2>2, <2>3 DEF Data
<1>2. ASSUME NEW r \in Requests, NEW status, NEW R, NEW G,
             Proxied(r, status, R, G), Concludes(r, status, R, G)
      PROVE SeqOK'
  BY <1>0, <1>2 DEF SeqOK, Proxied
<1>3. ASSUME NEW o \in Asked, NEW r \in Requests, Accepted(o, r)
      PROVE SeqOK'
  <2>1. seq[r] = 0
    BY <1>0, <1>3, FanOutAssumption DEF IInv, FreshOK, TypeOK, Accepted, Requests
  <2>2. seq' = seq /\ \A p \in Requests, x \in Shards : p # r => call'[p][x] = call[p][x]
    BY <1>3 DEF Accepted
  <2> QED
    BY <1>0, <2>1, <2>2 DEF SeqOK
<1>4. CASE Idle
  BY <1>0, <1>4 DEF Idle, SeqOK
<1> QED
  BY <1>0, <1>1, <1>2, <1>3, <1>4, StepCases, ServedStep, DataStep, ProxiedStep, AcceptEffect

\* Its sequence, its id and its shard stay, and a removed message is removed.
LEMMA NumberedKept ==
  ASSUME IInv, [Next]_vars
  PROVE  /\ removed \subseteq removed'
         /\ \A n \in Requests :
              seq[n] # 0 \/ (op[n].kind = "send" /\ \E x \in Shards : call[n][x] = "ok") =>
                seq'[n] = seq[n] /\ op'[n] = op[n] /\ targets'[n] = targets[n]
<1>0. TypeOK /\ TypeOK' /\ SeqOK /\ FreshOK
  BY TypeStep DEF IInv
<1>1. ASSUME NEW r \in Requests, NEW s \in Shards, Served(r, s), Data(r, s), Trees(r, s),
             NEW n \in Requests,
             seq[n] # 0 \/ (op[n].kind = "send" /\ \E x \in Shards : call[n][x] = "ok")
      PROVE  seq'[n] = seq[n]
  <2>1. ASSUME n = r, Stores(r, s) PROVE FALSE
    <3>1. seq[n] = 0
      BY <1>0, <2>1 DEF SeqOK, Stores
    <3>2. PICK x \in Shards : call[n][x] = "ok"
      BY <1>1, <3>1
    <3>3. x = s
      BY <2>1, <3>2, OneCall DEF Stores
    <3> QED
      BY <2>1, <3>2, <3>3 DEF Stores
  <2> QED
    BY <1>1, <2>1 DEF Data
<1>2. ASSUME NEW r \in Requests, NEW s \in Shards, Served(r, s)
      PROVE  removed \subseteq removed' /\ UNCHANGED <<op, targets>>
  BY <1>2 DEF Served
<1>3. ASSUME NEW r \in Requests, NEW status, NEW R, NEW G, Proxied(r, status, R, G)
      PROVE  removed' = removed /\ UNCHANGED <<op, targets, seq>>
  BY <1>3 DEF Proxied
<1>4. ASSUME NEW o \in Asked, NEW r \in Requests, Accepted(o, r)
      PROVE  /\ removed' = removed /\ seq' = seq
             /\ \A n \in Requests :
                  seq[n] # 0 \/ (op[n].kind = "send" /\ \E x \in Shards : call[n][x] = "ok") =>
                    op'[n] = op[n] /\ targets'[n] = targets[n]
  <2>1. seq[r] = 0 /\ op[r] = NoOp
    BY <1>0, <1>4, FanOutAssumption DEF FreshOK, TypeOK, Accepted, Requests
  <2>2. op[r].kind # "send"
    BY <2>1 DEF NoOp
  <2>3. \A n \in Requests : n # r => op'[n] = op[n] /\ targets'[n] = targets[n]
    BY <1>0, <1>4 DEF TypeOK, Accepted
  <2> QED
    BY <1>4, <2>1, <2>2, <2>3 DEF Accepted
<1>5. CASE Idle
  BY <1>5 DEF Idle
<1>6. ASSUME NEW r \in Requests, NEW s \in Shards, Handle(r, s) \/ Refuse(r, s)
      PROVE  Served(r, s) /\ Data(r, s) /\ Trees(r, s)
  BY <1>0, <1>6, ServedStep, DataStep
<1>7. ASSUME NEW r \in Requests, Proxy(r)
      PROVE  \E status, R, G : Proxied(r, status, R, G)
  BY <1>0, <1>7, ProxiedStep
<1> QED
  BY <1>0, <1>1, <1>2, <1>3, <1>4, <1>5, <1>6, <1>7, StepCases, AcceptEffect

\* What a trim may have taken away stays so: newer messages stay newer.
LEMMA GoneKept ==
  ASSUME IInv, [Next]_vars, NEW m \in Requests, op[m].kind = "send",
         NEW x \in Shards, call[m][x] = "ok", Gone(m)
  PROVE  Gone(m)'
<1>0. TypeOK /\ TypeOK'
  BY TypeStep DEF IInv
<1>1. /\ removed \subseteq removed'
      /\ seq'[m] = seq[m] /\ op'[m] = op[m] /\ targets'[m] = targets[m]
  BY NumberedKept
<1>2. CASE m \in removed
  BY <1>1, <1>2 DEF Gone
<1>3. CASE Superseded(m)
  <2>1. ASSUME NEW n \in Newer(m) PROVE n \in Newer(m)'
    <3>1. n \in Requests /\ seq[n] # 0
      BY <1>0 DEF Newer, TypeOK
    <3>2. seq'[n] = seq[n] /\ op'[n] = op[n] /\ targets'[n] = targets[n]
      BY <3>1, NumberedKept
    <3> QED
      BY <1>1, <3>1, <3>2 DEF Newer
  <2>2. Newer(m) \in SUBSET (Newer(m)') /\ Newer(m)' \in SUBSET Requests
    BY <2>1 DEF Newer
  <2>3. PICK K, N : K = Newer(m) /\ N = Newer(m)'
    OBVIOUS
  <2>4. Cardinality(K) \in Nat /\ Cardinality(N) \in Nat /\ Cardinality(K) <= Cardinality(N)
    BY <2>2, <2>3, FiniteRequests
  <2>5. MaxKeyUpdates # NoLimit /\ MaxKeyUpdates \in Nat /\ Cardinality(K) >= MaxKeyUpdates - 1
    BY <1>3, <2>3, FanOutAssumption DEF Superseded
  <2>6. Cardinality(N) >= MaxKeyUpdates - 1
    BY <2>4, <2>5
  <2> QED
    BY <2>3, <2>5, <2>6 DEF Gone, Superseded
<1> QED
  BY <1>2, <1>3 DEF Gone

\* What the trim takes away has enough newer messages.
LEMMA OutdoneGone ==
  ASSUME IInv, [Next]_vars, NEW r \in Requests, NEW s \in Shards, Served(r, s), Data(r, s),
         NEW m \in Requests, m \in store[s] \cup {r}, Outdone(r, s, m)
  PROVE  Superseded(m)'
<1>0. TypeOK /\ TypeOK'
  BY TypeStep DEF IInv
<1>1. Stores(r, s) /\ op' = op /\ targets' = targets
  BY DEF Outdone, Served
<1>2. \A n \in store[s] \cup {r} : n \in Requests /\ targets[n] = {s}
  <2> SUFFICES ASSUME NEW n \in store[s] \cup {r} PROVE n \in Requests /\ targets[n] = {s}
    OBVIOUS
  <2>1. n \in Requests
    BY <1>0 DEF TypeOK
  <2>2. op[n].kind = "send" /\ call[n][s] # "none"
    BY <1>1, <2>1 DEF IInv, StoreOK, Stores
  <2> QED
    BY <2>1, <2>2, OneCall
<1> DEFINE L == {n \in store[s] \cup {r} : op[n].id = op[m].id /\ seq'[n] > seq'[m]}
<1>3. L \in SUBSET (Newer(m)') /\ Newer(m)' \in SUBSET Requests
  BY <1>1, <1>2 DEF Newer
<1>4. MaxKeyUpdates # NoLimit /\ MaxKeyUpdates \in Nat /\ Cardinality(L) >= MaxKeyUpdates - 1
  BY FanOutAssumption DEF Outdone
<1> HIDE DEF L
<1>5. PICK N : N = Newer(m)'
  OBVIOUS
<1>6. Cardinality(L) \in Nat /\ Cardinality(N) \in Nat /\ Cardinality(L) <= Cardinality(N)
  BY <1>3, <1>5, FiniteRequests
<1>7. Cardinality(N) >= MaxKeyUpdates - 1
  BY <1>4, <1>6
<1> QED
  BY <1>4, <1>5, <1>7 DEF Superseded

\* A message is stored when its call succeeds.
LEMMA StoreStep == IInv /\ [Next]_vars => StoreOK'
<1> SUFFICES ASSUME IInv, [Next]_vars PROVE StoreOK'
  OBVIOUS
<1>0. TypeOK /\ TypeOK'
  BY TypeStep DEF IInv
<1>1. ASSUME NEW r \in Requests, NEW s \in Shards, Served(r, s), Data(r, s), Trees(r, s)
      PROVE StoreOK'
  <2>1. \A m \in Requests, x \in Shards :
          m \in store'[x] => op[m].kind = "send" /\ call'[m][x] = "ok"
    <3> SUFFICES ASSUME NEW m \in Requests, NEW x \in Shards, m \in store'[x]
                 PROVE  op[m].kind = "send" /\ call'[m][x] = "ok"
      OBVIOUS
    <3>1. CASE m \in store[x]
      <4>1. op[m].kind = "send" /\ call[m][x] = "ok"
        BY <3>1 DEF IInv, StoreOK
      <4> QED
        BY <1>1, <4>1 DEF Served, Kept, Moves
    <3>2. CASE m \notin store[x]
      BY <1>1, <3>2 DEF Data, Stores
    <3> QED
      BY <3>1, <3>2
  <2>2. \A m \in Requests, x \in Shards :
          op[m].kind = "send" /\ call'[m][x] = "ok" => m \in store'[x] \/ Gone(m)'
    <3> SUFFICES ASSUME NEW m \in Requests, NEW x \in Shards, op[m].kind = "send", call'[m][x] = "ok"
                 PROVE  m \in store'[x] \/ Gone(m)'
      OBVIOUS
    <3>1. CASE call[m][x] = "ok"
      <4>1. m \in store[x] \/ Gone(m)
        BY <3>1 DEF IInv, StoreOK
      <4>2. Gone(m) => Gone(m)'
        BY <3>1, GoneKept
      <4>3. m \in store[x] => m \in store'[x] \cup removed' \/ (x = s /\ Outdone(r, s, m))
        BY <1>1 DEF Data
      <4>4. m \in store[x] /\ x = s /\ Outdone(r, s, m) => Superseded(m)'
        BY <1>1, OutdoneGone
      <4> QED
        BY <4>1, <4>2, <4>3, <4>4 DEF Gone
    <3>2. CASE call[m][x] # "ok"
      <4>0. Kept(m, x) \/ (x = s /\ Moves(r, m, x))
        BY <1>1 DEF Served
      <4>1. m = r /\ x = s /\ call[m][x] = "checked"
        BY <3>2, <4>0 DEF Kept, Moves, IInv, CallOK, Diagonal
      <4>2. r \in store'[s] \/ Outdone(r, s, r)
        BY <1>1, <4>1 DEF Data, Stores
      <4>3. Outdone(r, s, r) => Superseded(r)'
        BY <1>1, OutdoneGone
      <4> QED
        BY <4>1, <4>2, <4>3 DEF Gone
    <3> QED
      BY <3>1, <3>2
  <2> QED
    BY <1>1, <2>1, <2>2 DEF StoreOK, Served
<1>2. ASSUME NEW r \in Requests, NEW status, NEW R, NEW G,
             Proxied(r, status, R, G), Concludes(r, status, R, G)
      PROVE StoreOK'
  <2>1. \A m \in Requests, x \in Shards : call'[m][x] = "ok" <=> call[m][x] = "ok"
    BY <1>2 DEF Proxied
  <2>2. UNCHANGED <<op, store>>
    BY <1>2 DEF Proxied
  <2> QED
    BY <2>1, <2>2, GoneKept DEF IInv, StoreOK
<1>3. ASSUME NEW o \in Asked, NEW r \in Requests, Accepted(o, r)
      PROVE StoreOK'
  <2>1. \A m \in Requests : m # r => op'[m] = op[m] /\ \A x \in Shards : call'[m][x] = call[m][x]
    BY <1>0, <1>3 DEF TypeOK, Accepted
  <2>2. \A x \in Shards : call'[r][x] # "ok" /\ call[r][x] = "none"
    <3>1. r > accepted /\ \A x \in Shards : call'[r][x] \in {"sent", "none"}
      BY <1>0, <1>3, FanOutAssumption DEF TypeOK, Requests, Accepted
    <3> QED
      BY <3>1 DEF IInv, FreshOK
  <2>3. store' = store
    BY <1>3 DEF Accepted
  <2> QED
    BY <2>1, <2>2, <2>3, GoneKept DEF IInv, StoreOK
<1>4. CASE Idle
  <2>1. UNCHANGED <<op, store, call>>
    BY <1>4 DEF Idle
  <2> QED
    BY <2>1, GoneKept DEF IInv, StoreOK
<1> QED
  BY <1>0, <1>1, <1>2, <1>3, <1>4, StepCases, ServedStep, DataStep, ProxiedStep, AcceptEffect
\* A new request goes to the ring of its stamp.
LEMMA RingStep == IInv /\ [Next]_vars => RingOK'
<1> USE DEF RingOK
<1> SUFFICES ASSUME IInv, [Next]_vars PROVE RingOK'
  OBVIOUS
<1>0. TypeOK /\ TypeOK' /\ RingOK
  BY TypeStep DEF IInv
<1>1. ASSUME UNCHANGED <<ring, op, targets, accepted, stamp, rings>> PROVE RingOK'
  BY <1>0, <1>1
<1>2. ASSUME NEW r \in Requests, NEW s \in Shards, Handle(r, s) \/ Refuse(r, s) PROVE RingOK'
  BY <1>0, <1>1, <1>2, ServedStep DEF Served
<1>3. ASSUME NEW r \in Requests, Proxy(r) PROVE RingOK'
  <2>1. PICK status, R, G : Proxied(r, status, R, G)
    BY <1>0, <1>3, ProxiedStep
  <2> QED
    BY <1>1, <2>1 DEF Proxied
<1>4. ASSUME NEW r \in Requests, NEW s \in Shards, Fail(r, s) PROVE RingOK'
  BY <1>1, <1>4 DEF Fail
<1>5. ASSUME NEW R \in SUBSET Shards, UpdateRegistry(R) PROVE RingOK'
  <2>1. \A r \in 1..accepted : stamp[r] \in Nat /\ stamp[r] # rings + 1 /\ stamp[r] <= rings + 1
    BY <1>0, FanOutAssumption DEF TypeOK, Requests
  <2> QED
    BY <1>0, <1>5, <2>1 DEF UpdateRegistry
<1>6. ASSUME NEW o \in Asked, Accept(o) PROVE RingOK'
  <2>1. PICK r \in Requests : Accepted(o, r)
    BY <1>0, <1>6, AcceptEffect
  <2>2. \A q \in 1..accepted' : q \in Requests /\ (q = r \/ q \in 1..accepted)
    BY <1>0, <2>1, FanOutAssumption DEF TypeOK, Accepted, Requests
  <2>3. \A q \in Requests : q # r =>
          op'[q] = op[q] /\ targets'[q] = targets[q] /\ stamp'[q] = stamp[q]
    BY <1>0, <2>1 DEF TypeOK, Accepted
  <2>4. op'[r] \in Ops /\ stamp'[r] = rings /\ targets'[r] = To(op'[r], ring)
    BY <1>0, <2>1 DEF TypeOK, Accepted
  <2>5. rings' = rings /\ ring' = ring /\ rings \in Nat /\ ring \in SUBSET Shards
    BY <1>0, <2>1, FanOutAssumption DEF TypeOK, Accepted
  <2>6. \A q \in 1..accepted' :
          /\ op'[q] \in Ops
          /\ stamp'[q] <= rings
          /\ stamp'[q] = rings => targets'[q] = To(op'[q], ring)
    BY <1>0, <2>2, <2>3, <2>4, <2>5
  <2>7. ASSUME NEW p \in 1..accepted', NEW q \in 1..accepted', stamp'[p] = stamp'[q]
        PROVE  \E R \in SUBSET Shards : targets'[p] = To(op'[p], R) /\ targets'[q] = To(op'[q], R)
    <3>1. CASE p = r \/ q = r
      BY <2>4, <2>5, <2>6, <2>7, <3>1
    <3>2. CASE p # r /\ q # r
      BY <1>0, <2>2, <2>3, <2>7, <3>2
    <3> QED
      BY <3>1, <3>2
  <2> QED
    BY <2>5, <2>6, <2>7
<1>7. CASE UNCHANGED vars
  BY <1>1, <1>7 DEF vars
<1> QED
  BY <1>2, <1>3, <1>4, <1>5, <1>6, <1>7 DEF Next, Run

\* The proxy concludes from calls that have ended.
LEMMA AnswerStep == IInv /\ [Next]_vars => AnswerOK'
<1> SUFFICES ASSUME IInv, [Next]_vars PROVE AnswerOK'
  OBVIOUS
<1>0. TypeOK /\ TypeOK'
  BY TypeStep DEF IInv
<1>1. ASSUME NEW r \in Requests, NEW s \in Shards, Served(r, s), Data(r, s), Trees(r, s)
      PROVE AnswerOK'
  <2>1. \A p \in Requests, x \in Shards :
          call[p][x] \in {"ok", "refused"} => call'[p][x] = call[p][x] /\ body'[p][x] = body[p][x]
    BY <1>1 DEF Served, Kept, Moves
  <2>2. \A p \in Requests : targets[p] \subseteq Shards
    BY <1>0 DEF TypeOK
  <2> QED
    BY <1>1, <2>1, <2>2 DEF IInv, AnswerOK, Served
<1>2. ASSUME NEW r \in Requests, NEW status, NEW R, NEW G,
             Proxied(r, status, R, G), Concludes(r, status, R, G)
      PROVE AnswerOK'
  <2>1. \A p \in Requests, x \in Shards :
          call[p][x] \in {"ok", "refused"} => call'[p][x] = call[p][x] /\ body'[p][x] = body[p][x]
    BY <1>2 DEF Proxied
  <2>2. \A p \in Requests : targets[p] \subseteq Shards
    BY <1>0 DEF TypeOK
  <2>3. /\ \A p \in Requests : p # r => answer'[p] = answer[p] /\ rest'[p] = rest[p] /\ got'[p] = got[p]
        /\ answer'[r] = status /\ rest'[r] = R /\ got'[r] = G
        /\ op' = op /\ targets' = targets /\ answer[r] = "none" /\ body' = body
    BY <1>0, <1>2 DEF TypeOK, Proxied
  <2>4. r \in 1..accepted
    BY <1>0, <1>2 DEF IInv, FreshOK, TypeOK, Requests, Concludes, Diagonal, NoOp
  <2>5. CASE op[r].kind \in {"send", "poll"} /\ (op[r].kind = "poll" => op[r].id # NoId)
    <3>1. rest[r] = targets[r] /\ \A x, y \in targets[r] : x = y
      BY <2>3, <2>4, <2>5, TargetsOf DEF IInv, AnswerOK
    <3>2. status # "none" /\ (status = "ok" => \E x \in rest[r] : call[r][x] = "ok" /\ G = body[r][x])
      BY <1>2, <2>5 DEF Concludes, Diagonal
    <3>3. status = "ok" => \A x \in targets[r] : call'[r][x] = "ok" /\ body'[r][x] \subseteq got'[r]
      BY <2>1, <2>2, <2>3, <3>1, <3>2
    <3> QED
      BY <2>1, <2>2, <2>3, <2>5, <3>2, <3>3 DEF IInv, AnswerOK, Diagonal
  <2>6. CASE op[r].kind \in Diagonal
    <3>1. rest[r] = targets[r] /\ status # "none" /\ (status = "ok" => \A x \in rest[r] : call[r][x] \in Status)
      BY <1>2, <2>3, <2>6 DEF IInv, AnswerOK, Concludes, Diagonal
    <3>2. \A x \in targets[r] : call[r][x] # "missing"
      BY <2>2, <2>6 DEF IInv, CallOK, Diagonal
    <3>3. status = "ok" => \A x \in targets[r] : call'[r][x] \in {"ok", "refused"}
      BY <2>1, <2>2, <3>1, <3>2 DEF Status
    <3> QED
      BY <2>1, <2>2, <2>3, <2>6, <3>1, <3>3 DEF IInv, AnswerOK, Diagonal
  <2>7. CASE op[r].kind = "poll" /\ op[r].id = NoId
    <3>1. \A x \in targets[r] \ rest[r] : call'[r][x] = "ok" /\ body'[r][x] \subseteq got[r]
      BY <2>1, <2>2, <2>3, <2>7 DEF IInv, AnswerOK
    <3>2. \/ \E x \in rest[r] : /\ R = rest[r] \ {x} /\ status \in {"none", "ok"}
                                /\ call[r][x] = "ok" /\ G = got[r] \cup body[r][x]
          \/ G = {} /\ status \notin {"none", "ok"}
          \/ R = rest[r] /\ R # targets[r] /\ G = got[r] /\ status = "ok"
      BY <1>2, <2>7 DEF Concludes, Diagonal
    <3>3. status \in {"none", "ok"} =>
            \A x \in targets[r] \ R : call'[r][x] = "ok" /\ body'[r][x] \subseteq G
      BY <2>1, <2>2, <2>3, <3>1, <3>2
    <3> QED
      BY <2>1, <2>2, <2>3, <2>7, <3>3 DEF IInv, AnswerOK, Diagonal
  <2> QED
    BY <2>4, <2>5, <2>6, <2>7, TargetsOf
<1>3. ASSUME NEW o \in Asked, NEW r \in Requests, Accepted(o, r)
      PROVE AnswerOK'
  <2>1. \A p \in Requests : p # r =>
          /\ answer'[p] = answer[p] /\ rest'[p] = rest[p] /\ got'[p] = got[p]
          /\ op'[p] = op[p] /\ targets'[p] = targets[p]
          /\ \A x \in Shards : call'[p][x] = call[p][x] /\ body'[p][x] = body[p][x]
    BY <1>0, <1>3 DEF TypeOK, Accepted
  <2>2. rest'[r] = targets'[r] /\ answer'[r] # "ok"
    BY <1>0, <1>3 DEF TypeOK, Accepted, IInv, FreshOK
  <2>3. \A p \in Requests : targets[p] \subseteq Shards
    BY <1>0 DEF TypeOK
  <2> QED
    BY <2>1, <2>2, <2>3 DEF IInv, AnswerOK
<1>4. CASE Idle
  BY <1>4 DEF Idle, IInv, AnswerOK
<1> QED
  BY <1>0, <1>1, <1>2, <1>3, <1>4, StepCases, ServedStep, DataStep, ProxiedStep, AcceptEffect

\* A message whose send is answered is stored by its targets or gone, and no
\* send of it is under way.
LEMMA SentStored ==
  ASSUME IInv, NEW m \in Requests, IsSent(m), NEW s \in Shards
  PROVE  /\ call[m][s] # "checked"
         /\ s \in targets[m] => call[m][s] = "ok" /\ (m \in store[s] \/ Gone(m))
         /\ m \in store[s] => s \in targets[m]
<1>1. s \in targets[m] => call[m][s] = "ok"
  BY DEF IInv, AnswerOK, IsSent
<1>2. call[m][s] # "none" => s \in targets[m]
  BY DEF IInv, CallOK
<1>3. s \in targets[m] => m \in store[s] \/ Gone(m)
  BY <1>1 DEF IInv, StoreOK, IsSent
<1>4. m \in store[s] => s \in targets[m]
  BY <1>2 DEF IInv, StoreOK
<1> QED
  BY <1>1, <1>2, <1>3, <1>4

\* What is asked of a request and remembered of it is there from the start.
Settled(P) ==
  \A q \in P :
    /\ op'[q] = op[q] /\ before'[q] = before[q] /\ stamp'[q] = stamp[q]
    /\ targets'[q] = targets[q]

\* What was answered stays as it is.
LEMMA AnsweredKept ==
  ASSUME IInv, [Next]_vars
  PROVE  /\ Settled(1..accepted)
         /\ \A q \in 1..accepted' : q \in Requests /\ (q \in 1..accepted \/ before'[q] = Answered)
         /\ \A q \in Answered : q \in 1..accepted /\ answer'[q] = answer[q] /\ got'[q] = got[q]
         /\ \A q \in Requests, s \in Shards :
              call[q][s] \in {"ok", "refused"} => call'[q][s] = call[q][s]
<1>0. TypeOK /\ TypeOK' /\ FreshOK /\ FreshOK'
  BY TypeStep, FreshStep DEF IInv
<1>1. \A q \in Answered : q \in Requests /\ q \in 1..accepted
  BY <1>0 DEF TypeOK, FreshOK, Answered, Requests
<1>2. ASSUME NEW r \in Requests, NEW s \in Shards, Served(r, s)
      PROVE  /\ \A q \in Requests, x \in Shards : call[q][x] \in {"ok", "refused"} => call'[q][x] = call[q][x]
             /\ UNCHANGED <<op, before, stamp, targets, accepted, answer, got>>
  BY <1>2 DEF Served, Kept, Moves
<1>3. ASSUME NEW r \in Requests, NEW status, NEW R, NEW G, Proxied(r, status, R, G)
      PROVE  /\ \A q \in Requests, x \in Shards : call[q][x] \in {"ok", "refused"} => call'[q][x] = call[q][x]
             /\ UNCHANGED <<op, before, stamp, targets, accepted>>
             /\ \A q \in Answered : answer'[q] = answer[q] /\ got'[q] = got[q]
  BY <1>0, <1>1, <1>3 DEF Proxied, Answered, TypeOK
<1>4. ASSUME NEW o \in Asked, NEW r \in Requests, Accepted(o, r)
      PROVE  /\ \A q \in Requests, x \in Shards : call[q][x] \in {"ok", "refused"} => call'[q][x] = call[q][x]
             /\ Settled(1..accepted) /\ before'[r] = Answered /\ accepted' = r /\ r = accepted + 1
             /\ \A q \in Answered : answer'[q] = answer[q] /\ got'[q] = got[q]
  <2>1. \A q \in 1..accepted : q \in Requests /\ q # r
    BY <1>0, <1>4, FanOutAssumption DEF Accepted, TypeOK, Requests
  <2>2. \A x \in Shards : call[r][x] = "none"
    BY <1>0, <1>4, FanOutAssumption DEF Accepted, TypeOK, FreshOK
  <2>3. /\ Settled(1..accepted) /\ before'[r] = Answered
        /\ \A q \in Answered : answer'[q] = answer[q] /\ got'[q] = got[q]
    BY <1>0, <1>1, <1>4, <2>1 DEF Accepted, Settled, TypeOK
  <2> QED
    BY <1>4, <2>2, <2>3 DEF Accepted
<1>5. \A q \in 1..accepted' : q \in Requests
  BY <1>0, FanOutAssumption DEF TypeOK, Requests
<1>6. \A r \in Requests : r = accepted + 1 /\ accepted' = r => \A q \in 1..accepted' : q \in 1..accepted \/ q = r
  BY <1>0, FanOutAssumption DEF TypeOK, Requests
<1>7. CASE Idle
  BY <1>1, <1>5, <1>7 DEF Idle, Settled
<1>8. ASSUME NEW r \in Requests, NEW s \in Shards, Handle(r, s) \/ Refuse(r, s)
      PROVE  Served(r, s)
  BY <1>0, <1>8, ServedStep
<1>9. ASSUME NEW r \in Requests, Proxy(r)
      PROVE  \E status, R, G : Proxied(r, status, R, G)
  BY <1>0, <1>9, ProxiedStep
<1>10. ASSUME NEW r \in Requests, NEW s \in Shards, Handle(r, s) \/ Refuse(r, s)
       PROVE  /\ Settled(1..accepted) /\ accepted' = accepted
              /\ \A q \in Answered : answer'[q] = answer[q] /\ got'[q] = got[q]
  BY <1>2, <1>8, <1>10 DEF Settled
<1>11. ASSUME NEW r \in Requests, Proxy(r)
       PROVE  /\ Settled(1..accepted) /\ accepted' = accepted
  BY <1>3, <1>9, <1>11 DEF Settled
<1> QED
  BY <1>0, <1>1, <1>2, <1>3, <1>4, <1>5, <1>6, <1>7, <1>8, <1>9, <1>10, <1>11, StepCases, AcceptEffect
\* Requests with one stamp: where a send went, a request for all of the queue,
\* or for the id of the message, went too.
LEMMA TargetsMeet ==
  ASSUME IInv, NEW m \in 1..accepted, NEW q \in 1..accepted, stamp[m] = stamp[q],
         op[m].kind = "send",
         op[q].kind \in Diagonal \/ (op[q].kind = "poll" /\ Covers(op[q].id, op[m].id))
  PROVE  targets[m] \subseteq targets[q]
<1>1. PICK R \in SUBSET Shards : targets[m] = To(op[m], R) /\ targets[q] = To(op[q], R)
  BY DEF IInv, RingOK
<1>2. op[m] \in Ops /\ op[q] \in Ops
  BY DEF IInv, RingOK
<1>3. To(op[m], R) \subseteq R
  BY <1>2, ToInRing
<1>4. CASE To(op[q], R) = R
  BY <1>1, <1>3, <1>4
<1>5. CASE To(op[q], R) # R
  <2>1. op[q].kind = "poll" /\ op[q].id = op[m].id /\ op[q].id # NoId
    BY <1>5 DEF To, Covers
  <2> QED
    BY <1>1, <2>1 DEF To, Diagonal
<1> QED
  BY <1>4, <1>5

\* Which messages a request removes is settled when it comes.
LEMMA RemovesKept ==
  ASSUME IInv, [Next]_vars, NEW q \in 1..accepted, NEW m \in Requests, Removes(q, m)'
  PROVE  Removes(q, m) /\ m \in 1..accepted /\ stamp'[m] = stamp[m] /\ stamp'[q] = stamp[q]
<1>1. q \in Requests /\ m \in before[q]
  <2>1. q \in Requests
    BY FanOutAssumption DEF IInv, TypeOK, Requests
  <2>2. before'[q] = before[q]
    BY AnsweredKept DEF Settled
  <2> QED
    BY <2>1, <2>2 DEF Removes
<1>2. m \in Answered
  BY <1>1 DEF IInv, BeforeOK, Answered
<1> QED
  BY <1>1, <1>2, AnsweredKept DEF Removes, IsSent, Settled, Covers

\* A handled delete or close keeps what it has removed away.
LEMMA RemovedHereStep ==
  ASSUME IInv, [Next]_vars, NEW q \in Requests, NEW m \in Requests, NEW x \in Shards,
         Removes(q, m)', call'[q][x] = "ok"
  PROVE  m \notin store'[x]
<1>0. TypeOK /\ TypeOK' /\ FreshOK'
  BY TypeStep, FreshStep DEF IInv
<1>1. q \in 1..accepted'
  BY <1>0 DEF FreshOK, TypeOK, Requests
<1>2. ASSUME NEW r \in Requests, NEW s \in Shards, Served(r, s), Data(r, s)
      PROVE  m \notin store'[x]
  <2>1. Removes(q, m)
    BY <1>1, <1>2, RemovesKept DEF Served
  <2>2. \A y \in Shards : m \in store'[y] => m \in store[y]
    BY <1>2, <2>1, SentStored DEF Data, Stores, Removes
  <2>3. CASE call[q][x] = "ok"
    BY <2>1, <2>2, <2>3 DEF IInv, RemovedOK
  <2>4. CASE call[q][x] # "ok"
    <3>1. q = r /\ x = s /\ call[q][x] = "sent"
      BY <1>2, <2>1, <2>4 DEF Served, Kept, Moves, Removes, IInv, CallOK
    <3> QED
      BY <1>2, <2>1, <3>1 DEF Data, Removes
  <2> QED
    BY <2>3, <2>4
<1>3. ASSUME NEW r \in Requests, NEW status, NEW R, NEW G, Proxied(r, status, R, G)
      PROVE  m \notin store'[x]
  <2>1. Removes(q, m)
    BY <1>1, <1>3, RemovesKept DEF Proxied
  <2>2. call[q][x] = "ok"
    BY <1>3 DEF Proxied
  <2> QED
    BY <1>3, <2>1, <2>2 DEF IInv, RemovedOK, Proxied
<1>4. ASSUME NEW o \in Asked, NEW r \in Requests, Accepted(o, r)
      PROVE  m \notin store'[x]
  <2>1. q # r /\ call[q][x] = "ok"
    BY <1>4 DEF Accepted
  <2>2. q \in 1..accepted
    BY <1>0, <1>1, <1>4, <2>1, FanOutAssumption DEF Accepted, TypeOK
  <2>3. Removes(q, m)
    BY <2>2, RemovesKept
  <2> QED
    BY <1>4, <2>1, <2>3 DEF IInv, RemovedOK, Accepted
<1>5. CASE Idle
  <2>1. Removes(q, m)
    BY <1>1, <1>5, RemovesKept DEF Idle
  <2> QED
    BY <1>5, <2>1 DEF IInv, RemovedOK, Idle
<1> QED
  BY <1>0, <1>2, <1>3, <1>4, <1>5, StepCases, ServedStep, DataStep, ProxiedStep, AcceptEffect

\* Once a delete or a close is done, no shard has what it removed.
LEMMA DoneRemoved ==
  ASSUME IInv, NEW q \in 1..accepted, NEW m \in 1..accepted, Removes(q, m),
         stamp[m] = stamp[q], Done(q), NEW x \in Shards
  PROVE  m \notin store[x]
<1>1. q \in Requests /\ m \in Requests
  BY FanOutAssumption DEF IInv, TypeOK, Requests
<1>2. targets[m] \subseteq targets[q]
  BY TargetsMeet DEF Removes, IsSent, Done
<1>3. x \in targets[q] => call[q][x] = "ok"
  BY <1>1 DEF IInv, AnswerOK, Done
<1>4. m \in store[x] => x \in targets[m]
  BY <1>1, SentStored DEF Removes
<1> QED
  BY <1>1, <1>2, <1>3, <1>4 DEF IInv, RemovedOK

\* No answer that comes later has it either.
LEMMA RemovedElsewhereStep ==
  ASSUME IInv, [Next]_vars, NEW m \in Requests, NEW q \in Requests, NEW p \in Requests,
         Removes(q, m)', stamp'[m] = stamp'[q], Done(q)', q \in before'[p]
  PROVE  m \notin got'[p] /\ \A x \in Shards : m \notin body'[p][x]
<1>0. TypeOK /\ TypeOK' /\ FreshOK /\ FreshOK' /\ BeforeOK
  BY TypeStep, FreshStep DEF IInv
<1>1. p \in 1..accepted'
  BY <1>0 DEF FreshOK, TypeOK, Requests
<1>2. q \in Answered /\ q \in 1..accepted
  <2>1. \/ p \in 1..accepted /\ before'[p] = before[p]
        \/ before'[p] = Answered
    BY <1>1, AnsweredKept DEF Settled
  <2> QED
    BY <1>0, <2>1, AnsweredKept DEF BeforeOK, Answered
<1>3. Removes(q, m) /\ m \in 1..accepted /\ stamp[m] = stamp[q]
  BY <1>2, RemovesKept
<1>4. Done(q)
  <2>1. op'[q] = op[q] /\ answer'[q] = answer[q] /\ targets'[q] = targets[q]
    BY <1>2, AnsweredKept DEF Settled
  <2>2. \A x \in targets[q] : call[q][x] # "refused"
    BY <1>0, <2>1, AnsweredKept DEF Done, TypeOK
  <2> QED
    BY <2>1, <2>2 DEF Done
<1>5. ASSUME p \in 1..accepted
      PROVE  m \notin got[p] /\ \A x \in Shards : m \notin body[p][x]
  <2>1. q \in before[p]
    BY <1>5, AnsweredKept DEF Settled
  <2> QED
    BY <1>3, <1>4, <2>1 DEF IInv, RemovedOK
<1>6. ASSUME NEW r \in Requests, NEW s \in Shards, Served(r, s), Data(r, s)
      PROVE  m \notin got'[p] /\ \A x \in Shards : m \notin body'[p][x]
  <2>1. p \in 1..accepted /\ got' = got
    BY <1>1, <1>6 DEF Served
  <2>2. \A x \in Shards : m \notin store[x]
    BY <1>2, <1>3, <1>4, DoneRemoved
  <2>3. call[m][s] # "checked"
    BY <1>3, SentStored DEF Removes
  <2> QED
    BY <1>5, <1>6, <2>1, <2>2, <2>3 DEF Data, Stores
<1>7. ASSUME NEW r \in Requests, NEW status, NEW R, NEW G,
             Proxied(r, status, R, G), Concludes(r, status, R, G)
      PROVE  m \notin got'[p] /\ \A x \in Shards : m \notin body'[p][x]
  <2>1. p \in 1..accepted /\ body' = body
    BY <1>1, <1>7 DEF Proxied
  <2>2. got'[p] = IF p = r THEN G ELSE got[p]
    BY <1>0, <1>7 DEF Proxied, TypeOK
  <2>3. rest[r] \subseteq Shards
    BY <1>0 DEF TypeOK
  <2>4. p = r => m \notin G
    BY <1>5, <1>7, <2>1, <2>3 DEF Concludes
  <2> QED
    BY <1>5, <2>1, <2>2, <2>4
<1>8. ASSUME NEW o \in Asked, NEW r \in Requests, Accepted(o, r)
      PROVE  m \notin got'[p] /\ \A x \in Shards : m \notin body'[p][x]
  <2>1. p \in 1..accepted \/ p > accepted
    BY <1>0 DEF TypeOK, Requests
  <2> QED
    BY <1>0, <1>5, <1>8, <2>1 DEF Accepted, FreshOK
<1>9. CASE Idle
  BY <1>1, <1>5, <1>9 DEF Idle
<1> QED
  BY <1>0, <1>6, <1>7, <1>8, <1>9, StepCases, ServedStep, DataStep, ProxiedStep, AcceptEffect

\* Both together.
LEMMA RemovedStep == IInv /\ [Next]_vars => RemovedOK'
BY RemovedHereStep, RemovedElsewhereStep DEF RemovedOK

\* A long poll reads the history when it joins, and a message that is not in
\* it then is gone.
LEMMA ReadStep == IInv /\ [Next]_vars => ReadOK'
<1> SUFFICES ASSUME IInv, [Next]_vars, NEW m \in Requests, NEW p \in Requests, NEW x \in targets'[m],
                    IsSent(m)', m \in before'[p],
                    op'[p].kind = "poll", op'[p].past, Covers(op'[p].id, op'[m].id),
                    call'[p][x] \in {"waiting", "ok"}
             PROVE  Gone(m)' \/ (call'[p][x] = "ok" /\ m \in body'[p][x])
  BY DEF ReadOK, Covers
<1>0. TypeOK /\ TypeOK' /\ FreshOK' /\ BeforeOK /\ x \in Shards
  BY TypeStep, FreshStep DEF IInv, TypeOK
<1>1. p \in 1..accepted'
  BY <1>0 DEF FreshOK, TypeOK, Requests
<1>2. ASSUME p \in 1..accepted
      PROVE  /\ IsSent(m) /\ m \in before[p] /\ x \in targets[m]
             /\ op[p] = op'[p] /\ op[m] = op'[m]
             /\ call[p][x] \in {"waiting", "ok"} => Gone(m) \/ (call[p][x] = "ok" /\ m \in body[p][x])
             /\ Gone(m) => Gone(m)'
  <2>1. before'[p] = before[p] /\ op'[p] = op[p]
    BY <1>2, AnsweredKept DEF Settled
  <2>2. m \in Answered
    BY <1>0, <2>1 DEF BeforeOK, Answered
  <2>3. op'[m] = op[m] /\ answer'[m] = answer[m] /\ targets'[m] = targets[m]
    BY <2>2, AnsweredKept DEF Settled
  <2>4. call[p][x] \in {"waiting", "ok"} => Gone(m) \/ (call[p][x] = "ok" /\ m \in body[p][x])
    BY <2>1, <2>3 DEF IInv, ReadOK, IsSent
  <2>5. IsSent(m) /\ x \in targets[m]
    BY <2>3 DEF IsSent
  <2>6. op[m].kind = "send" /\ call[m][x] = "ok"
    BY <1>0, <2>5, SentStored DEF IsSent
  <2>7. Gone(m) => Gone(m)'
    BY <1>0, <2>6, GoneKept
  <2> QED
    BY <2>1, <2>3, <2>4, <2>5, <2>7
<1>3. ASSUME NEW r \in Requests, NEW s \in Shards, Served(r, s), Data(r, s)
      PROVE  Gone(m)' \/ (call'[p][x] = "ok" /\ m \in body'[p][x])
  <2>1. p \in 1..accepted
    BY <1>1, <1>3 DEF Served
  <2>2. CASE call[p][x] \in {"waiting", "ok"}
    <3>1. Kept(p, x) \/ call[p][x] = "waiting"
      BY <1>0, <1>3, <2>2 DEF Served, Moves
    <3> QED
      BY <1>2, <2>1, <2>2, <3>1 DEF Kept
  <2>3. CASE call[p][x] \notin {"waiting", "ok"}
    <3>0. Kept(p, x) \/ (x = s /\ Moves(r, p, x))
      BY <1>0, <1>3 DEF Served
    <3>1. p = r /\ x = s /\ call[r][s] = "checked"
      BY <1>2, <2>1, <2>3, <3>0 DEF Kept, Moves, Diagonal
    <3>2. body'[r][s] = History(r, s) /\ (call'[r][s] = "ok" <=> body'[r][s] # {})
      BY <1>2, <1>3, <2>1, <3>1 DEF Data
    <3>3. m \in store[s] \/ Gone(m)
      BY <1>0, <1>2, <2>1, <3>1, SentStored
    <3>4. m \in store[s] => m \in History(r, s)
      BY <1>2, <2>1, <3>1 DEF History
    <3> QED
      BY <1>2, <2>1, <3>1, <3>2, <3>3, <3>4
  <2> QED
    BY <2>2, <2>3
<1>4. ASSUME NEW r \in Requests, NEW status, NEW R, NEW G, Proxied(r, status, R, G)
      PROVE  Gone(m)' \/ (call'[p][x] = "ok" /\ m \in body'[p][x])
  <2>1. p \in 1..accepted /\ body' = body
    BY <1>1, <1>4 DEF Proxied
  <2>2. call[p][x] \in {"waiting", "ok"} /\ (call[p][x] = "ok" => call'[p][x] = "ok")
    BY <1>0, <1>4 DEF Proxied
  <2> QED
    BY <1>2, <2>1, <2>2
<1>5. ASSUME NEW o \in Asked, NEW r \in Requests, Accepted(o, r)
      PROVE  Gone(m)' \/ (call'[p][x] = "ok" /\ m \in body'[p][x])
  <2>1. p # r /\ call[p][x] = call'[p][x] /\ body' = body
    BY <1>0, <1>5 DEF Accepted
  <2>2. p \in 1..accepted
    BY <1>0, <1>1, <1>5, <2>1, FanOutAssumption DEF Accepted, TypeOK
  <2> QED
    BY <1>2, <2>1, <2>2
<1>6. CASE Idle
  <2>1. UNCHANGED <<call, body, accepted>>
    BY <1>6 DEF Idle
  <2> QED
    BY <1>1, <1>2, <2>1
<1> QED
  BY <1>0, <1>3, <1>4, <1>5, <1>6, StepCases, ServedStep, DataStep, ProxiedStep, AcceptEffect

\* A shard ends or overruns the long polls that it answers with nothing.
LEMMA EmptyStep == IInv /\ [Next]_vars => EmptyOK'
<1> SUFFICES ASSUME IInv, [Next]_vars PROVE EmptyOK'
  OBVIOUS
<1>0. TypeOK /\ TypeOK'
  BY TypeStep DEF IInv
<1>1. ASSUME NEW r \in Requests, NEW s \in Shards, Served(r, s), Data(r, s), Trees(r, s)
      PROVE EmptyOK'
  <2> SUFFICES ASSUME NEW p \in Requests, op[p].kind = "poll"
               PROVE  /\ \A x \in Shards : call'[p][x] = "ok" /\ body'[p][x] = {} => p \in ended' \cup overrun'
                      /\ answer[p] = "none" /\ rest[p] # targets[p] /\ got[p] = {} => p \in ended' \cup overrun'
    BY <1>1 DEF EmptyOK, Served
  <2>1. ASSUME NEW x \in Shards, call'[p][x] = "ok", body'[p][x] = {} PROVE p \in ended' \cup overrun'
    <3>1. CASE Kept(p, x)
      BY <1>1, <2>1, <3>1 DEF IInv, EmptyOK, Kept, Served
    <3>2. CASE call[p][x] = "waiting"
      <4>1. behind[p][x] = 0 \/ body[p][x] # {}
        BY <3>2 DEF IInv, CallOK
      <4> QED
        BY <1>1, <2>1, <3>2, <4>1 DEF Data
    <3>3. CASE p = r /\ x = s /\ call[p][x] = "checked"
      BY <1>1, <2>1, <3>3 DEF Data
    <3>4. Kept(p, x) \/ (x = s /\ Moves(r, p, x))
      BY <1>1 DEF Served
    <3> QED
      BY <2>1, <3>1, <3>2, <3>3, <3>4 DEF Moves, Diagonal
  <2>2. answer[p] = "none" /\ rest[p] # targets[p] /\ got[p] = {} => p \in ended' \cup overrun'
    BY <1>1 DEF IInv, EmptyOK, Served
  <2> QED
    BY <2>1, <2>2
<1>2. ASSUME NEW r \in Requests, NEW status, NEW R, NEW G,
             Proxied(r, status, R, G), Concludes(r, status, R, G)
      PROVE EmptyOK'
  <2> SUFFICES ASSUME NEW p \in Requests, op[p].kind = "poll"
               PROVE  /\ \A x \in Shards : call'[p][x] = "ok" /\ body[p][x] = {} => p \in ended \cup overrun
                      /\ answer'[p] = "none" /\ rest'[p] # targets[p] /\ got'[p] = {} => p \in ended \cup overrun
    BY <1>2 DEF EmptyOK, Proxied
  <2>1. \A x \in Shards : call'[p][x] = "ok" /\ body[p][x] = {} => p \in ended \cup overrun
    BY <1>2 DEF IInv, EmptyOK, Proxied
  <2>2. CASE p = r
    <3>1. answer'[p] = status /\ got'[p] = G /\ rest[p] \subseteq Shards
      BY <1>0, <1>2, <2>2 DEF TypeOK, Proxied
    <3>2. status = "none" /\ G = {} => \E x \in rest[p] : call[p][x] = "ok" /\ body[p][x] = {}
      BY <1>2, <2>2 DEF Concludes, Diagonal
    <3> QED
      BY <2>1, <3>1, <3>2 DEF IInv, EmptyOK
  <2>3. CASE p # r
    <3>1. answer'[p] = answer[p] /\ got'[p] = got[p] /\ rest'[p] = rest[p]
      BY <1>0, <1>2, <2>3 DEF TypeOK, Proxied
    <3> QED
      BY <2>1, <3>1 DEF IInv, EmptyOK
  <2> QED
    BY <2>2, <2>3
<1>3. ASSUME NEW o \in Asked, NEW r \in Requests, Accepted(o, r)
      PROVE EmptyOK'
  <2>1. \A p \in Requests : p # r =>
          /\ answer'[p] = answer[p] /\ rest'[p] = rest[p] /\ got'[p] = got[p]
          /\ op'[p] = op[p] /\ targets'[p] = targets[p]
          /\ \A x \in Shards : call'[p][x] = call[p][x] /\ body'[p][x] = body[p][x]
    BY <1>0, <1>3 DEF TypeOK, Accepted
  <2>2. rest'[r] = targets'[r] /\ \A x \in Shards : call'[r][x] # "ok"
    BY <1>0, <1>3 DEF TypeOK, Accepted
  <2>3. ended' = ended /\ overrun' = overrun
    BY <1>3 DEF Accepted
  <2> QED
    BY <2>1, <2>2, <2>3 DEF IInv, EmptyOK
<1>4. CASE Idle
  BY <1>4 DEF Idle, IInv, EmptyOK
<1> QED
  BY <1>0, <1>1, <1>2, <1>3, <1>4, StepCases, ServedStep, DataStep, ProxiedStep, AcceptEffect

\* So does the proxy.
LEMMA EmptyOnlyStep == IInv /\ [Next]_vars => EmptyOnlyWhenEnded'
<1> SUFFICES ASSUME IInv, [Next]_vars PROVE EmptyOnlyWhenEnded'
  OBVIOUS
<1>0. TypeOK /\ TypeOK'
  BY TypeStep DEF IInv
<1>1. ASSUME NEW r \in Requests, NEW s \in Shards, Served(r, s), Data(r, s), Trees(r, s)
      PROVE EmptyOnlyWhenEnded'
  BY <1>1 DEF IInv, EmptyOnlyWhenEnded, Served
<1>2. ASSUME NEW r \in Requests, NEW status, NEW R, NEW G,
             Proxied(r, status, R, G), Concludes(r, status, R, G)
      PROVE EmptyOnlyWhenEnded'
  <2> SUFFICES ASSUME NEW p \in Requests, op[p].kind = "poll", answer'[p] = "ok", got'[p] = {}
               PROVE  p \in ended \cup overrun
    BY <1>2 DEF EmptyOnlyWhenEnded, Proxied
  <2>1. CASE p = r
    <3>1. /\ status = "ok" /\ G = {} /\ rest[p] \subseteq Shards /\ answer[p] = "none"
      BY <1>0, <1>2, <2>1 DEF TypeOK, Proxied
    <3>2. \/ \E x \in rest[p] : call[p][x] = "ok" /\ body[p][x] = {}
          \/ rest[p] # targets[p] /\ got[p] = {}
      BY <1>2, <2>1, <3>1 DEF Concludes, Diagonal
    <3> QED
      BY <3>1, <3>2 DEF IInv, EmptyOK
  <2>2. CASE p # r
    <3>1. answer'[p] = answer[p] /\ got'[p] = got[p]
      BY <1>0, <1>2, <2>2 DEF TypeOK, Proxied
    <3> QED
      BY <3>1 DEF IInv, EmptyOnlyWhenEnded
  <2> QED
    BY <2>1, <2>2
<1>3. ASSUME NEW o \in Asked, NEW r \in Requests, Accepted(o, r)
      PROVE EmptyOnlyWhenEnded'
  <2>1. \A p \in Requests : p # r => answer'[p] = answer[p] /\ got'[p] = got[p] /\ op'[p] = op[p]
    BY <1>0, <1>3 DEF TypeOK, Accepted
  <2>2. answer'[r] # "ok"
    BY <1>0, <1>3, FanOutAssumption DEF TypeOK, Accepted, IInv, FreshOK
  <2>3. ended' = ended /\ overrun' = overrun
    BY <1>3 DEF Accepted
  <2> QED
    BY <2>1, <2>2, <2>3 DEF IInv, EmptyOnlyWhenEnded
<1>4. CASE Idle
  BY <1>4 DEF Idle, IInv, EmptyOnlyWhenEnded
<1> QED
  BY <1>0, <1>1, <1>2, <1>3, <1>4, StepCases, ServedStep, DataStep, ProxiedStep, AcceptEffect

\* A request that is alone is the only one to create and to drop the queue.
LEMMA AgreeStep == IInv /\ [Next]_vars => AgreeOK'
<1> SUFFICES ASSUME IInv, [Next]_vars PROVE AgreeOK'
  OBVIOUS
<1>0. TypeOK /\ TypeOK'
  BY TypeStep DEF IInv
<1>1. ASSUME NEW r \in Requests, NEW s \in Shards, Served(r, s), Data(r, s), Trees(r, s)
      PROVE AgreeOK'
  <2>0. AgreeOK /\ CallOK
    BY DEF IInv
  <2>1. last # 0 => last \in Requests /\ last <= accepted /\ op[last].kind \in Diagonal
    BY <1>0, <2>0, FanOutAssumption DEF AgreeOK, TypeOK, Requests
  <2>2. ASSUME alone, NEW q \in Requests, NEW x \in Shards, op[q].kind \in Diagonal, call'[q][x] = "sent"
        PROVE  q = last
    <3>1. call[q][x] = "sent"
      BY <1>1, <2>2 DEF Served, Kept, Moves
    <3> QED
      BY <2>0, <2>2, <3>1 DEF AgreeOK
  <2>3. ASSUME alone, last # 0, NEW x \in Shards \ reopened', call'[last][x] = "ok"
        PROVE  x \in open' <=> op[last].kind # "close"
    <3>1. x \notin reopened /\ (call[last][x] = "ok" => (x \in open <=> op[last].kind # "close"))
      BY <1>1, <2>0, <2>3 DEF AgreeOK, Trees
    <3>2. call[last][x] # "ok" => x = s /\ last = r /\ call[r][s] = "sent"
      BY <1>1, <2>0, <2>1, <2>3 DEF Served, Kept, Moves, CallOK, Diagonal
    <3>3. CASE /\ op[r].kind \in Diagonal /\ call[r][s] = "sent" /\ reopened' = reopened
               /\ open' = IF op[r].kind = "close" THEN open \ {s} ELSE open \cup {s}
      <4>1. r = last
        BY <2>0, <2>3, <3>3 DEF AgreeOK
      <4> QED
        BY <3>1, <3>2, <3>3, <4>1
    <3>4. CASE /\ op[r].kind \in Diagonal /\ call[r][s] = "sent" => call'[r][s] # "ok"
               /\ open' = open \/ (open' = open \cup {s} /\ s \in open \cup reopened')
      <4>1. call[last][x] = "ok"
        BY <2>1, <2>3, <3>2, <3>4
      <4> QED
        BY <2>3, <3>1, <3>4, <4>1
    <3> QED
      BY <1>1, <3>3, <3>4 DEF Trees
  <2>4. UNCHANGED <<last, alone, op, accepted>>
    BY <1>1 DEF Served
  <2> QED
    BY <2>1, <2>2, <2>3, <2>4 DEF AgreeOK
<1>2. ASSUME NEW r \in Requests, NEW status, NEW R, NEW G,
             Proxied(r, status, R, G), Concludes(r, status, R, G)
      PROVE AgreeOK'
  <2>1. \A q \in Requests, x \in Shards : call'[q][x] \in {"sent", "ok"} => call'[q][x] = call[q][x]
    BY <1>2 DEF Proxied
  <2>2. UNCHANGED <<last, alone, op, accepted, open, reopened>>
    BY <1>2 DEF Proxied
  <2>3. last # 0 => last \in Requests
    BY <1>0, FanOutAssumption DEF TypeOK, Requests
  <2> QED
    BY <2>1, <2>2, <2>3 DEF IInv, AgreeOK
<1>3. ASSUME NEW o \in Asked, NEW r \in Requests, Accepted(o, r)
      PROVE AgreeOK'
  <2>0. AgreeOK /\ (last # 0 => last \in Requests /\ last <= accepted /\ last # r)
    BY <1>0, <1>3, FanOutAssumption DEF IInv, AgreeOK, TypeOK, Requests, Accepted
  <2>1. \A q \in Requests : q # r =>
          op'[q] = op[q] /\ \A x \in Shards : call'[q][x] = call[q][x]
    BY <1>0, <1>3 DEF TypeOK, Accepted
  <2>2. /\ op'[r] = o /\ r # 0 /\ accepted' = r /\ accepted <= accepted'
        /\ \A x \in Shards : call'[r][x] # "ok"
        /\ open' = open
    <3>1. r # 0 /\ accepted' = r /\ accepted <= accepted'
      BY <1>0, <1>3, FanOutAssumption DEF TypeOK, Requests, Accepted
    <3>2. op'[r] = o /\ open' = open
      BY <1>0, <1>3 DEF TypeOK, Accepted
    <3>3. \A x \in Shards : call'[r][x] # "ok"
      BY <1>3 DEF Accepted
    <3> QED
      BY <3>1, <3>2, <3>3
  <2>3. CASE o.kind \in Diagonal /\ last' = r /\ alone' = (UnderWay = {}) /\ reopened' = {}
    <3>1. r <= accepted'
      BY <2>2 DEF Requests
    <3>2. ASSUME alone', NEW q \in Requests, NEW x \in Shards,
                 op'[q].kind \in Diagonal, call'[q][x] = "sent", q # r
          PROVE  FALSE
      <4>1. UnderWay = {}
        BY <2>3, <3>2
      <4>2. q \in UnderWay
        BY <2>1, <3>2 DEF UnderWay
      <4> QED
        BY <4>1, <4>2
    <3> QED
      BY <2>2, <2>3, <3>1, <3>2 DEF AgreeOK
  <2>4. CASE o.kind \notin Diagonal /\ UNCHANGED <<last, alone, reopened>>
    <3>1. last # 0 => last <= accepted' /\ op'[last] = op[last]
      <4>1. accepted \in Nat /\ accepted' \in Nat /\ (last # 0 => last \in Nat)
        BY <1>0, <2>0, FanOutAssumption DEF TypeOK, Requests
      <4> QED
        BY <2>0, <2>1, <2>2, <4>1
    <3>2. ASSUME alone', NEW q \in Requests, NEW x \in Shards,
                 op'[q].kind \in Diagonal, call'[q][x] = "sent"
          PROVE  q = last'
      BY <2>0, <2>1, <2>2, <2>4, <3>2 DEF AgreeOK
    <3>3. ASSUME alone', last' # 0, NEW x \in Shards \ reopened', call'[last'][x] = "ok"
          PROVE  x \in open' <=> op'[last'].kind # "close"
      BY <2>0, <2>1, <2>2, <2>4, <3>1, <3>3 DEF AgreeOK
    <3> QED
      BY <2>0, <2>4, <3>1, <3>2, <3>3 DEF AgreeOK
  <2> QED
    BY <1>3, <2>3, <2>4 DEF Accepted
<1>4. CASE Idle
  BY <1>4 DEF Idle, IInv, AgreeOK
<1> QED
  BY <1>0, <1>1, <1>2, <1>3, <1>4, StepCases, ServedStep, DataStep, ProxiedStep, AcceptEffect

-----------------------------------------------------------------------------
\* The invariant holds before the first request.
LEMMA InitInv == Init => IInv
<1> SUFFICES ASSUME Init PROVE IInv
  OBVIOUS
<1>1. TypeOK
  BY FanOutAssumption DEF Init, TypeOK, Requests, Calls
<1>2. FreshOK /\ RingOK /\ CallOK /\ SeqOK /\ StoreOK /\ BeforeOK
  BY FanOutAssumption DEF Init, FreshOK, RingOK, CallOK, SeqOK, StoreOK, BeforeOK
<1>3. AnswerOK /\ ReadOK /\ EmptyOK /\ EmptyOnlyWhenEnded
  BY DEF Init, AnswerOK, ReadOK, EmptyOK, EmptyOnlyWhenEnded, NoOp
<1>4. RemovedOK /\ AgreeOK
  BY DEF Init, RemovedOK, Removes, AgreeOK, NoOp, Diagonal
<1> QED
  BY <1>1, <1>2, <1>3, <1>4 DEF IInv

\* The invariant is inductive.
LEMMA NextInv == IInv /\ [Next]_vars => IInv'
<1> SUFFICES ASSUME IInv, [Next]_vars PROVE IInv'
  OBVIOUS
<1> QED
  BY TypeStep, FreshStep, RingStep, CallStep, SeqStep, StoreStep, BeforeStep, AnswerStep,
     RemovedStep, ReadStep, EmptyStep, EmptyOnlyStep, AgreeStep DEF IInv

\* So it holds in every state.
LEMMA Inductive == Spec => []IInv
BY InitInv, NextInv, PTL DEF Spec

-----------------------------------------------------------------------------
(* Theorems.                                                                *)

\* The proxy and its shards keep their types, and a request without an answer
\* has a shard to wait for: none is left that nothing can answer.
THEOREM TypeCorrect == Spec => []TypeOK
<1>1. IInv => TypeOK
  BY DEF IInv
<1> QED
  BY <1>1, Inductive, PTL

\* A long poll returns an empty list only when, while it waited, the queue was
\* closed, its id deleted, or one of its channels overrun: through any number
\* of shards, whichever of them answer before the proxy's second is over.
THEOREM EmptyAnswers == Spec => []EmptyOnlyWhenEnded
<1>1. IInv => EmptyOnlyWhenEnded
  BY DEF IInv
<1> QED
  BY <1>1, Inductive, PTL

\* What a delete or a close that the proxy calls a success has removed is not
\* handed out again.
THEOREM RemovedForGood == Spec => []RemovedStaysRemoved
<1>1. IInv => RemovedStaysRemoved
  BY DEF IInv, RemovedOK, RemovedStaysRemoved, Removes, Done, Diagonal
<1> QED
  BY <1>1, Inductive, PTL

\* A long poll for the history finds every message that was answered before it
\* came, if the ring did not change in between and neither a delete or a close
\* nor max_key_updates - 1 newer messages of its id have taken it away.
THEOREM HistoryFound == Spec => []HistoryReachable
<1>1. ASSUME IInv, NEW m \in Requests, NEW p \in Requests,
             IsSent(m), m \in before[p], stamp[m] = stamp[p],
             op[p].kind = "poll", op[p].past, Covers(op[p].id, op[m].id), answer[p] = "ok"
      PROVE  m \in got[p] \cup removed \/ Superseded(m) \/ targets[m] \subseteq rest[p]
  <2>1. m \in 1..accepted /\ p \in 1..accepted
    BY <1>1 DEF IInv, FreshOK, TypeOK, Requests, IsSent, NoOp
  <2>2. targets[m] \subseteq targets[p]
    BY <1>1, <2>1, TargetsMeet DEF IsSent
  <2>3. ASSUME NEW x \in targets[m], x \notin rest[p]
        PROVE  m \in got[p] \/ Gone(m)
    <3>1. call[p][x] = "ok" /\ body[p][x] \subseteq got[p]
      BY <1>1, <2>2, <2>3 DEF IInv, AnswerOK
    <3>2. Gone(m) \/ m \in body[p][x]
      BY <1>1, <3>1 DEF IInv, ReadOK
    <3> QED
      BY <3>1, <3>2
  <2> QED
    BY <2>3 DEF Gone
<1>2. IInv => HistoryReachable
  BY <1>1 DEF HistoryReachable
<1> QED
  BY <1>2, Inductive, PTL

\* After a create, delete or close that ran alone and that no shard refused,
\* its shards agree whether the queue exists.
THEOREM Agreement == Spec => []ShardsAgree
<1>1. ASSUME IInv, last # 0, alone, Done(last), NEW s \in targets[last] \ reopened
      PROVE  (s \in open) = (op[last].kind # "close")
  <2>1. last \in Requests /\ s \in Shards
    BY <1>1, FanOutAssumption DEF IInv, TypeOK, Requests
  <2>2. call[last][s] = "ok"
    BY <1>1, <2>1 DEF IInv, AnswerOK, Done
  <2> QED
    BY <1>1, <2>1, <2>2 DEF IInv, AgreeOK
<1>2. IInv => ShardsAgree
  BY <1>1 DEF ShardsAgree
<1> QED
  BY <1>2, Inductive, PTL
=============================================================================
