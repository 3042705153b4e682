-------------------------- MODULE ProxyClients_proofs --------------------------
(***************************************************************************)
(* Machine-checked proofs about ProxyClients, for every number of requests *)
(* and client actors, every capacity of a channel and every bound.         *)
(***************************************************************************)
EXTENDS ProxyClients, TLAPS

USE DEF mapVars, upVars, subVars, pastVars

-----------------------------------------------------------------------------
(* The inductive invariant, in parts.                                       *)

\* Where a request is with its client.
RequestOK ==
  \A s \in Subs :
    /\ pc[s] \in {"idle", "insert"} => target[s] = NoClient /\ s \notin refused
    /\ pc[s] \notin {"start", "open"} => rx[s] = NoClient
    /\ rx[s] # NoClient => rx[s] = target[s]
    /\ rx[s] = NoClient => inbox[s] = <<>> /\ s \notin lagged
    /\ pc[s] \notin {"open", "closed"} => received[s] = <<>>
    /\ pc[s] = "idle" => s \notin private

\* The request that creates a client is the first in its mailbox, and the
\* client does nothing before it has handled that message.
OwnerOK ==
  \A c \in Clients :
    /\ state[c] = "new" <=> owner[c] = NoClient
    /\ owner[c] # NoClient =>
         target[owner[c]] = c /\ pc[owner[c]] \notin {"idle", "insert", "send"}
    /\ state[c] = "fresh" => mailbox[c] # <<>> /\ Head(mailbox[c]) = owner[c]
    /\ owner[c] # NoClient /\ pc[owner[c]] = "await" => state[c] = "fresh"
    /\ link[c] => state[c] = "running"
    /\ \A s \in Subs : rx[s] = c => state[c] \in {"running", "stopped"}

\* A mailbox holds requests that wait for an answer of this client, or did.
MailOK ==
  \A c \in Clients : \A k \in DOMAIN mailbox[c] :
    target[mailbox[c][k]] = c /\ pc[mailbox[c][k]] \notin {"idle", "insert", "send"}

\* Requests with a sequence share nothing.
PrivateOK ==
  /\ addr # NoClient => owner[addr] # NoClient /\ owner[addr] \notin private
  /\ \A s \in Subs : target[s] # NoClient =>
       IF s \in private THEN owner[target[s]] = s
       ELSE owner[target[s]] # NoClient /\ owner[target[s]] \notin private

\* What the socket of s has been given and what its Receiver has to read; an
\* overrun Receiver is not read any more.
Pipe(s) == IF s \in lagged THEN received[s] ELSE received[s] \o inbox[s]

\* A sequence of frames in order, and without a gap but at the numbers in S.
Rising(q) == \A i, j \in DOMAIN q : i < j /\ q[i] > 0 /\ q[j] > 0 => q[i] < q[j]
Gapless(q, S) ==
  \A i \in DOMAIN q : i + 1 \in DOMAIN q /\ q[i] > 0 /\ q[i + 1] > 0 =>
    q[i + 1] = q[i] + 1 \/ q[i + 1] \in S

\* What a client has yet to handle of its connection ends with the frame that
\* arrived last, unless it ends with Close.
UpstreamOK ==
  \A c \in Clients :
    LET u == upstream[c]
    IN  /\ ~link[c] => u = <<>>
        /\ Rising(u) /\ Gapless(u, {})
        /\ \A i \in DOMAIN u : u[i] >= 0 /\ u[i] <= arrived[c]
        /\ u # <<>> /\ u[Len(u)] # CloseFrame => u[Len(u)] = arrived[c]

\* What the sockets get is in order.
PipeOK ==
  \A s \in Subs, c \in Clients : target[s] = c =>
    LET q == Pipe(s)
    IN  /\ Rising(q) /\ Gapless(q, starts[c])
        /\ owner[c] = s /\ q # <<>> /\ q[1] > 0 => q[1] \in starts[c]
        /\ \A i \in DOMAIN q : q[i] <= arrived[c]

\* The frame that a client handles next, now or when it has arrived.
NextFrame(c) == IF upstream[c] = <<>> THEN arrived[c] + 1 ELSE upstream[c][1]

\* And goes on with what the client has yet to handle.
JointOK ==
  \A s \in Subs, c \in Clients : rx[s] = c /\ s \notin lagged =>
    LET q == Pipe(s)
        n == NextFrame(c)
    IN  /\ \A i \in DOMAIN q, k \in DOMAIN upstream[c] : upstream[c][k] > 0 => q[i] < upstream[c][k]
        /\ link[c] /\ n > 0 =>
             /\ q # <<>> /\ q[Len(q)] > 0 => n = q[Len(q)] + 1 \/ n \in starts[c]
             /\ q = <<>> /\ owner[c] = s => n \in starts[c]

\* A request that is about to create a shared client could not see the one
\* that the map holds by now.
LookedOK ==
  \A s \in Subs :
    /\ pc[s] # "idle" => \A c \in Clients : state[c] = "new" => c \in unseen[s]
    /\ pc[s] = "insert" /\ s \notin private /\ connected(addr) => addr \in unseen[s]
    /\ pc[s] \in {"idle", "insert"} => \A c \in Clients : <<c, s>> \notin displaced

IInv ==
  /\ TypeOK /\ RequestOK /\ OwnerOK /\ MailOK /\ PrivateOK
  /\ UpstreamOK /\ PipeOK /\ JointOK /\ LookedOK
  /\ CreatorServed /\ OrphansOnlyFromRace

-----------------------------------------------------------------------------
(* Types.                                                                   *)

\* A send reaches the Receivers of c or overruns them.
LEMMA SendEffect ==
  ASSUME TypeOK, NEW c \in Clients, NEW f \in Frames, Send(c, f)
  PROVE  /\ lagged \subseteq lagged' /\ lagged' \subseteq Subs
         /\ inbox' \in [Subs -> Seq(Frames)]
         /\ \A s \in Subs :
              IF rx[s] # c THEN inbox'[s] = inbox[s] /\ (s \in lagged' => s \in lagged)
              ELSE s \notin lagged' => inbox'[s] = Append(inbox[s], f)
<1>1. inbox \in [Subs -> Seq(Frames)] /\ <<>> \in Seq(Frames)
  BY DEF TypeOK
<1>2. \A s \in Subs : Append(inbox[s], f) \in Seq(Frames)
  BY <1>1
<1>3. inbox' \in [Subs -> Seq(Frames)]
  BY <1>1, <1>2 DEF Send
<1> QED
  BY <1>1, <1>3 DEF Send, Receivers, TypeOK

\* The steps by which a client stops keep the types.
LEMMA StopTypes ==
  ASSUME TypeOK, NEW c \in Clients, Stop(c)
  PROVE  TypeOK'
<1>1. Stopped \in Frames /\ Send(c, Stopped)
  BY ProxyClientsAssumption DEF Stopped, Frames, Stop
<1>2. inbox' \in [Subs -> Seq(Frames)] /\ lagged' \subseteq Subs
  BY <1>1, SendEffect
<1>3. <<>> \in Seq(Subs) /\ <<>> \in Seq(Frames)
  OBVIOUS
<1>4. /\ state' \in [Clients -> {"new", "fresh", "running", "stopped"}]
      /\ mailbox' \in [Clients -> Seq(Subs)]
      /\ link' \in [Clients -> BOOLEAN]
      /\ upstream' \in [Clients -> Seq(Frames)]
  BY <1>3 DEF TypeOK, Stop
<1>5. pc' \in [Subs -> SubPC] /\ refused' \subseteq Subs
  BY DEF TypeOK, Stop, SubPC
<1> QED
  BY <1>2, <1>4, <1>5 DEF TypeOK, Stop

\* So do the steps by which a socket closes.
LEMMA CloseTypes ==
  ASSUME TypeOK, NEW s \in Subs, Close(s), UNCHANGED pastVars
  PROVE  TypeOK'
<1>1. <<>> \in Seq(Frames)
  OBVIOUS
<1> QED
  BY <1>1 DEF TypeOK, Close, SubPC

\* Every step keeps the types.
LEMMA TypeStep == TypeOK /\ [Next]_vars => TypeOK'
<1> USE ProxyClientsAssumption
<1> SUFFICES ASSUME TypeOK, [Next]_vars PROVE TypeOK'
  OBVIOUS
<1>1. ASSUME NEW s \in Subs, NEW sequence \in BOOLEAN, GetAddr(s, sequence) PROVE TypeOK'
  <2>1. /\ private' \subseteq private \cup {s}
        /\ unseen' = [unseen EXCEPT ![s] = {c \in Clients : state[c] = "new"}]
        /\ UNCHANGED <<mapVars, upVars, rx, inbox, lagged, received, starts, displaced, refused>>
        /\ \/ pc' = [pc EXCEPT ![s] = "send"] /\ target' = [target EXCEPT ![s] = addr]
           \/ pc' = [pc EXCEPT ![s] = "insert"] /\ target' = target
    BY <1>1 DEF GetAddr
  <2>2. /\ pc \in [Subs -> SubPC] /\ "send" \in SubPC /\ "insert" \in SubPC
        /\ target \in [Subs -> Clients \cup {NoClient}] /\ addr \in Clients \cup {NoClient}
    BY DEF TypeOK, SubPC
  <2>3. pc' \in [Subs -> SubPC]
    <3>1. CASE pc' = [pc EXCEPT ![s] = "send"]
      BY <2>2, <3>1
    <3>2. CASE pc' = [pc EXCEPT ![s] = "insert"]
      BY <2>2, <3>2
    <3> QED
      BY <2>1, <3>1, <3>2
  <2>4. target' \in [Subs -> Clients \cup {NoClient}]
    <3>1. CASE target' = [target EXCEPT ![s] = addr]
      BY <2>2, <3>1
    <3> QED
      BY <2>1, <2>2, <3>1
  <2> QED
    BY <2>1, <2>3, <2>4 DEF TypeOK
<1>2. ASSUME NEW s \in Subs, Insert(s) PROVE TypeOK'
  <2>1. PICK c \in Clients :
          /\ state' = [state EXCEPT ![c] = "fresh"]
          /\ mailbox' = [mailbox EXCEPT ![c] = <<s>>]
          /\ target' = [target EXCEPT ![s] = c]
          /\ owner' = [owner EXCEPT ![c] = s]
          /\ addr' = IF s \in private THEN addr ELSE c
          /\ displaced' = IF s \notin private /\ connected(addr)
                          THEN displaced \cup {<<addr, s>>} ELSE displaced
    BY <1>2 DEF Insert
  <2>2. <<s>> \in Seq(Subs)
    OBVIOUS
  <2>3. displaced' \subseteq Clients \X Subs
    BY <2>1 DEF TypeOK, connected
  <2>4. mailbox' \in [Clients -> Seq(Subs)]
    BY <2>1, <2>2 DEF TypeOK
  <2>5. pc' = [pc EXCEPT ![s] = "await"]
    BY <1>2 DEF Insert
  <2>6. UNCHANGED <<upVars, private, rx, inbox, lagged, received, starts, unseen, refused>>
    BY <1>2 DEF Insert
  <2> QED
    BY <2>1, <2>3, <2>4, <2>5, <2>6 DEF TypeOK, SubPC
<1>3. ASSUME NEW s \in Subs, SendSubscribe(s) PROVE TypeOK'
  <2>1. target[s] \in Clients => Append(mailbox[target[s]], s) \in Seq(Subs)
    BY DEF TypeOK
  <2>2. CASE connected(target[s])
    <3>1. target[s] \in Clients
      BY <2>2 DEF TypeOK, connected
    <3>2. mailbox' = [mailbox EXCEPT ![target[s]] = Append(mailbox[target[s]], s)]
      BY <1>3, <2>2, <3>1 DEF SendSubscribe, TypeOK
    <3>3. mailbox' \in [Clients -> Seq(Subs)]
      BY <2>1, <3>1, <3>2 DEF TypeOK
    <3> QED
      BY <1>3, <2>2, <3>3 DEF TypeOK, SendSubscribe, SubPC
  <2>3. CASE ~connected(target[s])
    <3>1. /\ pc' = [pc EXCEPT ![s] = "start"] /\ refused' = refused \cup {s}
          /\ UNCHANGED <<mapVars, upVars, private, target, rx, inbox, lagged, received, starts, unseen, displaced>>
      BY <1>3, <2>3 DEF SendSubscribe
    <3> QED
      BY <3>1 DEF TypeOK, SubPC
  <2> QED
    BY <2>2, <2>3
<1>4. ASSUME NEW s \in Subs, Started(s) PROVE TypeOK'
  BY <1>4, CloseTypes DEF TypeOK, Started, SubPC
<1>5. ASSUME NEW s \in Subs, HandleResponse(s) PROVE TypeOK'
  <2>1. CASE Head(inbox[s]) \in {CloseFrame, Stopped}
    BY <1>5, <2>1, CloseTypes DEF HandleResponse
  <2>2. CASE Head(inbox[s]) \notin {CloseFrame, Stopped}
    <3>1. inbox[s] \in Seq(Frames) /\ inbox[s] # <<>>
      BY <1>5 DEF TypeOK, HandleResponse
    <3>2. Head(inbox[s]) \in Frames /\ Tail(inbox[s]) \in Seq(Frames)
      BY <3>1
    <3>3. Head(inbox[s]) \in Nat \ {CloseFrame}
      BY <2>2, <3>2 DEF Frames, CloseFrame, Stopped
    <3>4. received[s] \in Seq(Nat \ {CloseFrame})
      BY DEF TypeOK
    <3>5. Append(received[s], Head(inbox[s])) \in Seq(Nat \ {CloseFrame})
      BY <3>3, <3>4
    <3>6. /\ received' = [received EXCEPT ![s] = Append(received[s], Head(inbox[s]))]
          /\ inbox' = [inbox EXCEPT ![s] = Tail(inbox[s])]
          /\ UNCHANGED <<mapVars, upVars, private, pc, target, rx, lagged, starts, unseen, displaced, refused>>
      BY <1>5, <2>2 DEF TypeOK, HandleResponse
    <3> QED
      BY <3>2, <3>5, <3>6 DEF TypeOK
  <2> QED
    BY <2>1, <2>2
<1>6. ASSUME NEW s \in Subs, StreamEnds(s) PROVE TypeOK'
  BY <1>6, CloseTypes DEF StreamEnds
<1>7. ASSUME NEW s \in Subs, BrowserGone(s) PROVE TypeOK'
  BY <1>7, CloseTypes DEF BrowserGone
<1>8. ASSUME NEW c \in Clients, HandleSubscribe(c) PROVE TypeOK'
  <2>1. Head(mailbox[c]) \in Subs /\ Tail(mailbox[c]) \in Seq(Subs)
    BY <1>8 DEF TypeOK, HandleSubscribe
  <2>2. mailbox' \in [Clients -> Seq(Subs)] /\ state' \in [Clients -> {"new", "fresh", "running", "stopped"}]
    BY <1>8, <2>1 DEF TypeOK, HandleSubscribe
  <2>3. rx' \in [Subs -> Clients \cup {NoClient}] /\ pc' \in [Subs -> SubPC]
    <3> DEFINE s == Head(mailbox[c])
    <3>1. s \in Subs
      BY <2>1
    <3>2. \/ rx' = [rx EXCEPT ![s] = c] /\ pc' = [pc EXCEPT ![s] = "start"]
          \/ rx' = rx /\ pc' = pc
      BY <1>8 DEF HandleSubscribe
    <3>3. "start" \in SubPC /\ pc \in [Subs -> SubPC] /\ rx \in [Subs -> Clients \cup {NoClient}]
      BY DEF TypeOK, SubPC
    <3> HIDE DEF s
    <3>4. CASE rx' = [rx EXCEPT ![s] = c] /\ pc' = [pc EXCEPT ![s] = "start"]
      BY <3>1, <3>3, <3>4
    <3> QED
      BY <3>2, <3>3, <3>4
  <2> QED
    BY <1>8, <2>2, <2>3 DEF TypeOK, HandleSubscribe
<1>9. ASSUME NEW c \in Clients, CloseEmptyConnection(c) \/ HandleError(c) PROVE TypeOK'
  BY <1>9, StopTypes DEF CloseEmptyConnection, HandleError
<1>10. ASSUME NEW c \in Clients, Connect(c) PROVE TypeOK'
  <2>1. arrived[c] + 1 \in Nat \ {CloseFrame}
    BY DEF TypeOK, CloseFrame
  <2>2. CASE Stop(c)
    BY <2>2, StopTypes
  <2>3. CASE /\ link' = [link EXCEPT ![c] = TRUE]
             /\ starts' = [starts EXCEPT ![c] = starts[c] \cup {arrived[c] + 1}]
             /\ UNCHANGED <<mapVars, upstream, arrived, reloads, subVars, received,
                            unseen, displaced, refused>>
    <3>1. starts' \in [Clients -> SUBSET (Nat \ {CloseFrame})]
      BY <2>1, <2>3 DEF TypeOK
    <3> QED
      BY <2>3, <3>1 DEF TypeOK
  <2> QED
    BY <1>10, <2>2, <2>3 DEF Connect, TypeOK
<1>11. ASSUME NEW c \in Clients, HandleFrame(c) PROVE TypeOK'
  <2>1. CASE Stop(c)
    BY <2>1, StopTypes
  <2>2. CASE Receivers(c) # {}
    <3>1. upstream[c] \in Seq(Frames) /\ upstream[c] # <<>>
      BY <1>11 DEF TypeOK, HandleFrame
    <3>2. Head(upstream[c]) \in Frames /\ Tail(upstream[c]) \in Seq(Frames) /\ <<>> \in Seq(Frames)
      BY <3>1
    <3>3. Send(c, Head(upstream[c])) /\ UNCHANGED <<mapVars, arrived, reloads, private, pc, target, rx, pastVars>>
      BY <1>11, <2>2 DEF HandleFrame
    <3>4. inbox' \in [Subs -> Seq(Frames)] /\ lagged' \subseteq Subs
      BY <3>2, <3>3, SendEffect
    <3>5. upstream' \in [Clients -> Seq(Frames)] /\ link' \in [Clients -> BOOLEAN]
      <4>1. CASE Restart(c)
        BY <3>2, <4>1 DEF Restart, TypeOK
      <4>2. CASE upstream' = [upstream EXCEPT ![c] = Tail(upstream[c])] /\ UNCHANGED link
        BY <3>2, <4>2 DEF TypeOK
      <4> QED
        BY <1>11, <2>2, <4>1, <4>2 DEF HandleFrame, TypeOK
    <3> QED
      BY <3>3, <3>4, <3>5 DEF TypeOK
  <2> QED
    BY <1>11, <2>1, <2>2 DEF HandleFrame
<1>12. ASSUME NEW c \in Clients, Finished(c) PROVE TypeOK'
  <2>1. <<>> \in Seq(Frames)
    OBVIOUS
  <2> QED
    BY <1>12, <2>1 DEF TypeOK, Finished, Restart
<1>13. ASSUME NEW c \in Clients, ShardCloses(c) PROVE TypeOK'
  <2>1. upstream[c] \in Seq(Frames) /\ CloseFrame \in Frames
    BY DEF TypeOK, CloseFrame, Frames
  <2>2. Append(upstream[c], CloseFrame) \in Seq(Frames)
    BY <2>1
  <2> QED
    BY <1>13, <2>2 DEF TypeOK, ShardCloses
<1>14. ASSUME NEW c \in Clients, Arrive(c) PROVE TypeOK'
  <2>1. upstream[c] \in Seq(Frames) /\ arrived[c] + 1 \in Frames /\ arrived[c] + 1 \in Nat
    BY DEF TypeOK, Frames
  <2>2. Append(upstream[c], arrived[c] + 1) \in Seq(Frames)
    BY <2>1
  <2>3. /\ arrived' = [arrived EXCEPT ![c] = arrived[c] + 1]
        /\ upstream' = [upstream EXCEPT ![c] = Append(upstream[c], arrived[c] + 1)]
        /\ UNCHANGED <<mapVars, link, reloads, subVars, pastVars>>
    BY <1>14 DEF Arrive, TypeOK
  <2> QED
    BY <2>1, <2>2, <2>3 DEF TypeOK
<1>15. CASE clear
  BY <1>15 DEF TypeOK, clear
<1>16. CASE UNCHANGED vars
  BY <1>16 DEF TypeOK, vars
<1> QED
  BY <1>1, <1>2, <1>3, <1>4, <1>5, <1>6, <1>7, <1>8, <1>9, <1>10, <1>11, <1>12, <1>13,
     <1>14, <1>15, <1>16 DEF Next, Handler, Client
-----------------------------------------------------------------------------
(* The steps, by what they do to requests and clients.                      *)

\* Frames move: nothing but the content of the pipes changes.
Quiet ==
  /\ UNCHANGED <<addr, owner, state, mailbox, private, pc, target, rx, refused, displaced, unseen>>
  /\ \A c \in Clients : link'[c] => link[c] \/ state[c] = "running"
  /\ \A s \in Subs :
       /\ rx[s] = NoClient => inbox'[s] = inbox[s] /\ (s \in lagged' => s \in lagged)
       /\ pc[s] # "open" => received'[s] = received[s]

Stops(c) == state[c] = "running" /\ Stop(c)

Closes(s) == pc[s] \notin {"idle", "send"} /\ Close(s) /\ UNCHANGED pastVars

Opens(s) ==
  /\ pc[s] = "start" /\ rx[s] # NoClient
  /\ pc' = [pc EXCEPT ![s] = "open"]
  /\ UNCHANGED <<mapVars, upVars, private, target, rx, inbox, lagged, pastVars>>

\* What the parts of the invariant about requests and clients rest on.
Control == TypeOK /\ RequestOK /\ OwnerOK /\ MailOK /\ PrivateOK

\* Every step is of one of these kinds.
LEMMA Kinds ==
  ASSUME Control, [Next]_vars
  PROVE  \/ \E s \in Subs, sequence \in BOOLEAN : GetAddr(s, sequence)
         \/ \E s \in Subs : Insert(s) \/ SendSubscribe(s) \/ Opens(s) \/ Closes(s)
         \/ \E c \in Clients : HandleSubscribe(c) \/ Stops(c)
         \/ Quiet \/ clear
<1> USE ProxyClientsAssumption
<1> USE DEF Control
<1>1. ASSUME NEW s \in Subs, Started(s) PROVE Opens(s) \/ Closes(s)
  BY <1>1 DEF Started, Opens, Closes
<1>2. ASSUME NEW s \in Subs, HandleResponse(s) PROVE Closes(s) \/ Quiet
  <2>1. CASE Head(inbox[s]) \in {CloseFrame, Stopped}
    BY <1>2, <2>1 DEF HandleResponse, Closes
  <2>2. CASE Head(inbox[s]) \notin {CloseFrame, Stopped}
    <3>1. /\ pc[s] = "open" /\ inbox[s] # <<>>
          /\ \A t \in Subs \ {s} : received'[t] = received[t] /\ inbox'[t] = inbox[t]
          /\ UNCHANGED <<mapVars, upVars, private, pc, target, rx, lagged, starts, unseen, displaced, refused>>
      BY <1>2, <2>2 DEF HandleResponse, TypeOK
    <3>2. rx[s] # NoClient
      BY <3>1 DEF RequestOK
    <3> QED
      BY <3>1, <3>2 DEF Quiet
  <2> QED
    BY <2>1, <2>2
<1>3. ASSUME NEW s \in Subs, StreamEnds(s) \/ BrowserGone(s) PROVE Closes(s)
  BY <1>3 DEF StreamEnds, BrowserGone, Closes
<1>4. ASSUME NEW c \in Clients, link[c] PROVE state[c] = "running"
  BY <1>4 DEF OwnerOK
<1>5. ASSUME NEW c \in Clients, CloseEmptyConnection(c) \/ HandleError(c) PROVE Stops(c)
  BY <1>4, <1>5 DEF CloseEmptyConnection, HandleError, Stops
<1>6. ASSUME NEW c \in Clients, Connect(c) PROVE Stops(c) \/ Quiet
  BY <1>6 DEF Connect, Stops, Quiet, TypeOK
<1>7. ASSUME NEW c \in Clients, HandleFrame(c) PROVE Stops(c) \/ Quiet
  <2>1. CASE Receivers(c) = {}
    BY <1>4, <1>7, <2>1 DEF HandleFrame, Stops
  <2>2. CASE Receivers(c) # {}
    <3>1. /\ Send(c, Head(upstream[c])) /\ upstream[c] # <<>>
          /\ link' = link \/ Restart(c)
          /\ UNCHANGED <<mapVars, arrived, reloads, private, pc, target, rx, pastVars>>
      BY <1>7, <2>2 DEF HandleFrame
    <3>2. Head(upstream[c]) \in Frames
      BY <3>1 DEF TypeOK
    <3>3. \A d \in Clients : link'[d] => link[d]
      BY <3>1 DEF Restart, TypeOK
    <3>4. \A s \in Subs : rx[s] = NoClient => inbox'[s] = inbox[s] /\ (s \in lagged' => s \in lagged)
      BY <3>1, <3>2, SendEffect
    <3> QED
      BY <3>1, <3>3, <3>4 DEF Quiet
  <2> QED
    BY <2>1, <2>2
<1>8. ASSUME NEW c \in Clients, Finished(c) \/ Arrive(c) \/ ShardCloses(c) PROVE Quiet
  BY <1>8 DEF Finished, Arrive, ShardCloses, Restart, Quiet, TypeOK
<1>9. ASSUME UNCHANGED vars PROVE Quiet
  BY <1>9 DEF Quiet, vars
<1> QED
  BY <1>1, <1>2, <1>3, <1>5, <1>6, <1>7, <1>8, <1>9 DEF Next, Handler, Client

-----------------------------------------------------------------------------
(* Requests and clients.                                                    *)

\* What a request that looks for a client finds.
LEMMA GetAddrEffect ==
  ASSUME Control, NEW s \in Subs, NEW sequence \in BOOLEAN, GetAddr(s, sequence)
  PROVE  /\ pc[s] = "idle" /\ target[s] = NoClient /\ s \notin private
         /\ private \subseteq private' /\ private' \subseteq private \cup {s}
         /\ UNCHANGED <<mapVars, upVars, rx, inbox, lagged, received, starts, displaced, refused>>
         /\ unseen'[s] = {c \in Clients : state[c] = "new"}
         /\ \A t \in Subs : t # s => pc'[t] = pc[t] /\ target'[t] = target[t] /\ unseen'[t] = unseen[t]
         /\ ~sequence /\ connected(addr) => pc'[s] = "send"
         /\ ~sequence => private' = private
         /\ sequence => s \in private'
         /\ \/ pc'[s] = "send" /\ target'[s] = addr /\ addr \in Clients /\ s \notin private'
            \/ pc'[s] = "insert" /\ target'[s] = NoClient
         /\ \A c \in Clients : owner[c] # s
<1>1. pc[s] = "idle" /\ target[s] = NoClient /\ s \notin private
  BY DEF GetAddr, Control, RequestOK
<1>2. \/ ~sequence /\ connected(addr) /\ pc' = [pc EXCEPT ![s] = "send"] /\ target' = [target EXCEPT ![s] = addr]
      \/ pc' = [pc EXCEPT ![s] = "insert"] /\ target' = target
  BY DEF GetAddr
<1>3. UNCHANGED <<mapVars, upVars, rx, inbox, lagged, received, starts, displaced, refused>>
  BY DEF GetAddr
<1>4. private' = IF sequence THEN private \cup {s} ELSE private
  BY DEF GetAddr
<1>9. /\ unseen'[s] = {c \in Clients : state[c] = "new"}
      /\ \A t \in Subs : t # s => unseen'[t] = unseen[t]
  BY DEF GetAddr, Control, TypeOK
<1>10. ~sequence /\ connected(addr) => pc'[s] = "send"
  BY DEF GetAddr, Control, TypeOK
<1>5. pc \in [Subs -> SubPC] /\ target \in [Subs -> Clients \cup {NoClient}]
  BY DEF Control, TypeOK
<1>6. \A c \in Clients : owner[c] # s
  BY <1>1, ProxyClientsAssumption DEF Control, OwnerOK
<1>7. CASE ~sequence /\ connected(addr) /\ pc' = [pc EXCEPT ![s] = "send"] /\ target' = [target EXCEPT ![s] = addr]
  <2>1. addr \in Clients
    BY <1>7 DEF Control, TypeOK, connected
  <2>2. private' = private
    BY <1>4, <1>7
  <2> QED
    BY <1>1, <1>3, <1>4, <1>5, <1>6, <1>7, <1>9, <1>10, <2>1, <2>2
<1>8. CASE pc' = [pc EXCEPT ![s] = "insert"] /\ target' = target
  <2>1. private \subseteq private' /\ private' \subseteq private \cup {s}
    BY <1>4
  <2> QED
    BY <1>1, <1>3, <1>4, <1>5, <1>6, <1>8, <1>9, <1>10, <2>1
<1> QED
  BY <1>2, <1>7, <1>8

\* The request s creates the client c.
Creates(s, c) ==
  /\ pc[s] = "insert" /\ pc'[s] = "await"
  /\ target[s] = NoClient /\ target'[s] = c
  /\ state[c] = "new" /\ state'[c] = "fresh"
  /\ owner[c] = NoClient /\ owner'[c] = s
  /\ mailbox'[c] = <<s>>
  /\ rx[s] = NoClient
  /\ addr' = IF s \in private THEN addr ELSE c
  /\ displaced' = IF s \notin private /\ connected(addr)
                  THEN displaced \cup {<<addr, s>>} ELSE displaced
  /\ \A t \in Subs : t # s => pc'[t] = pc[t] /\ target'[t] = target[t]
  /\ \A d \in Clients : d # c =>
       state'[d] = state[d] /\ owner'[d] = owner[d] /\ mailbox'[d] = mailbox[d]
  /\ \A d \in Clients : owner[d] # s
  /\ UNCHANGED <<upVars, private, rx, inbox, lagged, received, starts, unseen, refused>>

\* What a request that creates a client does.
LEMMA InsertEffect ==
  ASSUME Control, NEW s \in Subs, Insert(s)
  PROVE  \E c \in Clients : Creates(s, c)
<1>1. PICK c \in Clients :
         /\ state[c] = "new"
         /\ state' = [state EXCEPT ![c] = "fresh"]
         /\ mailbox' = [mailbox EXCEPT ![c] = <<s>>]
         /\ target' = [target EXCEPT ![s] = c]
         /\ owner' = [owner EXCEPT ![c] = s]
         /\ addr' = IF s \in private THEN addr ELSE c
         /\ displaced' = IF s \notin private /\ connected(addr)
                         THEN displaced \cup {<<addr, s>>} ELSE displaced
  BY DEF Insert
<1>2. /\ pc[s] = "insert" /\ pc' = [pc EXCEPT ![s] = "await"]
      /\ UNCHANGED <<upVars, private, rx, inbox, lagged, received, starts, unseen, refused>>
  BY DEF Insert
<1>3. pc[s] = "insert" => target[s] = NoClient /\ rx[s] = NoClient
  BY DEF Control, RequestOK
<1>4. owner[c] = NoClient
  BY <1>1 DEF Control, OwnerOK
<1>5. \A d \in Clients : owner[d] # s
  BY <1>2, ProxyClientsAssumption DEF Control, OwnerOK
<1>6. /\ pc \in [Subs -> SubPC] /\ target \in [Subs -> Clients \cup {NoClient}]
      /\ state \in [Clients -> {"new", "fresh", "running", "stopped"}]
      /\ owner \in [Clients -> Subs \cup {NoClient}] /\ mailbox \in [Clients -> Seq(Subs)]
  BY DEF Control, TypeOK
<1> QED
  BY <1>1, <1>2, <1>3, <1>4, <1>5, <1>6 DEF Creates

\* What sending Subscribe does.
LEMMA SendSubscribeEffect ==
  ASSUME Control, NEW s \in Subs, SendSubscribe(s)
  PROVE  /\ pc[s] = "send" /\ rx[s] = NoClient
         /\ UNCHANGED <<addr, owner, state, upVars, private, target, rx, inbox,
                        lagged, received, starts, unseen, displaced>>
         /\ \A t \in Subs : t # s => pc'[t] = pc[t]
         /\ \A c \in Clients : owner[c] # s
         /\ \/ /\ target[s] \in Clients /\ pc'[s] = "await" /\ refused' = refused
               /\ mailbox'[target[s]] = Append(mailbox[target[s]], s)
               /\ \A d \in Clients : d # target[s] => mailbox'[d] = mailbox[d]
            \/ pc'[s] = "start" /\ refused' = refused \cup {s} /\ mailbox' = mailbox
<1>1. /\ pc[s] = "send"
      /\ UNCHANGED <<addr, owner, state, upVars, private, target, rx, inbox,
                     lagged, received, starts, unseen, displaced>>
  BY DEF SendSubscribe
<1>2. rx[s] = NoClient /\ \A c \in Clients : owner[c] # s
  BY <1>1, ProxyClientsAssumption DEF Control, RequestOK, OwnerOK
<1>3. /\ pc \in [Subs -> SubPC] /\ mailbox \in [Clients -> Seq(Subs)]
      /\ target[s] \in Clients \cup {NoClient}
  BY DEF Control, TypeOK
<1>4. CASE connected(target[s])
  <2>1. target[s] \in Clients
    BY <1>3, <1>4 DEF connected
  <2>2. mailbox' = [mailbox EXCEPT ![target[s]] = Append(mailbox[target[s]], s)]
        /\ pc' = [pc EXCEPT ![s] = "await"] /\ refused' = refused
    BY <1>3, <1>4, <2>1 DEF SendSubscribe
  <2> QED
    BY <1>1, <1>2, <1>3, <2>1, <2>2
<1>5. CASE ~connected(target[s])
  <2>1. pc' = [pc EXCEPT ![s] = "start"] /\ refused' = refused \cup {s} /\ mailbox' = mailbox
    BY <1>5 DEF SendSubscribe
  <2> QED
    BY <1>1, <1>2, <1>3, <2>1
<1> QED
  BY <1>4, <1>5

\* The client c answers the request s.
Answers(c, s) ==
  /\ mailbox[c] # <<>> /\ s = Head(mailbox[c]) /\ target[s] = c
  /\ state[c] \in {"fresh", "running"} /\ state'[c] = "running"
  /\ mailbox'[c] = Tail(mailbox[c])
  /\ \A d \in Clients : d # c => state'[d] = state[d] /\ mailbox'[d] = mailbox[d]
  /\ \A t \in Subs : t # s => rx'[t] = rx[t] /\ pc'[t] = pc[t]
  /\ \/ pc[s] = "await" /\ rx[s] = NoClient /\ rx'[s] = c /\ pc'[s] = "start"
     \/ pc[s] # "await" /\ rx'[s] = rx[s] /\ pc'[s] = pc[s]
  /\ UNCHANGED <<addr, owner, upVars, private, target, inbox, lagged, pastVars>>

\* What handling Subscribe does, to the request at the head of the mailbox.
LEMMA HandleSubscribeEffect ==
  ASSUME Control, NEW c \in Clients, HandleSubscribe(c)
  PROVE  \E s \in Subs : Answers(c, s)
<1> DEFINE s == Head(mailbox[c])
<1>1. /\ mailbox[c] # <<>> /\ state[c] \in {"fresh", "running"}
      /\ state' = [state EXCEPT ![c] = "running"]
      /\ mailbox' = [mailbox EXCEPT ![c] = Tail(mailbox[c])]
      /\ UNCHANGED <<addr, owner, upVars, private, target, inbox, lagged, pastVars>>
  BY DEF HandleSubscribe, connected, Control, TypeOK
<1>2. \/ pc[s] = "await" /\ rx' = [rx EXCEPT ![s] = c] /\ pc' = [pc EXCEPT ![s] = "start"]
      \/ pc[s] # "await" /\ rx' = rx /\ pc' = pc
  BY DEF HandleSubscribe
<1>3. mailbox[c] \in Seq(Subs)
  BY DEF Control, TypeOK
<1>4. s \in Subs /\ 1 \in DOMAIN mailbox[c] /\ s = mailbox[c][1]
  BY <1>1, <1>3
<1>5. target[s] = c
  BY <1>4 DEF Control, MailOK
<1>6. /\ pc \in [Subs -> SubPC] /\ rx \in [Subs -> Clients \cup {NoClient}]
      /\ state \in [Clients -> {"new", "fresh", "running", "stopped"}]
      /\ mailbox \in [Clients -> Seq(Subs)]
  BY DEF Control, TypeOK
<1>7. s = Head(mailbox[c])
  OBVIOUS
<1> HIDE DEF s
<1>8. pc[s] = "await" => rx[s] = NoClient
  BY <1>4 DEF Control, RequestOK
<1> SUFFICES Answers(c, s)
  BY <1>4
<1>9. CASE pc[s] = "await"
  <2>1. rx'[s] = c /\ pc'[s] = "start" /\ \A t \in Subs : t # s => rx'[t] = rx[t] /\ pc'[t] = pc[t]
    BY <1>2, <1>4, <1>6, <1>9
  <2> QED
    BY <1>1, <1>5, <1>6, <1>7, <1>8, <1>9, <2>1 DEF Answers
<1>10. CASE pc[s] # "await"
  BY <1>1, <1>2, <1>5, <1>6, <1>7, <1>10 DEF Answers
<1> QED
  BY <1>9, <1>10

\* What the end of a client does.
LEMMA StopsEffect ==
  ASSUME Control, NEW c \in Clients, Stops(c)
  PROVE  /\ state[c] = "running" /\ state'[c] = "stopped" /\ mailbox'[c] = <<>> /\ ~link'[c]
         /\ \A d \in Clients : d # c =>
              state'[d] = state[d] /\ mailbox'[d] = mailbox[d] /\ link'[d] = link[d]
         /\ \A s \in Subs :
              \/ pc'[s] = pc[s] /\ (s \in refused' => s \in refused)
              \/ pc[s] = "await" /\ pc'[s] = "start" /\ target[s] = c
         /\ \A s \in Subs : rx[s] = NoClient => inbox'[s] = inbox[s] /\ (s \in lagged' => s \in lagged)
         /\ refused' \subseteq Subs
         /\ UNCHANGED <<addr, owner, arrived, reloads, private, target, rx,
                        received, starts, unseen, displaced>>
<1>1. Stopped \in Frames
  BY ProxyClientsAssumption DEF Stopped, Frames
<1>2. TypeOK /\ Send(c, Stopped)
  BY DEF Control, Stops, Stop
<1>3. \A s \in Subs : rx[s] = NoClient => inbox'[s] = inbox[s] /\ (s \in lagged' => s \in lagged)
  BY <1>1, <1>2, SendEffect, ProxyClientsAssumption
<1>4. /\ state' = [state EXCEPT ![c] = "stopped"]
      /\ mailbox' = [mailbox EXCEPT ![c] = <<>>]
      /\ link' = [link EXCEPT ![c] = FALSE]
      /\ UNCHANGED <<addr, owner, arrived, reloads, private, target, rx,
                     received, starts, unseen, displaced>>
  BY DEF Stops, Stop
<1>5. /\ refused' = refused \cup {s \in Subs : pc[s] = "await" /\ target[s] = c}
      /\ pc' = [s \in Subs |-> IF pc[s] = "await" /\ target[s] = c THEN "start" ELSE pc[s]]
  BY DEF Stops, Stop
<1>6. \A s \in Subs :
        \/ pc'[s] = pc[s] /\ (s \in refused' => s \in refused)
        \/ pc[s] = "await" /\ pc'[s] = "start" /\ target[s] = c
  BY <1>5
<1> QED
  BY <1>2, <1>3, <1>4, <1>5, <1>6 DEF TypeOK, Stops

\* What the end of a socket does.
LEMMA ClosesEffect ==
  ASSUME Control, NEW s \in Subs, Closes(s)
  PROVE  /\ pc[s] \notin {"idle", "send"} /\ pc'[s] = "closed" /\ rx'[s] = NoClient
         /\ inbox'[s] = <<>> /\ s \notin lagged'
         /\ \A t \in Subs : t # s =>
              /\ pc'[t] = pc[t] /\ rx'[t] = rx[t] /\ inbox'[t] = inbox[t]
              /\ (t \in lagged' <=> t \in lagged)
         /\ UNCHANGED <<mapVars, upVars, private, target, pastVars>>
BY DEF Control, TypeOK, Closes, Close

\* Where a request is with its client, after every step.
LEMMA RequestOKStep ==
  ASSUME Control, [Next]_vars
  PROVE  RequestOK'
<1> USE ProxyClientsAssumption
<1>1. ASSUME NEW s \in Subs, NEW sequence \in BOOLEAN, GetAddr(s, sequence) PROVE RequestOK'
  <2> SUFFICES ASSUME NEW t \in Subs PROVE RequestOK!(t)'
    BY DEF RequestOK
  <2>1. /\ pc[s] = "idle" /\ UNCHANGED <<rx, inbox, lagged, received, refused>>
        /\ private' \subseteq private \cup {s}
        /\ t # s => pc'[t] = pc[t] /\ target'[t] = target[t]
        /\ pc'[s] = "send" \/ (pc'[s] = "insert" /\ target'[s] = NoClient)
    BY <1>1, GetAddrEffect
  <2>2. CASE t = s
    BY <2>1, <2>2 DEF Control, RequestOK
  <2>3. CASE t # s
    BY <2>1, <2>3 DEF Control, RequestOK
  <2> QED
    BY <2>2, <2>3
<1>2. ASSUME NEW s \in Subs, Insert(s) PROVE RequestOK'
  <2>1. PICK c \in Clients : Creates(s, c)
    BY <1>2, InsertEffect
  <2> SUFFICES ASSUME NEW t \in Subs PROVE RequestOK!(t)'
    BY DEF RequestOK
  <2>2. CASE t = s
    BY <2>1, <2>2 DEF Creates, Control, RequestOK
  <2>3. CASE t # s
    BY <2>1, <2>3 DEF Creates, Control, RequestOK
  <2> QED
    BY <2>2, <2>3
<1>3. ASSUME NEW s \in Subs, SendSubscribe(s) PROVE RequestOK'
  <2> SUFFICES ASSUME NEW t \in Subs PROVE RequestOK!(t)'
    BY DEF RequestOK
  <2>1. /\ pc[s] = "send" /\ UNCHANGED <<private, target, rx, inbox, lagged, received>>
        /\ t # s => pc'[t] = pc[t]
        /\ pc'[s] \in {"await", "start"} /\ refused' \subseteq refused \cup {s}
    BY <1>3, SendSubscribeEffect
  <2>2. CASE t = s
    BY <2>1, <2>2 DEF Control, RequestOK
  <2>3. CASE t # s
    BY <2>1, <2>3 DEF Control, RequestOK
  <2> QED
    BY <2>2, <2>3
<1>4. ASSUME NEW s \in Subs, Opens(s) PROVE RequestOK'
  BY <1>4 DEF Control, TypeOK, RequestOK, Opens
<1>5. ASSUME NEW s \in Subs, Closes(s) PROVE RequestOK'
  <2>1. /\ pc[s] \notin {"idle", "send"} /\ pc'[s] = "closed" /\ rx'[s] = NoClient
        /\ inbox'[s] = <<>> /\ s \notin lagged'
        /\ \A t \in Subs : t # s =>
             /\ pc'[t] = pc[t] /\ rx'[t] = rx[t] /\ inbox'[t] = inbox[t]
             /\ (t \in lagged' <=> t \in lagged)
        /\ UNCHANGED <<private, target, received, refused>>
    BY <1>5, ClosesEffect
  <2> SUFFICES ASSUME NEW t \in Subs PROVE RequestOK!(t)'
    BY DEF RequestOK
  <2>2. CASE t = s
    BY <2>1, <2>2 DEF Control, RequestOK
  <2>3. CASE t # s
    BY <2>1, <2>3 DEF Control, RequestOK
  <2> QED
    BY <2>2, <2>3
<1>6. ASSUME NEW c \in Clients, HandleSubscribe(c) PROVE RequestOK'
  <2>1. PICK s \in Subs : Answers(c, s)
    BY <1>6, HandleSubscribeEffect
  <2>2. c # NoClient /\ target[s] = c
    BY <2>1 DEF Answers
  <2> SUFFICES ASSUME NEW t \in Subs PROVE RequestOK!(t)'
    BY DEF RequestOK
  <2>3. CASE t = s /\ pc[s] = "await"
    BY <2>1, <2>2, <2>3 DEF Control, RequestOK, Answers
  <2>4. CASE ~(t = s /\ pc[s] = "await")
    BY <2>1, <2>4 DEF Control, RequestOK, Answers
  <2> QED
    BY <2>3, <2>4
<1>7. ASSUME NEW c \in Clients, Stops(c) PROVE RequestOK'
  <2> SUFFICES ASSUME NEW t \in Subs PROVE RequestOK!(t)'
    BY DEF RequestOK
  <2>1. /\ UNCHANGED <<private, target, rx, received>>
        /\ \/ pc'[t] = pc[t] /\ (t \in refused' => t \in refused)
           \/ pc[t] = "await" /\ pc'[t] = "start"
        /\ rx[t] = NoClient => inbox'[t] = inbox[t] /\ (t \in lagged' => t \in lagged)
    BY <1>7, StopsEffect
  <2> QED
    BY <2>1 DEF Control, RequestOK
<1>8. CASE Quiet
  BY <1>8 DEF Control, TypeOK, RequestOK, Quiet
<1>9. CASE clear
  BY <1>9 DEF Control, TypeOK, RequestOK, clear
<1> QED
  BY <1>1, <1>2, <1>3, <1>4, <1>5, <1>6, <1>7, <1>8, <1>9, Kinds

\* A client handles the message of its creator first, after every step.
LEMMA OwnerOKStep ==
  ASSUME Control, [Next]_vars
  PROVE  OwnerOK'
<1> USE ProxyClientsAssumption
<1>1. ASSUME NEW s \in Subs, NEW sequence \in BOOLEAN, GetAddr(s, sequence) PROVE OwnerOK'
  <2>1. /\ UNCHANGED <<owner, state, mailbox, link, rx>>
        /\ \A t \in Subs : t # s => pc'[t] = pc[t] /\ target'[t] = target[t]
        /\ \A c \in Clients : owner[c] # s
    BY <1>1, GetAddrEffect
  <2>2. \A c \in Clients : owner[c] \in Subs \cup {NoClient}
    BY DEF Control, TypeOK
  <2> QED
    BY <2>1, <2>2 DEF Control, OwnerOK
<1>2. ASSUME NEW s \in Subs, Insert(s) PROVE OwnerOK'
  <2>1. PICK c \in Clients : Creates(s, c)
    BY <1>2, InsertEffect
  <2> SUFFICES ASSUME NEW d \in Clients PROVE OwnerOK!(d)'
    BY DEF OwnerOK
  <2>2. CASE d = c
    <3>1. Head(<<s>>) = s /\ <<s>> # <<>>
      OBVIOUS
    <3>2. link' = link /\ rx' = rx /\ ~link[c] /\ \A t \in Subs : rx[t] # c
      BY <2>1 DEF Control, OwnerOK, Creates
    <3> QED
      BY <2>1, <2>2, <3>1, <3>2 DEF Creates
  <2>3. CASE d # c
    <3>1. owner[d] \in Subs \cup {NoClient} /\ owner[d] # s /\ owner'[d] = owner[d]
      BY <2>1, <2>3 DEF Control, TypeOK, Creates
    <3>2. owner[d] # NoClient => pc'[owner[d]] = pc[owner[d]] /\ target'[owner[d]] = target[owner[d]]
      BY <2>1, <3>1 DEF Creates
    <3>3. link' = link /\ rx' = rx /\ state'[d] = state[d] /\ mailbox'[d] = mailbox[d]
      BY <2>1, <2>3 DEF Creates
    <3> QED
      BY <3>1, <3>2, <3>3 DEF Control, OwnerOK
  <2> QED
    BY <2>2, <2>3
<1>3. ASSUME NEW s \in Subs, SendSubscribe(s) PROVE OwnerOK'
  <2> SUFFICES ASSUME NEW d \in Clients PROVE OwnerOK!(d)'
    BY DEF OwnerOK
  <2>1. /\ UNCHANGED <<owner, state, link, target, rx>>
        /\ \A t \in Subs : t # s => pc'[t] = pc[t]
        /\ owner[d] # s
        /\ mailbox'[d] = mailbox[d] \/ mailbox'[d] = Append(mailbox[d], s)
    BY <1>3, SendSubscribeEffect
  <2>2. owner[d] # NoClient => pc'[owner[d]] = pc[owner[d]]
    BY <2>1 DEF Control, TypeOK
  <2>3. mailbox[d] \in Seq(Subs)
    BY DEF Control, TypeOK
  <2>4. mailbox[d] # <<>> => mailbox'[d] # <<>> /\ Head(mailbox'[d]) = Head(mailbox[d])
    BY <2>1, <2>3
  <2> QED
    BY <2>1, <2>2, <2>4 DEF Control, OwnerOK
<1>4. ASSUME NEW s \in Subs, Opens(s) PROVE OwnerOK'
  BY <1>4 DEF Control, TypeOK, OwnerOK, Opens
<1>5. ASSUME NEW s \in Subs, Closes(s) PROVE OwnerOK'
  <2>1. /\ pc[s] \notin {"idle", "send"} /\ pc'[s] = "closed" /\ rx'[s] = NoClient
        /\ \A t \in Subs : t # s => pc'[t] = pc[t] /\ rx'[t] = rx[t]
        /\ UNCHANGED <<owner, state, mailbox, link, target>>
    BY <1>5, ClosesEffect
  <2>2. \A c \in Clients : owner[c] \in Subs \cup {NoClient}
    BY DEF Control, TypeOK
  <2> QED
    BY <2>1, <2>2 DEF Control, OwnerOK
<1>6. ASSUME NEW c \in Clients, HandleSubscribe(c) PROVE OwnerOK'
  <2>1. PICK s \in Subs : Answers(c, s)
    BY <1>6, HandleSubscribeEffect
  <2>2. \A t \in Subs : /\ pc'[t] = pc[t] \/ (pc[t] = "await" /\ pc'[t] = "start")
                        /\ rx'[t] = rx[t] \/ rx'[t] = c
    BY <2>1 DEF Answers
  <2>3. state[c] = "fresh" => s = owner[c]
    <3>1. s = Head(mailbox[c])
      BY <2>1 DEF Answers
    <3> QED
      BY <3>1 DEF Control, OwnerOK
  <2>4. pc'[s] # "await"
    BY <2>1 DEF Answers
  <2> SUFFICES ASSUME NEW d \in Clients PROVE OwnerOK!(d)'
    BY DEF OwnerOK
  <2>5. owner[d] \in Subs \cup {NoClient}
    BY DEF Control, TypeOK
  <2>6. UNCHANGED <<owner, link, target>>
    BY <2>1 DEF Answers
  <2>7. CASE d = c
    <3>1. state[c] \in {"fresh", "running"} /\ state'[c] = "running"
      BY <2>1 DEF Answers
    <3>2. ~(owner[c] # NoClient /\ pc'[owner[c]] = "await")
      BY <2>2, <2>3, <2>4, <2>5, <2>7, <3>1 DEF Control, OwnerOK
    <3> QED
      BY <2>2, <2>5, <2>6, <2>7, <3>1, <3>2 DEF Control, OwnerOK
  <2>8. CASE d # c
    <3>1. state'[d] = state[d] /\ mailbox'[d] = mailbox[d]
      BY <2>1, <2>8 DEF Answers
    <3>2. \A t \in Subs : rx'[t] = d => rx[t] = d
      BY <2>2, <2>8
    <3> QED
      BY <2>2, <2>5, <2>6, <3>1, <3>2 DEF Control, OwnerOK
  <2> QED
    BY <2>7, <2>8
<1>7. ASSUME NEW c \in Clients, Stops(c) PROVE OwnerOK'
  <2>1. /\ state[c] = "running" /\ state'[c] = "stopped" /\ ~link'[c]
        /\ \A d \in Clients : d # c =>
             state'[d] = state[d] /\ mailbox'[d] = mailbox[d] /\ link'[d] = link[d]
        /\ \A s \in Subs : pc'[s] = pc[s] \/ (pc[s] = "await" /\ pc'[s] = "start")
        /\ UNCHANGED <<owner, target, rx>>
    BY <1>7, StopsEffect
  <2>2. \A d \in Clients : owner[d] \in Subs \cup {NoClient}
    BY DEF Control, TypeOK
  <2> SUFFICES ASSUME NEW d \in Clients PROVE OwnerOK!(d)'
    BY DEF OwnerOK
  <2>3. CASE d = c
    BY <2>1, <2>2, <2>3 DEF Control, OwnerOK
  <2>4. CASE d # c
    BY <2>1, <2>2, <2>4 DEF Control, OwnerOK
  <2> QED
    BY <2>3, <2>4
<1>8. CASE Quiet
  BY <1>8 DEF Control, TypeOK, OwnerOK, Quiet
<1>9. CASE clear
  BY <1>9 DEF Control, TypeOK, OwnerOK, clear
<1> QED
  BY <1>1, <1>2, <1>3, <1>4, <1>5, <1>6, <1>7, <1>8, <1>9, Kinds

\* A mailbox holds the requests to its client, after every step.
LEMMA MailOKStep ==
  ASSUME Control, [Next]_vars
  PROVE  MailOK'
<1> USE ProxyClientsAssumption
<1>1. ASSUME NEW s \in Subs, NEW sequence \in BOOLEAN, GetAddr(s, sequence) PROVE MailOK'
  <2>1. /\ mailbox' = mailbox /\ pc[s] = "idle"
        /\ \A t \in Subs : t # s => pc'[t] = pc[t] /\ target'[t] = target[t]
    BY <1>1, GetAddrEffect
  <2>2. \A c \in Clients : \A k \in DOMAIN mailbox[c] : mailbox[c][k] \in Subs
    BY DEF Control, TypeOK
  <2> QED
    BY <2>1, <2>2 DEF Control, MailOK
<1>2. ASSUME NEW s \in Subs, Insert(s) PROVE MailOK'
  <2> SUFFICES ASSUME NEW d \in Clients, NEW k \in DOMAIN mailbox'[d]
               PROVE  target'[mailbox'[d][k]] = d /\ pc'[mailbox'[d][k]] \notin {"idle", "insert", "send"}
    BY DEF MailOK
  <2>1. mailbox[d] \in Seq(Subs)
    BY DEF Control, TypeOK
  <2>2. PICK c \in Clients : Creates(s, c)
    BY <1>2, InsertEffect
  <2>3. CASE d = c
    <3>1. mailbox'[d] = <<s>>
      BY <2>2, <2>3 DEF Creates
    <3>2. mailbox'[d][k] = s
      BY <3>1
    <3> QED
      BY <2>2, <2>3, <3>2 DEF Creates
  <2>4. CASE d # c
    <3>1. mailbox'[d] = mailbox[d] /\ k \in DOMAIN mailbox[d]
      BY <2>2, <2>4 DEF Creates
    <3>2. mailbox[d][k] \in Subs
      BY <2>1, <3>1
    <3>3. target[mailbox[d][k]] = d /\ pc[mailbox[d][k]] \notin {"idle", "insert", "send"}
      BY <3>1 DEF Control, MailOK
    <3> QED
      BY <2>2, <3>1, <3>2, <3>3 DEF Creates
  <2> QED
    BY <2>3, <2>4
<1>3. ASSUME NEW s \in Subs, SendSubscribe(s) PROVE MailOK'
  <2> SUFFICES ASSUME NEW d \in Clients, NEW k \in DOMAIN mailbox'[d]
               PROVE  target'[mailbox'[d][k]] = d /\ pc'[mailbox'[d][k]] \notin {"idle", "insert", "send"}
    BY DEF MailOK
  <2>1. mailbox[d] \in Seq(Subs)
    BY DEF Control, TypeOK
  <2>2. /\ pc[s] = "send" /\ target' = target
        /\ \A t \in Subs : t # s => pc'[t] = pc[t]
        /\ \/ mailbox'[d] = mailbox[d]
           \/ mailbox'[d] = Append(mailbox[d], s) /\ target[s] = d /\ pc'[s] = "await"
    BY <1>3, SendSubscribeEffect
  <2>3. CASE k \in DOMAIN mailbox[d]
    <3>1. mailbox'[d][k] = mailbox[d][k] /\ mailbox[d][k] \in Subs
      BY <2>1, <2>2, <2>3
    <3>2. target[mailbox[d][k]] = d /\ pc[mailbox[d][k]] \notin {"idle", "insert", "send"}
      BY <2>3 DEF Control, MailOK
    <3> QED
      BY <2>2, <3>1, <3>2
  <2>4. CASE k \notin DOMAIN mailbox[d]
    <3>1. mailbox'[d] = Append(mailbox[d], s)
      BY <2>2, <2>4
    <3>2. mailbox'[d][k] = s
      BY <2>1, <2>4, <3>1
    <3> QED
      BY <2>2, <2>4, <3>2
  <2> QED
    BY <2>3, <2>4
<1>4. ASSUME NEW s \in Subs, Opens(s) PROVE MailOK'
  BY <1>4 DEF Control, TypeOK, MailOK, Opens
<1>5. ASSUME NEW s \in Subs, Closes(s) PROVE MailOK'
  <2>1. /\ UNCHANGED <<mailbox, target>> /\ pc'[s] = "closed"
        /\ \A t \in Subs : t # s => pc'[t] = pc[t]
    BY <1>5, ClosesEffect
  <2>2. \A c \in Clients : \A k \in DOMAIN mailbox[c] : mailbox[c][k] \in Subs
    BY DEF Control, TypeOK
  <2> QED
    BY <2>1, <2>2 DEF Control, MailOK
<1>6. ASSUME NEW c \in Clients, HandleSubscribe(c) PROVE MailOK'
  <2> SUFFICES ASSUME NEW d \in Clients, NEW k \in DOMAIN mailbox'[d]
               PROVE  target'[mailbox'[d][k]] = d /\ pc'[mailbox'[d][k]] \notin {"idle", "insert", "send"}
    BY DEF MailOK
  <2>1. mailbox[d] \in Seq(Subs)
    BY DEF Control, TypeOK
  <2>2. PICK s \in Subs : Answers(c, s)
    BY <1>6, HandleSubscribeEffect
  <2>3. \A t \in Subs : pc'[t] = pc[t] \/ pc'[t] = "start"
    BY <2>2 DEF Answers
  <2>4. target' = target
    BY <2>2 DEF Answers
  <2>5. \E j \in DOMAIN mailbox[d] : mailbox'[d][k] = mailbox[d][j]
    <3>1. CASE d = c
      <4>1. mailbox'[d] = Tail(mailbox[d]) /\ mailbox[d] # <<>>
        BY <2>2, <3>1 DEF Answers
      <4>2. k \in 1..(Len(mailbox[d]) - 1)
        BY <2>1, <4>1
      <4>3. k + 1 \in DOMAIN mailbox[d] /\ mailbox'[d][k] = mailbox[d][k + 1]
        BY <2>1, <4>1, <4>2
      <4> QED
        BY <4>3
    <3>2. CASE d # c
      BY <2>2, <3>2 DEF Answers
    <3> QED
      BY <3>1, <3>2
  <2>6. PICK j \in DOMAIN mailbox[d] : mailbox'[d][k] = mailbox[d][j]
    BY <2>5
  <2>7. mailbox[d][j] \in Subs
    BY <2>1
  <2> QED
    BY <2>3, <2>4, <2>6, <2>7 DEF Control, MailOK
<1>7. ASSUME NEW c \in Clients, Stops(c) PROVE MailOK'
  <2> SUFFICES ASSUME NEW d \in Clients, NEW k \in DOMAIN mailbox'[d]
               PROVE  target'[mailbox'[d][k]] = d /\ pc'[mailbox'[d][k]] \notin {"idle", "insert", "send"}
    BY DEF MailOK
  <2>1. mailbox[d] \in Seq(Subs)
    BY DEF Control, TypeOK
  <2>2. /\ d # c => mailbox'[d] = mailbox[d]
        /\ mailbox'[c] = <<>> /\ target' = target
        /\ \A t \in Subs : pc'[t] = pc[t] \/ pc'[t] = "start"
    BY <1>7, StopsEffect
  <2>3. d # c
    BY <2>2
  <2>4. mailbox[d][k] \in Subs /\ mailbox'[d][k] = mailbox[d][k] /\ k \in DOMAIN mailbox[d]
    BY <2>1, <2>2, <2>3
  <2> QED
    BY <2>2, <2>4 DEF Control, MailOK
<1>8. CASE Quiet
  BY <1>8 DEF Control, TypeOK, MailOK, Quiet
<1>9. CASE clear
  BY <1>9 DEF Control, TypeOK, MailOK, clear
<1> QED
  BY <1>1, <1>2, <1>3, <1>4, <1>5, <1>6, <1>7, <1>8, <1>9, Kinds

\* Requests with a sequence share nothing, after every step.
LEMMA PrivateOKStep ==
  ASSUME Control, [Next]_vars
  PROVE  PrivateOK'
<1> USE ProxyClientsAssumption
<1>1. ASSUME NEW s \in Subs, NEW sequence \in BOOLEAN, GetAddr(s, sequence) PROVE PrivateOK'
  <2>1. /\ s \notin private /\ target[s] = NoClient
        /\ private \subseteq private' /\ private' \subseteq private \cup {s}
        /\ UNCHANGED <<addr, owner>>
        /\ \A t \in Subs : t # s => target'[t] = target[t]
        /\ \/ target'[s] = addr /\ addr \in Clients /\ s \notin private'
           \/ target'[s] = NoClient
        /\ \A c \in Clients : owner[c] # s
    BY <1>1, GetAddrEffect
  <2>2. addr # NoClient => addr \in Clients
    BY DEF Control, TypeOK
  <2>3. (addr # NoClient => owner[addr] # NoClient /\ owner[addr] \notin private)'
    BY <2>1, <2>2 DEF Control, PrivateOK
  <2>4. ASSUME NEW t \in Subs, target'[t] # NoClient
        PROVE  (IF t \in private THEN owner[target[t]] = t
                ELSE owner[target[t]] # NoClient /\ owner[target[t]] \notin private)'
    <3>1. CASE t = s
      BY <2>1, <2>2, <2>3, <2>4, <3>1
    <3>2. CASE t # s
      <4>1. target'[t] = target[t] /\ target[t] \in Clients /\ (t \in private' <=> t \in private)
        BY <2>1, <2>4, <3>2 DEF Control, TypeOK
      <4>2. owner[target[t]] # s
        BY <2>1, <4>1
      <4> QED
        BY <2>1, <2>4, <4>1, <4>2 DEF Control, PrivateOK
    <3> QED
      BY <3>1, <3>2
  <2> QED
    BY <2>3, <2>4 DEF PrivateOK
<1>2. ASSUME NEW s \in Subs, Insert(s) PROVE PrivateOK'
  <2>1. PICK c \in Clients : Creates(s, c)
    BY <1>2, InsertEffect
  <2>2. /\ private' = private /\ owner[c] = NoClient /\ owner'[c] = s /\ target'[s] = c
        /\ addr' = IF s \in private THEN addr ELSE c
        /\ \A t \in Subs : t # s => target'[t] = target[t]
        /\ \A d \in Clients : d # c => owner'[d] = owner[d]
    BY <2>1 DEF Creates
  <2>3. (addr # NoClient => owner[addr] # NoClient /\ owner[addr] \notin private)'
    <3>1. CASE s \in private
      <4>1. addr # NoClient => addr \in Clients /\ addr # c
        BY <2>2 DEF Control, TypeOK, PrivateOK
      <4> QED
        BY <2>2, <3>1, <4>1 DEF Control, PrivateOK
    <3>2. CASE s \notin private
      BY <2>2, <3>2
    <3> QED
      BY <3>1, <3>2
  <2>4. ASSUME NEW t \in Subs, target'[t] # NoClient
        PROVE  (IF t \in private THEN owner[target[t]] = t
                ELSE owner[target[t]] # NoClient /\ owner[target[t]] \notin private)'
    <3>1. CASE t = s
      BY <2>2, <3>1
    <3>2. CASE t # s
      <4>1. target'[t] = target[t] /\ target[t] \in Clients
        BY <2>2, <2>4, <3>2 DEF Control, TypeOK
      <4>2. target[t] # c
        BY <2>2, <2>4, <4>1 DEF Control, PrivateOK
      <4> QED
        BY <2>2, <2>4, <4>1, <4>2 DEF Control, PrivateOK
    <3> QED
      BY <3>1, <3>2
  <2> QED
    BY <2>3, <2>4 DEF PrivateOK
<1>3. ASSUME NEW s \in Subs, SendSubscribe(s) PROVE PrivateOK'
  <2>1. UNCHANGED <<addr, owner, private, target>>
    BY <1>3, SendSubscribeEffect
  <2> QED
    BY <2>1 DEF Control, PrivateOK
<1>4. ASSUME NEW s \in Subs, Opens(s) PROVE PrivateOK'
  BY <1>4 DEF Control, TypeOK, PrivateOK, Opens
<1>5. ASSUME NEW s \in Subs, Closes(s) PROVE PrivateOK'
  <2>1. UNCHANGED <<addr, owner, private, target>>
    BY <1>5 DEF Closes, Close, mapVars
  <2> QED
    BY <2>1 DEF Control, PrivateOK
<1>6. ASSUME NEW c \in Clients, HandleSubscribe(c) PROVE PrivateOK'
  <2>1. UNCHANGED <<addr, owner, private, target>>
    BY <1>6, HandleSubscribeEffect DEF Answers
  <2> QED
    BY <2>1 DEF Control, PrivateOK
<1>7. ASSUME NEW c \in Clients, Stops(c) PROVE PrivateOK'
  <2>1. UNCHANGED <<addr, owner, private, target>>
    BY <1>7, StopsEffect
  <2> QED
    BY <2>1 DEF Control, PrivateOK
<1>8. CASE Quiet
  BY <1>8 DEF Control, TypeOK, PrivateOK, Quiet
<1>9. CASE clear
  BY <1>9 DEF Control, TypeOK, PrivateOK, clear
<1> QED
  BY <1>1, <1>2, <1>3, <1>4, <1>5, <1>6, <1>7, <1>8, <1>9, Kinds

\* A creator is never refused.
LEMMA CreatorServedStep ==
  ASSUME Control, CreatorServed, [Next]_vars
  PROVE  CreatorServed'
<1> USE ProxyClientsAssumption
<1>1. ASSUME NEW s \in Subs, NEW sequence \in BOOLEAN, GetAddr(s, sequence) PROVE CreatorServed'
  <2>1. UNCHANGED <<owner, refused>>
    BY <1>1, GetAddrEffect
  <2> QED
    BY <2>1 DEF CreatorServed
<1>2. ASSUME NEW s \in Subs, Insert(s) PROVE CreatorServed'
  <2>1. PICK c \in Clients : Creates(s, c)
    BY <1>2, InsertEffect
  <2>2. s \notin refused
    BY <2>1 DEF Creates, Control, RequestOK
  <2> QED
    BY <2>1, <2>2 DEF Creates, CreatorServed
<1>3. ASSUME NEW s \in Subs, SendSubscribe(s) PROVE CreatorServed'
  <2>1. /\ owner' = owner /\ refused' \subseteq refused \cup {s}
        /\ \A c \in Clients : owner[c] # s
    BY <1>3, SendSubscribeEffect
  <2> QED
    BY <2>1 DEF CreatorServed
<1>4. ASSUME NEW s \in Subs, Opens(s) PROVE CreatorServed'
  BY <1>4 DEF Control, TypeOK, CreatorServed, Opens
<1>5. ASSUME NEW s \in Subs, Closes(s) PROVE CreatorServed'
  BY <1>5, ClosesEffect DEF Control, TypeOK, CreatorServed
<1>6. ASSUME NEW c \in Clients, HandleSubscribe(c) PROVE CreatorServed'
  BY <1>6, HandleSubscribeEffect DEF Control, TypeOK, CreatorServed, Answers
<1>7. ASSUME NEW c \in Clients, Stops(c) PROVE CreatorServed'
  <2> SUFFICES ASSUME NEW d \in Clients, owner[d] \in refused', owner[d] \notin refused PROVE FALSE
    BY <1>7, StopsEffect DEF CreatorServed
  <2>1. owner[d] \in Subs
    BY <1>7, StopsEffect
  <2>2. pc[owner[d]] = "await" /\ target[owner[d]] = c /\ state[c] = "running"
    BY <1>7, <2>1, StopsEffect
  <2> QED
    BY <2>1, <2>2 DEF Control, OwnerOK
<1>8. CASE Quiet
  BY <1>8 DEF Control, TypeOK, CreatorServed, Quiet
<1>9. CASE clear
  BY <1>9 DEF Control, TypeOK, CreatorServed, clear
<1> QED
  BY <1>1, <1>2, <1>3, <1>4, <1>5, <1>6, <1>7, <1>8, <1>9, Kinds

\* What a request could see of the clients.
LEMMA LookedOKStep ==
  ASSUME Control, LookedOK, [Next]_vars
  PROVE  LookedOK'
<1> USE ProxyClientsAssumption
<1>1. ASSUME NEW s \in Subs, NEW sequence \in BOOLEAN, GetAddr(s, sequence) PROVE LookedOK'
  <2> SUFFICES ASSUME NEW t \in Subs PROVE LookedOK!(t)'
    BY DEF LookedOK
  <2>1. /\ addr' = addr /\ state' = state
        /\ unseen'[s] = {c \in Clients : state[c] = "new"}
        /\ t # s => pc'[t] = pc[t] /\ unseen'[t] = unseen[t]
        /\ private \subseteq private' /\ private' \subseteq private \cup {s}
        /\ pc'[s] = "insert" /\ s \notin private' => ~connected(addr)
        /\ pc[s] = "idle" /\ displaced' = displaced
    BY <1>1, GetAddrEffect
  <2>2. CASE t = s
    BY <2>1, <2>2 DEF LookedOK, connected
  <2>3. CASE t # s
    BY <2>1, <2>3 DEF LookedOK, connected
  <2> QED
    BY <2>2, <2>3
<1>2. ASSUME NEW s \in Subs, Insert(s) PROVE LookedOK'
  <2>1. PICK c \in Clients : Creates(s, c)
    BY <1>2, InsertEffect
  <2> SUFFICES ASSUME NEW t \in Subs PROVE LookedOK!(t)'
    BY DEF LookedOK
  <2>2. /\ unseen' = unseen /\ private' = private /\ state[c] = "new"
        /\ \A d \in Clients : state'[d] = "new" => state[d] = "new"
        /\ pc'[s] = "await" /\ pc[s] = "insert"
        /\ t # s => pc'[t] = pc[t]
        /\ addr' = c \/ (addr' = addr /\ (connected(addr)' => connected(addr)))
        /\ \A d \in Clients : t # s /\ <<d, t>> \in displaced' => <<d, t>> \in displaced
    <3>1. addr' = addr \/ addr' = c
      BY <2>1 DEF Creates
    <3>2. addr' = addr /\ addr # c => (connected(addr)' => connected(addr))
      BY <2>1 DEF Creates, connected, Control, TypeOK
    <3> QED
      BY <2>1, <3>1, <3>2 DEF Creates
  <2>3. CASE t = s
    BY <2>2, <2>3 DEF LookedOK
  <2>4. CASE t # s
    BY <2>2, <2>4 DEF LookedOK
  <2> QED
    BY <2>3, <2>4
<1>3. ASSUME NEW s \in Subs, SendSubscribe(s) PROVE LookedOK'
  <2>1. /\ UNCHANGED <<addr, state, private, unseen, displaced>> /\ pc[s] = "send" /\ pc'[s] \in {"await", "start"}
        /\ \A t \in Subs : t # s => pc'[t] = pc[t]
    BY <1>3, SendSubscribeEffect
  <2> QED
    BY <2>1 DEF LookedOK, connected
<1>4. ASSUME NEW s \in Subs, Opens(s) PROVE LookedOK'
  BY <1>4 DEF Control, TypeOK, LookedOK, connected, Opens
<1>5. ASSUME NEW s \in Subs, Closes(s) PROVE LookedOK'
  <2>1. /\ UNCHANGED <<addr, state, private, unseen, displaced>> /\ pc[s] # "idle" /\ pc'[s] = "closed"
        /\ \A t \in Subs : t # s => pc'[t] = pc[t]
    BY <1>5, ClosesEffect
  <2> QED
    BY <2>1 DEF LookedOK, connected
<1>6. ASSUME NEW c \in Clients, HandleSubscribe(c) PROVE LookedOK'
  <2>1. PICK s \in Subs : Answers(c, s)
    BY <1>6, HandleSubscribeEffect
  <2>2. /\ UNCHANGED <<addr, private, unseen, displaced>>
        /\ \A t \in Subs : pc'[t] = pc[t] \/ (pc[t] = "await" /\ pc'[t] = "start")
        /\ \A d \in Clients : state'[d] = state[d] \/ (state[d] \in {"fresh", "running"} /\ state'[d] = "running")
    BY <2>1 DEF Answers
  <2>3. /\ \A d \in Clients : state'[d] = "new" => state[d] = "new"
        /\ connected(addr)' => connected(addr)
    BY <2>2 DEF connected, Control, TypeOK
  <2> QED
    BY <2>2, <2>3 DEF LookedOK
<1>7. ASSUME NEW c \in Clients, Stops(c) PROVE LookedOK'
  <2>1. /\ UNCHANGED <<addr, private, unseen, displaced>>
        /\ \A t \in Subs : pc'[t] = pc[t] \/ (pc[t] = "await" /\ pc'[t] = "start")
        /\ \A d \in Clients : state'[d] = state[d] \/ state'[d] = "stopped"
    BY <1>7, StopsEffect
  <2>2. /\ \A d \in Clients : state'[d] = "new" => state[d] = "new"
        /\ connected(addr)' => connected(addr)
    BY <2>1 DEF connected, Control, TypeOK
  <2> QED
    BY <2>1, <2>2 DEF LookedOK
<1>8. CASE Quiet
  BY <1>8 DEF LookedOK, connected, Quiet
<1>9. CASE clear
  BY <1>9 DEF LookedOK, connected, clear
<1> QED
  BY <1>1, <1>2, <1>3, <1>4, <1>5, <1>6, <1>7, <1>8, <1>9, Kinds

\* A shared client leaves the map by the race alone, or stopped.
LEMMA OrphansOnlyFromRaceStep ==
  ASSUME Control, LookedOK, OrphansOnlyFromRace, [Next]_vars
  PROVE  OrphansOnlyFromRace'
<1> USE ProxyClientsAssumption
<1>0. ASSUME \A c \in Clients : connected(c)' => connected(c), private \subseteq private', UNCHANGED <<owner, displaced>>,
             \A c \in Clients : connected(c) /\ addr = c => addr' = c,
             \A s \in Subs, c \in Clients : <<c, s>> \in displaced => unseen'[s] = unseen[s]
      PROVE  OrphansOnlyFromRace'
  <2> SUFFICES ASSUME NEW c \in Clients, connected(c)', owner'[c] \notin private', addr' # c
               PROVE  \E s \in Subs : <<c, s>> \in displaced' /\ c \in unseen'[s]
    BY DEF OrphansOnlyFromRace
  <2>1. connected(c) /\ owner[c] \notin private /\ addr # c
    BY <1>0
  <2>2. PICK s \in Subs : <<c, s>> \in displaced /\ c \in unseen[s]
    BY <2>1 DEF OrphansOnlyFromRace
  <2> QED
    BY <1>0, <2>2
<1>1. ASSUME NEW s \in Subs, NEW sequence \in BOOLEAN, GetAddr(s, sequence) PROVE OrphansOnlyFromRace'
  <2>1. /\ UNCHANGED <<addr, owner, state, displaced>> /\ private \subseteq private' /\ pc[s] = "idle"
        /\ \A t \in Subs : t # s => unseen'[t] = unseen[t]
    BY <1>1, GetAddrEffect
  <2>2. \A c \in Clients : <<c, s>> \notin displaced
    BY <2>1 DEF LookedOK
  <2> QED
    BY <1>0, <2>1, <2>2 DEF connected
<1>2. ASSUME NEW s \in Subs, Insert(s) PROVE OrphansOnlyFromRace'
  <2>1. PICK c \in Clients : Creates(s, c)
    BY <1>2, InsertEffect
  <2> SUFFICES ASSUME NEW d \in Clients, connected(d)', owner'[d] \notin private', addr' # d
               PROVE  \E r \in Subs : <<d, r>> \in displaced' /\ d \in unseen'[r]
    BY DEF OrphansOnlyFromRace
  <2>2. CASE d = c
    <3>1. owner'[d] = s /\ private' = private /\ addr' = IF s \in private THEN addr ELSE c
      BY <2>1, <2>2 DEF Creates
    <3> QED
      BY <2>2, <3>1
  <2>3. CASE d # c
    <3>1. connected(d) /\ owner[d] \notin private
      BY <2>1, <2>3 DEF Creates, connected
    <3>2. displaced \subseteq displaced' /\ unseen' = unseen
      BY <2>1 DEF Creates
    <3>3. CASE addr = d
      <4>1. s \notin private /\ displaced' = displaced \cup {<<d, s>>} /\ pc[s] = "insert"
        BY <2>1, <3>1, <3>3 DEF Creates
      <4>2. d \in unseen[s]
        BY <3>1, <3>3, <4>1 DEF LookedOK
      <4> QED
        BY <3>2, <4>1, <4>2
    <3>4. CASE addr # d
      <4>1. PICK r \in Subs : <<d, r>> \in displaced /\ d \in unseen[r]
        BY <3>1, <3>4 DEF OrphansOnlyFromRace
      <4> QED
        BY <3>2, <4>1
    <3> QED
      BY <3>3, <3>4
  <2> QED
    BY <2>2, <2>3
<1>3. ASSUME NEW s \in Subs, SendSubscribe(s) PROVE OrphansOnlyFromRace'
  <2>1. UNCHANGED <<addr, owner, state, private, displaced, unseen>>
    BY <1>3, SendSubscribeEffect
  <2> QED
    BY <1>0, <2>1 DEF connected
<1>4. ASSUME NEW s \in Subs, Opens(s) PROVE OrphansOnlyFromRace'
  BY <1>0, <1>4 DEF connected, Opens
<1>5. ASSUME NEW s \in Subs, Closes(s) PROVE OrphansOnlyFromRace'
  <2>1. UNCHANGED <<addr, owner, state, private, displaced, unseen>>
    BY <1>5, ClosesEffect
  <2> QED
    BY <1>0, <2>1 DEF connected
<1>6. ASSUME NEW c \in Clients, HandleSubscribe(c) PROVE OrphansOnlyFromRace'
  <2>1. PICK s \in Subs : Answers(c, s)
    BY <1>6, HandleSubscribeEffect
  <2>2. /\ UNCHANGED <<addr, owner, private, displaced, unseen>>
        /\ \A d \in Clients : state'[d] = state[d] \/ state[d] \in {"fresh", "running"}
    BY <2>1 DEF Answers
  <2> QED
    BY <1>0, <2>2 DEF connected
<1>7. ASSUME NEW c \in Clients, Stops(c) PROVE OrphansOnlyFromRace'
  <2>1. /\ UNCHANGED <<addr, owner, private, displaced, unseen>>
        /\ \A d \in Clients : state'[d] = state[d] \/ state'[d] = "stopped"
    BY <1>7, StopsEffect
  <2> QED
    BY <1>0, <2>1 DEF connected
<1>8. CASE Quiet
  BY <1>0, <1>8 DEF connected, Quiet
<1>9. CASE clear
  BY <1>0, <1>9 DEF connected, clear
<1> QED
  BY <1>1, <1>2, <1>3, <1>4, <1>5, <1>6, <1>7, <1>8, <1>9, Kinds

-----------------------------------------------------------------------------
(* Sequences of frames.                                                     *)

\* The elements of a longer sequence.
LEMMA AppendElements ==
  ASSUME NEW q \in Seq(Int), NEW f \in Int
  PROVE  /\ Append(q, f) # <<>>
         /\ q # <<>> => Append(q, f)[1] = q[1]
         /\ q = <<>> => Append(q, f)[1] = f
         /\ Append(q, f)[Len(Append(q, f))] = f
         /\ \A i \in DOMAIN Append(q, f) : Append(q, f)[i] = f \/ (i \in DOMAIN q /\ Append(q, f)[i] = q[i])
<1> DEFINE r == Append(q, f)
<1>1. /\ r \in Seq(Int) /\ Len(r) = Len(q) + 1 /\ DOMAIN r = 1..(Len(q) + 1) /\ DOMAIN q = 1..Len(q)
      /\ r[Len(q) + 1] = f /\ \A i \in 1..Len(q) : r[i] = q[i]
  OBVIOUS
<1>2. Len(q) \in Nat
  OBVIOUS
<1>3. q # <<>> <=> Len(q) > 0
  OBVIOUS
<1> HIDE DEF r
<1>4. r # <<>> /\ (q # <<>> => r[1] = q[1]) /\ (q = <<>> => r[1] = f) /\ r[Len(r)] = f
  BY <1>1, <1>2, <1>3
<1>5. \A i \in DOMAIN r : r[i] = f \/ (i \in DOMAIN q /\ r[i] = q[i])
  BY <1>1, <1>2
<1> QED
  BY <1>4, <1>5 DEF r

\* A frame at the end.
LEMMA AppendInOrder ==
  ASSUME NEW q \in Seq(Int), NEW f \in Int, NEW S
  PROVE  /\ Rising(q) /\ (f > 0 => \A i \in DOMAIN q : q[i] < f) => Rising(Append(q, f))
         /\ Gapless(q, S) /\ (q # <<>> /\ q[Len(q)] > 0 /\ f > 0 => f = q[Len(q)] + 1 \/ f \in S) => Gapless(Append(q, f), S)
<1> DEFINE r == Append(q, f)
<1>1. /\ r \in Seq(Int) /\ Len(r) = Len(q) + 1 /\ DOMAIN r = 1..(Len(q) + 1) /\ DOMAIN q = 1..Len(q)
      /\ r[Len(q) + 1] = f /\ \A i \in 1..Len(q) : r[i] = q[i]
  OBVIOUS
<1>2. Len(q) \in Nat /\ \A i \in 1..Len(q) : q[i] \in Int
  OBVIOUS
<1>3. q # <<>> <=> Len(q) > 0
  OBVIOUS
<1> HIDE DEF r
<1>4. ASSUME Rising(q), f > 0 => \A i \in DOMAIN q : q[i] < f PROVE Rising(r)
  <2> SUFFICES ASSUME NEW i \in DOMAIN r, NEW j \in DOMAIN r, i < j, r[i] > 0, r[j] > 0
               PROVE  r[i] < r[j]
    BY DEF Rising
  <2>1. i \in 1..Len(q) /\ r[i] = q[i]
    BY <1>1, <1>2
  <2>2. CASE j = Len(q) + 1
    BY <1>1, <1>4, <2>1, <2>2
  <2>3. CASE j \in 1..Len(q)
    <3>1. r[j] = q[j] /\ i \in DOMAIN q /\ j \in DOMAIN q
      BY <1>1, <2>1, <2>3
    <3> QED
      BY <1>4, <2>1, <3>1 DEF Rising
  <2> QED
    BY <1>1, <1>2, <2>2, <2>3
<1>5. ASSUME Gapless(q, S), q # <<>> /\ q[Len(q)] > 0 /\ f > 0 => f = q[Len(q)] + 1 \/ f \in S PROVE Gapless(r, S)
  <2> SUFFICES ASSUME NEW i \in DOMAIN r, i + 1 \in DOMAIN r, r[i] > 0, r[i + 1] > 0
               PROVE  r[i + 1] = r[i] + 1 \/ r[i + 1] \in S
    BY DEF Gapless
  <2>1. CASE i = Len(q)
    <3>1. i + 1 = Len(q) + 1 /\ Len(q) > 0 /\ i \in 1..Len(q)
      BY <1>1, <1>2, <2>1
    <3>2. r[i + 1] = f /\ r[i] = q[Len(q)] /\ q # <<>>
      BY <1>1, <1>3, <2>1, <3>1
    <3> QED
      BY <1>5, <3>2
  <2>2. CASE i # Len(q)
    <3>1. i \in 1..Len(q) /\ i + 1 \in 1..Len(q)
      BY <1>1, <1>2, <2>2
    <3>2. i \in DOMAIN q /\ i + 1 \in DOMAIN q /\ r[i] = q[i] /\ r[i + 1] = q[i + 1]
      BY <1>1, <3>1
    <3> QED
      BY <1>5, <3>2 DEF Gapless
  <2> QED
    BY <2>1, <2>2
<1> QED
  BY <1>4, <1>5 DEF r

\* A beginning of a sequence.
LEMMA PrefixInOrder ==
  ASSUME NEW p \in Seq(Int), NEW q \in Seq(Int), NEW S,
         Len(p) <= Len(q), \A i \in DOMAIN p : p[i] = q[i]
  PROVE  /\ Rising(q) => Rising(p)
         /\ Gapless(q, S) => Gapless(p, S)
         /\ p # <<>> => q # <<>> /\ p[1] = q[1]
<1>1. /\ DOMAIN p = 1..Len(p) /\ DOMAIN q = 1..Len(q) /\ Len(p) \in Nat /\ Len(q) \in Nat
      /\ \A i \in DOMAIN p : i \in DOMAIN q
  OBVIOUS
<1>2. Rising(q) => Rising(p)
  BY <1>1 DEF Rising
<1>3. Gapless(q, S) => Gapless(p, S)
  BY <1>1 DEF Gapless
<1>4. p # <<>> => Len(p) > 0
  OBVIOUS
<1> QED
  BY <1>1, <1>2, <1>3, <1>4

\* What is left of a sequence when the first frame is taken.
LEMMA TailInOrder ==
  ASSUME NEW u \in Seq(Int), NEW S, u # <<>>
  PROVE  /\ Rising(u) => Rising(Tail(u))
         /\ Gapless(u, S) => Gapless(Tail(u), S)
         /\ \A i \in DOMAIN Tail(u) : i + 1 \in DOMAIN u /\ Tail(u)[i] = u[i + 1] /\ i + 1 > 1
         /\ Tail(u) # <<>> => /\ Tail(u)[1] = u[2] /\ 2 \in DOMAIN u
                              /\ Tail(u)[Len(Tail(u))] = u[Len(u)]
         /\ Tail(u) = <<>> => Len(u) = 1
         /\ Head(u) = u[1] /\ 1 \in DOMAIN u
<1> DEFINE t == Tail(u)
<1>1. /\ t \in Seq(Int) /\ Len(t) = Len(u) - 1 /\ DOMAIN t = 1..(Len(u) - 1) /\ DOMAIN u = 1..Len(u)
      /\ \A i \in 1..(Len(u) - 1) : t[i] = u[i + 1]
  OBVIOUS
<1>2. Len(u) \in Nat /\ Len(u) > 0 /\ Head(u) = u[1] /\ (\A i \in 1..Len(u) : u[i] \in Int)
  OBVIOUS
<1> HIDE DEF t
<1>3. t = <<>> <=> Len(t) = 0
  BY <1>1
<1>4. ASSUME Rising(u) PROVE Rising(t)
  <2> SUFFICES ASSUME NEW i \in DOMAIN t, NEW j \in DOMAIN t, i < j, t[i] > 0, t[j] > 0
               PROVE  t[i] < t[j]
    BY DEF Rising
  <2>0. i \in 1..(Len(u) - 1) /\ j \in 1..(Len(u) - 1)
    BY <1>1
  <2>1. i + 1 \in DOMAIN u /\ j + 1 \in DOMAIN u /\ i + 1 < j + 1 /\ t[i] = u[i + 1] /\ t[j] = u[j + 1]
    <3>1. t[i] = u[i + 1] /\ t[j] = u[j + 1]
      BY <1>1, <2>0
    <3>2. i + 1 \in 1..Len(u) /\ j + 1 \in 1..Len(u) /\ i + 1 < j + 1
      BY <1>2, <2>0
    <3> QED
      BY <1>1, <3>1, <3>2
  <2> QED
    BY <1>4, <2>1 DEF Rising
<1>5. ASSUME Gapless(u, S) PROVE Gapless(t, S)
  <2> SUFFICES ASSUME NEW i \in DOMAIN t, i + 1 \in DOMAIN t, t[i] > 0, t[i + 1] > 0
               PROVE  t[i + 1] = t[i] + 1 \/ t[i + 1] \in S
    BY DEF Gapless
  <2>0. i \in 1..(Len(u) - 1) /\ i + 1 \in 1..(Len(u) - 1)
    BY <1>1
  <2>1. i + 1 \in DOMAIN u /\ (i + 1) + 1 \in DOMAIN u /\ t[i] = u[i + 1] /\ t[i + 1] = u[(i + 1) + 1]
    <3>1. t[i] = u[i + 1] /\ t[i + 1] = u[(i + 1) + 1]
      BY <1>1, <2>0
    <3>2. i + 1 \in 1..Len(u) /\ (i + 1) + 1 \in 1..Len(u)
      BY <1>2, <2>0
    <3> QED
      BY <1>1, <3>1, <3>2
  <2> QED
    BY <1>5, <2>1 DEF Gapless
<1>6. \A i \in DOMAIN t : i + 1 \in DOMAIN u /\ t[i] = u[i + 1] /\ i + 1 > 1
  BY <1>1, <1>2
<1>7. t # <<>> => t[1] = u[2] /\ 2 \in DOMAIN u /\ t[Len(t)] = u[Len(u)]
  BY <1>1, <1>2, <1>3
<1>8. t = <<>> => Len(u) = 1
  BY <1>1, <1>2, <1>3
<1>9. Head(u) = u[1] /\ 1 \in DOMAIN u
  BY <1>1, <1>2
<1> QED
  BY <1>4, <1>5, <1>6, <1>7, <1>8, <1>9 DEF t

\* Two sequences one after the other: a frame moved over the joint, a frame
\* added, and what came first.
LEMMA Joined ==
  ASSUME NEW r \in Seq(Int), NEW b \in Seq(Int)
  PROVE  /\ r \o b \in Seq(Int)
         /\ b # <<>> => Append(r, Head(b)) \o Tail(b) = r \o b
         /\ \A f \in Int : r \o Append(b, f) = Append(r \o b, f)
         /\ r \o <<>> = r
         /\ Len(r) <= Len(r \o b) /\ \A i \in DOMAIN r : r[i] = (r \o b)[i]
<1>1. r \o b \in Seq(Int) /\ r \o <<>> = r
  OBVIOUS
<1>2. ASSUME b # <<>> PROVE Append(r, Head(b)) \o Tail(b) = r \o b
  <2> DEFINE x == Append(r, Head(b)) \o Tail(b)
             y == r \o b
  <2>1. /\ Tail(b) \in Seq(Int) /\ Len(Tail(b)) = Len(b) - 1 /\ Head(b) \in Int /\ Head(b) = b[1]
        /\ \A i \in 1..(Len(b) - 1) : Tail(b)[i] = b[i + 1]
    BY <1>2
  <2>2. Append(r, Head(b)) \in Seq(Int) /\ Len(Append(r, Head(b))) = Len(r) + 1
    BY <2>1
  <2>3. x \in Seq(Int) /\ Len(x) = Len(r) + 1 + (Len(b) - 1) /\ y \in Seq(Int) /\ Len(y) = Len(r) + Len(b)
    BY <2>1, <2>2
  <2>4. ASSUME NEW i \in 1..(Len(r) + Len(b)) PROVE x[i] = y[i]
    <3>1. CASE i <= Len(r)
      BY <2>1, <2>2, <3>1
    <3>2. CASE i = Len(r) + 1
      <4>1. i \in 1..Len(Append(r, Head(b)))
        BY <2>2, <3>2
      <4>2. x[i] = Append(r, Head(b))[i]
        BY <2>1, <2>2, <4>1
      <4>3. Append(r, Head(b))[i] = Head(b)
        BY <2>1, <3>2
      <4>4. y[i] = b[1]
        BY <1>2, <3>2
      <4> QED
        BY <2>1, <4>2, <4>3, <4>4
    <3>3. CASE i > Len(r) + 1
      <4>1. x[i] = Tail(b)[i - (Len(r) + 1)] /\ y[i] = b[i - Len(r)]
        BY <2>1, <2>2, <3>3
      <4>2. i - (Len(r) + 1) \in 1..(Len(b) - 1) /\ (i - (Len(r) + 1)) + 1 = i - Len(r)
        BY <3>3
      <4> QED
        BY <2>1, <4>1, <4>2
    <3>4. i <= Len(r) \/ i = Len(r) + 1 \/ i > Len(r) + 1
      OBVIOUS
    <3> QED
      BY <3>1, <3>2, <3>3, <3>4
  <2>5. Len(x) = Len(y)
    BY <2>3
  <2> HIDE DEF x, y
  <2>6. x = y
    BY <2>3, <2>4, <2>5
  <2> QED
    BY <2>6 DEF x, y
<1>3. ASSUME NEW f \in Int PROVE r \o Append(b, f) = Append(r \o b, f)
  <2> DEFINE x == r \o Append(b, f)
             y == Append(r \o b, f)
  <2>1. Append(b, f) \in Seq(Int) /\ Len(Append(b, f)) = Len(b) + 1
    OBVIOUS
  <2>2. x \in Seq(Int) /\ Len(x) = Len(r) + Len(b) + 1 /\ y \in Seq(Int) /\ Len(y) = Len(r) + Len(b) + 1
    BY <1>1, <2>1
  <2>3. ASSUME NEW i \in 1..(Len(r) + Len(b) + 1) PROVE x[i] = y[i]
    <3>1. CASE i <= Len(r)
      BY <1>1, <2>1, <3>1
    <3>2. CASE i > Len(r) /\ i <= Len(r) + Len(b)
      BY <1>1, <2>1, <3>2
    <3>3. CASE i = Len(r) + Len(b) + 1
      BY <1>1, <2>1, <3>3
    <3> QED
      BY <3>1, <3>2, <3>3
  <2> HIDE DEF x, y
  <2>4. x = y
    BY <2>2, <2>3
  <2> QED
    BY <2>4 DEF x, y
<1>4. Len(r) <= Len(r \o b) /\ \A i \in DOMAIN r : r[i] = (r \o b)[i]
  OBVIOUS
<1> QED
  BY <1>1, <1>2, <1>3, <1>4

-----------------------------------------------------------------------------
(* The steps, by what they do to the pipes.                                 *)

\* Pipes are sequences of frames, and begin with what was received.
LEMMA PipeTypes ==
  ASSUME TypeOK, NEW s \in Subs
  PROVE  /\ received[s] \in Seq(Int) /\ inbox[s] \in Seq(Int) /\ Pipe(s) \in Seq(Int)
         /\ Len(received[s]) <= Len(Pipe(s))
         /\ \A i \in DOMAIN received[s] : received[s][i] = Pipe(s)[i] /\ received[s][i] > 0
<1>1. received[s] \in Seq(Nat \ {0}) /\ inbox[s] \in Seq(Nat \cup {-1})
  BY DEF TypeOK, Frames, CloseFrame, Stopped
<1>2. received[s] \in Seq(Int) /\ inbox[s] \in Seq(Int)
  BY <1>1, ProxyClientsAssumption
<1>3. \A i \in DOMAIN received[s] : received[s][i] > 0
  BY <1>1, ProxyClientsAssumption
<1>4. /\ Pipe(s) \in Seq(Int) /\ Len(received[s]) <= Len(Pipe(s))
      /\ \A i \in DOMAIN received[s] : received[s][i] = Pipe(s)[i]
  <2>1. CASE s \in lagged
    BY <1>2, <2>1 DEF Pipe
  <2>2. CASE s \notin lagged
    <3> DEFINE r == received[s]
               b == inbox[s]
    <3>1. r \o b \in Seq(Int) /\ Len(r) <= Len(r \o b) /\ \A i \in DOMAIN r : r[i] = (r \o b)[i]
      BY <1>2, Joined
    <3> QED
      BY <2>2, <3>1 DEF Pipe
  <2> QED
    BY <2>1, <2>2
<1> QED
  BY <1>2, <1>3, <1>4

\* The socket of s is where it was.
Same(s) ==
  /\ rx'[s] = rx[s] /\ target'[s] = target[s]
  /\ s \in lagged' <=> s \in lagged
  /\ Pipe(s)' = Pipe(s)

\* It has nothing yet; if it just got its Receiver from the client that it
\* created, that client is not connected yet.
Fresh(s) ==
  /\ Pipe(s)' = <<>>
  /\ \A c \in Clients : rx'[s] = c /\ owner'[c] = s => ~link[c]

\* It gets no more than it has.
Cut(s) ==
  /\ target'[s] = target[s]
  /\ Pipe(s)' = received[s]
  /\ rx'[s] = NoClient \/ s \in lagged'

\* It has f to read.
Fed(s, f) ==
  /\ rx'[s] = rx[s] /\ target'[s] = target[s]
  /\ s \notin lagged /\ s \notin lagged'
  /\ Pipe(s)' = Append(Pipe(s), f)

\* The client c passes f on.
Passed(c, f) ==
  \A s \in Subs : IF rx[s] = c THEN Fed(s, f) \/ Cut(s) ELSE Same(s)

\* Who created which client, for the socket of s.
Owned(s) == \A c \in Clients : owner'[c] = s <=> owner[c] = s

\* The upstream connection of c, and no other, is gone.
Ended(c) ==
  /\ ~link'[c] /\ upstream'[c] = <<>> /\ UNCHANGED <<owner, arrived, starts>>
  /\ \A d \in Clients : d # c => link'[d] = link[d] /\ upstream'[d] = upstream[d]
  /\ (\E f \in {Stopped, CloseFrame} : Passed(c, f)) \/ (\A s \in Subs : Same(s))

Linked(c) ==
  /\ ~link[c] /\ UNCHANGED <<owner, arrived, upstream>>
  /\ arrived[c] + 1 \in starts'[c] /\ starts[c] \subseteq starts'[c]
  /\ \A d \in Clients : d # c => link'[d] = link[d] /\ starts'[d] = starts[d]
  /\ \A s \in Subs : Same(s)

Taken(c) ==
  /\ upstream[c] # <<>>
  /\ upstream'[c] = Tail(upstream[c])
  /\ UNCHANGED <<owner, link, arrived, starts>>
  /\ \A d \in Clients : d # c => upstream'[d] = upstream[d]
  /\ Passed(c, Head(upstream[c]))

Grown(c, f) ==
  /\ link[c] /\ UNCHANGED <<owner, link, starts>>
  /\ upstream'[c] = Append(upstream[c], f)
  /\ \/ f = CloseFrame /\ arrived'[c] = arrived[c]
     \/ f = arrived[c] + 1 /\ arrived'[c] = arrived[c] + 1
  /\ \A d \in Clients : d # c => upstream'[d] = upstream[d] /\ arrived'[d] = arrived[d]
  /\ \A s \in Subs : Same(s)

Rest ==
  /\ UNCHANGED <<link, upstream, arrived, starts>>
  /\ \A s \in Subs : (Same(s) /\ Owned(s)) \/ Fresh(s) \/ (Cut(s) /\ Owned(s))

\* A send feeds the Receivers or overruns them.
LEMMA SendPasses ==
  ASSUME TypeOK, NEW c \in Clients, NEW f \in Frames, Send(c, f),
         UNCHANGED <<target, rx, received>>
  PROVE  Passed(c, f)
<1> SUFFICES ASSUME NEW s \in Subs PROVE Passed(c, f)!(s)
  BY DEF Passed
<1>1. /\ lagged \subseteq lagged'
      /\ IF rx[s] # c THEN inbox'[s] = inbox[s] /\ (s \in lagged' => s \in lagged)
         ELSE s \notin lagged' => inbox'[s] = Append(inbox[s], f)
  BY SendEffect
<1>2. f \in Int /\ received[s] \in Seq(Int) /\ inbox[s] \in Seq(Int)
  BY PipeTypes, ProxyClientsAssumption DEF Frames
<1>3. CASE rx[s] # c
  BY <1>1, <1>3 DEF Same, Pipe
<1>4. CASE rx[s] = c /\ s \in lagged'
  BY <1>4 DEF Cut, Pipe
<1>5. CASE rx[s] = c /\ s \notin lagged'
  <2>0. PICK r \in Seq(Int), b \in Seq(Int) : r = received[s] /\ b = inbox[s]
    BY <1>2
  <2>1. received[s] \o Append(inbox[s], f) = Append(received[s] \o inbox[s], f)
    <3>1. f \in Int
      BY <1>2
    <3>2. r \o Append(b, f) = Append(r \o b, f)
      BY <3>1, Joined
    <3> QED
      BY <2>0, <3>2
  <2>2. inbox'[s] = Append(inbox[s], f) /\ s \notin lagged
    BY <1>1, <1>5
  <2> QED
    BY <1>5, <2>1, <2>2 DEF Fed, Pipe
<1> QED
  BY <1>3, <1>4, <1>5

\* A request without a Receiver that has received nothing has an empty pipe.
LEMMA NothingYet ==
  ASSUME Control, NEW s \in Subs, rx[s] = NoClient, pc[s] \notin {"open", "closed"}
  PROVE  inbox[s] = <<>> /\ received[s] = <<>> /\ s \notin lagged /\ Pipe(s) = <<>>
BY DEF Control, RequestOK, Pipe

\* Every step is of one of these kinds.
LEMMA PipeKinds ==
  ASSUME Control, [Next]_vars
  PROVE  \/ \E c \in Clients : Linked(c) \/ Taken(c) \/ Ended(c) \/ (\E f \in Int : Grown(c, f))
         \/ Rest
<1> USE ProxyClientsAssumption
<1> TypeOK
  BY DEF Control
<1>1. ASSUME NEW s \in Subs, NEW sequence \in BOOLEAN, GetAddr(s, sequence) PROVE Rest
  <2>1. /\ pc[s] = "idle" /\ private \subseteq private' /\ private' \subseteq private \cup {s}
        /\ UNCHANGED <<owner, upVars, rx, inbox, lagged, received, starts>>
        /\ \A t \in Subs : t # s => target'[t] = target[t]
    BY <1>1, GetAddrEffect
  <2>2. rx[s] = NoClient
    BY <2>1 DEF Control, RequestOK
  <2>3. Fresh(s)
    BY <2>1, <2>2, NothingYet DEF Fresh, Pipe
  <2>4. \A t \in Subs : t # s => Same(t) /\ Owned(t)
    BY <2>1 DEF Same, Owned, Pipe
  <2> QED
    BY <2>1, <2>3, <2>4 DEF Rest
<1>2. ASSUME NEW s \in Subs, Insert(s) PROVE Rest
  <2>1. /\ pc[s] = "insert" /\ rx[s] = NoClient
        /\ UNCHANGED <<upVars, private, rx, inbox, lagged, received, starts>>
        /\ \A t \in Subs : t # s => target'[t] = target[t]
    BY <1>2, InsertEffect DEF Creates
  <2>2. Fresh(s)
    BY <2>1, NothingYet DEF Fresh, Pipe
  <2>4. \A t \in Subs : t # s => Owned(t)
    <3>1. PICK c \in Clients : Creates(s, c)
      BY <1>2, InsertEffect
    <3> QED
      BY <3>1 DEF Creates, Owned
  <2>3. \A t \in Subs : t # s => Same(t) /\ Owned(t)
    BY <2>1, <2>4 DEF Same, Pipe
  <2> QED
    BY <2>1, <2>2, <2>3 DEF Rest
<1>3. ASSUME NEW s \in Subs, SendSubscribe(s) \/ Opens(s) PROVE Rest
  <2>1. UNCHANGED <<owner, upVars, private, target, rx, inbox, lagged, received, starts>>
    BY <1>3, SendSubscribeEffect DEF Opens
  <2> QED
    BY <2>1 DEF Rest, Same, Owned, Pipe
<1>4. ASSUME NEW s \in Subs, Closes(s) PROVE Rest
  <2>1. /\ rx'[s] = NoClient /\ inbox'[s] = <<>> /\ s \notin lagged'
        /\ \A t \in Subs : t # s =>
             /\ rx'[t] = rx[t] /\ inbox'[t] = inbox[t]
             /\ (t \in lagged' <=> t \in lagged)
        /\ UNCHANGED <<owner, upVars, private, target, received, starts>>
    BY <1>4, ClosesEffect
  <2>2. received[s] \o <<>> = received[s]
    BY PipeTypes, Joined
  <2>3. Cut(s) /\ Owned(s)
    BY <2>1, <2>2 DEF Cut, Owned, Pipe
  <2>4. \A t \in Subs : t # s => Same(t) /\ Owned(t)
    BY <2>1 DEF Same, Owned, Pipe
  <2> QED
    BY <2>1, <2>3, <2>4 DEF Rest
<1>5. ASSUME NEW s \in Subs, HandleResponse(s), ~Closes(s) PROVE Rest
  <2>1. /\ s \notin lagged /\ inbox[s] # <<>>
        /\ received' = [received EXCEPT ![s] = Append(received[s], Head(inbox[s]))]
        /\ inbox' = [inbox EXCEPT ![s] = Tail(inbox[s])]
        /\ UNCHANGED <<owner, upVars, private, target, rx, lagged, starts>>
    BY <1>5 DEF HandleResponse, Closes, TypeOK
  <2>2. received[s] \in Seq(Int) /\ inbox[s] \in Seq(Int)
    BY PipeTypes
  <2>3. Append(received[s], Head(inbox[s])) \o Tail(inbox[s]) = received[s] \o inbox[s]
    BY <2>1, <2>2, Joined
  <2>4. received'[s] = Append(received[s], Head(inbox[s])) /\ inbox'[s] = Tail(inbox[s])
    BY <2>1 DEF TypeOK
  <2>5. Same(s) /\ Owned(s)
    BY <2>1, <2>3, <2>4 DEF Same, Owned, Pipe
  <2>6. \A t \in Subs : t # s => received'[t] = received[t] /\ inbox'[t] = inbox[t]
    BY <2>1 DEF TypeOK
  <2>7. \A t \in Subs : t # s => Same(t) /\ Owned(t)
    BY <2>1, <2>6 DEF Same, Owned, Pipe
  <2> QED
    BY <2>1, <2>5, <2>7 DEF Rest
<1>6. ASSUME NEW c \in Clients, HandleSubscribe(c) PROVE Rest
  <2>1. PICK s \in Subs : Answers(c, s)
    BY <1>6, HandleSubscribeEffect
  <2>2. /\ UNCHANGED <<owner, upVars, private, target, inbox, lagged, received, starts>>
        /\ \A t \in Subs : t # s => rx'[t] = rx[t]
    BY <2>1 DEF Answers
  <2>3. \A t \in Subs : t # s => Same(t) /\ Owned(t)
    BY <2>2 DEF Same, Owned, Pipe
  <2>4. CASE pc[s] # "await"
    <3>1. rx'[s] = rx[s]
      BY <2>1, <2>4 DEF Answers
    <3>2. Same(s) /\ Owned(s)
      BY <2>2, <3>1 DEF Same, Owned, Pipe
    <3> QED
      BY <2>2, <2>3, <3>2 DEF Rest
  <2>5. CASE pc[s] = "await"
    <3>1. rx[s] = NoClient /\ rx'[s] = c /\ target[s] = c
      BY <2>1, <2>5 DEF Answers
    <3>2. Pipe(s)' = <<>>
      BY <2>2, <2>5, <3>1, NothingYet DEF Pipe
    <3>3. owner[c] = s => state[c] = "fresh"
      BY <2>5 DEF Control, OwnerOK
    <3>4. owner[c] = s => ~link[c]
      BY <3>3 DEF Control, OwnerOK
    <3>5. Fresh(s)
      BY <2>2, <3>1, <3>2, <3>4 DEF Fresh
    <3> QED
      BY <2>2, <2>3, <3>5 DEF Rest
  <2> QED
    BY <2>4, <2>5
<1>7. ASSUME NEW c \in Clients, Stops(c) PROVE Ended(c)
  <2>1. /\ Send(c, Stopped) /\ link' = [link EXCEPT ![c] = FALSE] /\ upstream' = [upstream EXCEPT ![c] = <<>>]
        /\ UNCHANGED <<owner, arrived, target, rx, received, starts>>
    BY <1>7 DEF Stops, Stop
  <2>2. Passed(c, Stopped)
    BY <2>1, SendPasses DEF Stopped, Frames
  <2>3. /\ ~link'[c] /\ upstream'[c] = <<>>
        /\ \A d \in Clients : d # c => link'[d] = link[d] /\ upstream'[d] = upstream[d]
    BY <2>1 DEF TypeOK
  <2> QED
    BY <2>1, <2>2, <2>3 DEF Ended
<1>8. ASSUME NEW c \in Clients, Connect(c), ~Stops(c) PROVE Linked(c)
  <2>1. /\ ~link[c] /\ link' = [link EXCEPT ![c] = TRUE]
        /\ starts' = [starts EXCEPT ![c] = starts[c] \cup {arrived[c] + 1}]
        /\ UNCHANGED <<owner, upstream, arrived, subVars, received>>
    BY <1>8 DEF Connect, Stops, TypeOK
  <2>2. \A s \in Subs : Same(s)
    BY <2>1 DEF Same, Pipe
  <2>3. /\ starts'[c] = starts[c] \cup {arrived[c] + 1}
        /\ \A d \in Clients : d # c => link'[d] = link[d] /\ starts'[d] = starts[d]
    BY <2>1 DEF TypeOK
  <2> QED
    BY <2>1, <2>2, <2>3 DEF Linked
<1>9. ASSUME NEW c \in Clients, HandleFrame(c), ~Stops(c) PROVE Taken(c) \/ Ended(c)
  <2>1. link[c] => state[c] = "running"
    BY DEF Control, OwnerOK
  <2>2. /\ link[c] /\ upstream[c] # <<>> /\ Send(c, Head(upstream[c]))
        /\ UNCHANGED <<owner, arrived, target, rx, received, starts>>
        /\ \/ Head(upstream[c]) = CloseFrame /\ Restart(c)
           \/ upstream' = [upstream EXCEPT ![c] = Tail(upstream[c])] /\ UNCHANGED link
    BY <1>9, <2>1 DEF HandleFrame, Stops, TypeOK
  <2>3. Head(upstream[c]) \in Frames
    BY <2>2 DEF TypeOK
  <2>4. Passed(c, Head(upstream[c]))
    BY <2>2, <2>3, SendPasses
  <2>5. CASE Head(upstream[c]) = CloseFrame /\ Restart(c)
    <3>1. /\ ~link'[c] /\ upstream'[c] = <<>>
          /\ \A d \in Clients : d # c => link'[d] = link[d] /\ upstream'[d] = upstream[d]
      BY <2>5 DEF Restart, TypeOK
    <3> QED
      BY <2>2, <2>4, <2>5, <3>1 DEF Ended
  <2>6. CASE upstream' = [upstream EXCEPT ![c] = Tail(upstream[c])] /\ UNCHANGED link
    <3>1. upstream'[c] = Tail(upstream[c]) /\ \A d \in Clients : d # c => upstream'[d] = upstream[d]
      BY <2>6 DEF TypeOK
    <3> QED
      BY <2>2, <2>4, <2>6, <3>1 DEF Taken
  <2> QED
    BY <2>2, <2>5, <2>6
<1>10. ASSUME NEW c \in Clients, Finished(c) PROVE Ended(c)
  <2>1. Restart(c) /\ UNCHANGED <<owner, arrived, subVars, received, starts>>
    BY <1>10 DEF Finished
  <2>2. /\ ~link'[c] /\ upstream'[c] = <<>>
        /\ \A d \in Clients : d # c => link'[d] = link[d] /\ upstream'[d] = upstream[d]
    BY <2>1 DEF Restart, TypeOK
  <2>3. \A s \in Subs : Same(s)
    BY <2>1 DEF Same, Pipe
  <2> QED
    BY <2>1, <2>2, <2>3 DEF Ended
<1>11. ASSUME NEW c \in Clients, ShardCloses(c) PROVE \E f \in Int : Grown(c, f)
  <2>1. /\ link[c] /\ upstream' = [upstream EXCEPT ![c] = Append(upstream[c], CloseFrame)]
        /\ UNCHANGED <<owner, link, arrived, subVars, received, starts>>
    BY <1>11 DEF ShardCloses, TypeOK
  <2>2. \A s \in Subs : Same(s)
    BY <2>1 DEF Same, Pipe
  <2>3. upstream'[c] = Append(upstream[c], CloseFrame) /\ \A d \in Clients : d # c => upstream'[d] = upstream[d]
    BY <2>1 DEF TypeOK
  <2>4. Grown(c, CloseFrame)
    BY <2>1, <2>2, <2>3 DEF Grown
  <2> QED
    BY <2>4 DEF CloseFrame
<1>12. ASSUME NEW c \in Clients, Arrive(c) PROVE \E f \in Int : Grown(c, f)
  <2>1. /\ link[c] /\ upstream' = [upstream EXCEPT ![c] = Append(upstream[c], arrived[c] + 1)]
        /\ arrived' = [arrived EXCEPT ![c] = arrived[c] + 1]
        /\ UNCHANGED <<owner, link, subVars, received, starts>>
    BY <1>12 DEF Arrive, TypeOK
  <2>2. \A s \in Subs : Same(s)
    BY <2>1 DEF Same, Pipe
  <2>3. /\ upstream'[c] = Append(upstream[c], arrived[c] + 1) /\ arrived'[c] = arrived[c] + 1
        /\ \A d \in Clients : d # c => upstream'[d] = upstream[d] /\ arrived'[d] = arrived[d]
    BY <2>1 DEF TypeOK
  <2>4. Grown(c, arrived[c] + 1)
    BY <2>1, <2>2, <2>3 DEF Grown
  <2>5. arrived[c] + 1 \in Int
    BY DEF TypeOK
  <2> QED
    BY <2>4, <2>5
<1>13. ASSUME clear \/ UNCHANGED vars PROVE Rest
  <2>1. UNCHANGED <<owner, upVars, private, target, rx, inbox, lagged, received, starts>>
    BY <1>13 DEF clear, vars
  <2> QED
    BY <2>1 DEF Rest, Same, Owned, Pipe
<1>14. ASSUME NEW s \in Subs, Started(s) PROVE Opens(s) \/ Closes(s)
  BY <1>14 DEF Started, Opens, Closes
<1>15. ASSUME NEW s \in Subs, StreamEnds(s) \/ BrowserGone(s) PROVE Closes(s)
  BY <1>15 DEF StreamEnds, BrowserGone, Closes
<1>16. ASSUME NEW c \in Clients, CloseEmptyConnection(c) \/ HandleError(c) PROVE Stops(c)
  BY <1>16 DEF CloseEmptyConnection, HandleError, Stops, Control, OwnerOK
<1> QED
  BY <1>1, <1>2, <1>3, <1>4, <1>5, <1>6, <1>7, <1>8, <1>9, <1>10, <1>11, <1>12, <1>13,
     <1>14, <1>15, <1>16 DEF Next, Handler, Client

-----------------------------------------------------------------------------
(* The order of what is passed on.                                          *)

\* Frames that are not handled yet stay in order.
LEMMA UpstreamOKStep ==
  ASSUME Control, UpstreamOK, [Next]_vars
  PROVE  UpstreamOK'
<1> SUFFICES ASSUME NEW c \in Clients PROVE UpstreamOK!(c)'
  BY DEF UpstreamOK
<1> DEFINE u == upstream[c]
           a == arrived[c]
<1>1. u \in Seq(Int) /\ a \in Nat
  <2>1. u \in Seq(Nat \cup {-1}) /\ a \in Nat
    BY DEF Control, TypeOK, Frames, Stopped
  <2> QED
    BY <2>1
<1>2. /\ ~link[c] => u = <<>>
      /\ Rising(u) /\ Gapless(u, {})
      /\ \A i \in DOMAIN u : u[i] >= 0 /\ u[i] <= a
      /\ u # <<>> /\ u[Len(u)] # CloseFrame => u[Len(u)] = a
  BY DEF UpstreamOK
<1>3. CASE upstream'[c] = u /\ (link[c] => link'[c]) /\ arrived'[c] = a
  BY <1>2, <1>3 DEF UpstreamOK
<1>4. CASE upstream'[c] = <<>>
  BY <1>4 DEF Rising, Gapless
<1>5. CASE Linked(c)
  <2>1. u = <<>> /\ upstream' = upstream
    BY <1>2, <1>5 DEF Linked
  <2> QED
    BY <1>4, <2>1
<1>6. CASE Taken(c)
  <2> DEFINE w == Tail(u)
  <2>1. u # <<>> /\ upstream'[c] = w /\ link'[c] = link[c] /\ arrived'[c] = a
    BY <1>6 DEF Taken
  <2>2. /\ Rising(w) /\ Gapless(w, {})
        /\ \A i \in DOMAIN w : i + 1 \in DOMAIN u /\ w[i] = u[i + 1]
        /\ w # <<>> => w[Len(w)] = u[Len(u)]
    BY <1>1, <1>2, <2>1, TailInOrder
  <2> HIDE DEF w
  <2>3. \A i \in DOMAIN w : w[i] >= 0 /\ w[i] <= a
    BY <1>2, <2>2
  <2>4. link'[c]
    BY <1>2, <2>1
  <2> QED
    BY <1>2, <2>1, <2>2, <2>3, <2>4
<1>7. ASSUME NEW f \in Int, Grown(c, f) PROVE UpstreamOK!(c)'
  <2> DEFINE w == Append(u, f)
  <2>0. PICK p \in Nat : p = arrived'[c]
    BY <1>1, <1>7 DEF Grown
  <2>1. /\ upstream'[c] = w /\ link'[c]
        /\ \/ f = CloseFrame /\ p = a
           \/ f = a + 1 /\ p = a + 1
    BY <1>7, <2>0 DEF Grown
  <2>2. \A i \in DOMAIN u : u[i] \in Int
    BY <1>1
  <2>3. f > 0 => f = a + 1
    BY <2>1 DEF CloseFrame
  <2>4. f > 0 => \A i \in DOMAIN u : u[i] < f
    BY <1>1, <1>2, <2>2, <2>3
  <2>5. u # <<>> /\ u[Len(u)] > 0 /\ f > 0 => f = u[Len(u)] + 1
    BY <1>2, <2>3 DEF CloseFrame
  <2>6. /\ Rising(w) /\ Gapless(w, {}) /\ w[Len(w)] = f
        /\ \A i \in DOMAIN w : w[i] = f \/ (i \in DOMAIN u /\ w[i] = u[i])
    BY <1>1, <1>2, <2>4, <2>5, AppendInOrder
  <2>7. f >= 0 /\ f <= p /\ a <= p /\ (f # CloseFrame => f = p)
    BY <1>1, <2>1 DEF CloseFrame
  <2> HIDE DEF w
  <2>8. \A i \in DOMAIN w : w[i] >= 0 /\ w[i] <= p
    BY <1>1, <1>2, <2>2, <2>6, <2>7
  <2> QED
    BY <2>0, <2>1, <2>6, <2>7, <2>8
<1>8. CASE Rest
  BY <1>3, <1>8 DEF Rest
<1>9. ASSUME NEW d \in Clients, d # c, Linked(d) \/ Taken(d) \/ Ended(d) \/ (\E f \in Int : Grown(d, f))
      PROVE  UpstreamOK!(c)'
  <2>1. upstream'[c] = u /\ link'[c] = link[c] /\ arrived'[c] = a
    BY <1>9 DEF Linked, Taken, Ended, Grown
  <2> QED
    BY <1>3, <2>1
<1>10. CASE Ended(c)
  BY <1>4, <1>10 DEF Ended
<1> QED
  BY <1>5, <1>6, <1>7, <1>8, <1>9, <1>10, PipeKinds

\* Frames are only counted up, and connections only added.
LEMMA Monotone ==
  ASSUME Control, [Next]_vars, NEW c \in Clients
  PROVE  arrived[c] \in Nat /\ arrived'[c] \in Nat /\ arrived[c] <= arrived'[c] /\ starts[c] \subseteq starts'[c]
<1>1. arrived[c] \in Nat
  BY DEF Control, TypeOK
<1>2. CASE Rest
  BY <1>1, <1>2 DEF Rest
<1>3. ASSUME NEW d \in Clients, Linked(d) \/ Taken(d) \/ Ended(d)
      PROVE  arrived'[c] = arrived[c] /\ starts[c] \subseteq starts'[c]
  BY <1>3 DEF Linked, Taken, Ended
<1>4. ASSUME NEW d \in Clients, NEW f \in Int, Grown(d, f)
      PROVE  arrived'[c] \in {arrived[c], arrived[c] + 1} /\ starts'[c] = starts[c]
  BY <1>4 DEF Grown
<1> QED
  BY <1>1, <1>2, <1>3, <1>4, PipeKinds

\* What the sockets get stays in order.
LEMMA PipeOKStep ==
  ASSUME Control, UpstreamOK, PipeOK, JointOK, [Next]_vars
  PROVE  PipeOK'
<1> SUFFICES ASSUME NEW s \in Subs, NEW c \in Clients, target'[s] = c PROVE PipeOK!(s, c)!2'
  BY DEF PipeOK
<1> DEFINE q == Pipe(s)
<1>1. /\ q \in Seq(Int) /\ received[s] \in Seq(Int) /\ Len(received[s]) <= Len(q)
      /\ \A i \in DOMAIN received[s] : received[s][i] = q[i]
      /\ \A i \in DOMAIN q : q[i] \in Int
  BY PipeTypes DEF Control
<1>2. /\ arrived[c] \in Nat /\ arrived'[c] \in Nat /\ arrived[c] <= arrived'[c]
      /\ starts[c] \subseteq starts'[c]
  BY Monotone
<1>3. ASSUME target[s] = c
      PROVE  /\ Rising(q) /\ Gapless(q, starts[c])
             /\ owner[c] = s /\ q # <<>> /\ q[1] > 0 => q[1] \in starts[c]
             /\ \A i \in DOMAIN q : q[i] <= arrived[c]
  BY <1>3 DEF PipeOK
<1>4. ASSUME NEW r, Gapless(r, starts[c]) PROVE Gapless(r, starts'[c])
  BY <1>2, <1>4 DEF Gapless
<1> HIDE DEF q
<1>5. ASSUME Same(s), Owned(s) PROVE PipeOK!(s, c)!2'
  <2>1. Pipe(s)' = q /\ target[s] = c /\ (owner'[c] = s <=> owner[c] = s)
    BY <1>5 DEF Same, Owned, q
  <2>2. \A i \in DOMAIN q : q[i] <= arrived'[c]
    BY <1>1, <1>2, <1>3, <2>1
  <2>3. Gapless(q, starts'[c])
    BY <1>3, <1>4, <2>1
  <2> QED
    BY <1>2, <1>3, <2>1, <2>2, <2>3
<1>6. ASSUME Fresh(s) PROVE PipeOK!(s, c)!2'
  BY <1>6 DEF Fresh, Rising, Gapless
<1>7. ASSUME Cut(s), Owned(s) PROVE PipeOK!(s, c)!2'
  <2> DEFINE r == received[s]
  <2>1. Pipe(s)' = r /\ target[s] = c /\ (owner'[c] = s <=> owner[c] = s)
    BY <1>7 DEF Cut, Owned
  <2>2. /\ Rising(q) => Rising(r)
        /\ Gapless(q, starts[c]) => Gapless(r, starts[c])
        /\ r # <<>> => q # <<>> /\ r[1] = q[1]
    BY <1>1, PrefixInOrder
  <2>3. \A i \in DOMAIN r : i \in DOMAIN q
    BY <1>1
  <2>4. \A i \in DOMAIN r : r[i] <= arrived'[c]
    BY <1>1, <1>2, <1>3, <2>1, <2>3
  <2>5. Gapless(r, starts'[c])
    BY <1>3, <1>4, <2>1, <2>2
  <2> HIDE DEF r
  <2> QED
    BY <1>2, <1>3, <2>1, <2>2, <2>4, <2>5
<1>8. ASSUME NEW f \in Int, Fed(s, f), UNCHANGED <<owner, arrived, starts>>, f <= arrived[c],
             f > 0 => \A i \in DOMAIN q : q[i] < f,
             q # <<>> /\ q[Len(q)] > 0 /\ f > 0 => f = q[Len(q)] + 1 \/ f \in starts[c],
             owner[c] = s /\ q = <<>> /\ f > 0 => f \in starts[c]
      PROVE  PipeOK!(s, c)!2'
  <2> DEFINE r == Append(q, f)
  <2>1. Pipe(s)' = r /\ target[s] = c
    BY <1>8 DEF Fed, q
  <2>2. /\ Rising(q) /\ (f > 0 => \A i \in DOMAIN q : q[i] < f) => Rising(r)
        /\ Gapless(q, starts[c]) /\ (q # <<>> /\ q[Len(q)] > 0 /\ f > 0 => f = q[Len(q)] + 1 \/ f \in starts[c])
             => Gapless(r, starts[c])
        /\ q # <<>> => r[1] = q[1]
        /\ q = <<>> => r[1] = f
        /\ \A i \in DOMAIN r : r[i] = f \/ (i \in DOMAIN q /\ r[i] = q[i])
    BY <1>1, <1>8, AppendInOrder
  <2> HIDE DEF r
  <2>3. \A i \in DOMAIN r : r[i] <= arrived[c]
    BY <1>3, <1>8, <2>1, <2>2
  <2>4. Rising(r) /\ Gapless(r, starts[c])
    BY <1>3, <1>8, <2>1, <2>2
  <2>5. owner[c] = s /\ r # <<>> /\ r[1] > 0 => r[1] \in starts[c]
    BY <1>3, <1>8, <2>1, <2>2
  <2> QED
    BY <1>8, <2>1, <2>3, <2>4, <2>5
<1>9. CASE Rest
  BY <1>5, <1>6, <1>7, <1>9 DEF Rest
<1>10. ASSUME owner' = owner PROVE Owned(s)
  BY <1>10 DEF Owned
<1>11. ASSUME NEW d \in Clients, Linked(d) \/ (\E f \in Int : Grown(d, f)) PROVE PipeOK!(s, c)!2'
  <2>1. Same(s) /\ owner' = owner
    BY <1>11 DEF Linked, Grown
  <2> QED
    BY <1>5, <1>10, <2>1
<1>12. ASSUME NEW d \in Clients, Ended(d) PROVE PipeOK!(s, c)!2'
  <2>1. UNCHANGED <<owner, arrived, starts>>
    BY <1>12 DEF Ended
  <2>2. Same(s) \/ Cut(s) \/ \E f \in {Stopped, CloseFrame} : Fed(s, f)
    BY <1>12 DEF Ended, Passed
  <2>3. ASSUME NEW f \in {Stopped, CloseFrame}, Fed(s, f) PROVE PipeOK!(s, c)!2'
    <3>1. f \in Int /\ f <= 0
      BY DEF Stopped, CloseFrame
    <3>2. f <= arrived[c] /\ ~(f > 0)
      BY <1>2, <3>1
    <3> QED
      BY <1>8, <2>1, <2>3, <3>1, <3>2
  <2> QED
    BY <1>5, <1>7, <1>10, <2>1, <2>2, <2>3
<1>13. ASSUME NEW d \in Clients, Taken(d) PROVE PipeOK!(s, c)!2'
  <2>1. UNCHANGED <<owner, arrived, starts>> /\ upstream[d] # <<>>
    BY <1>13 DEF Taken
  <2>2. Same(s) \/ Cut(s) \/ (rx[s] = d /\ Fed(s, Head(upstream[d])))
    BY <1>13 DEF Taken, Passed
  <2>3. ASSUME rx[s] = d, Fed(s, Head(upstream[d])) PROVE PipeOK!(s, c)!2'
    <3> DEFINE u == upstream[d]
               f == Head(u)
    <3>1. d = c /\ s \notin lagged /\ link[d]
      <4>1. target[s] = c /\ s \notin lagged
        BY <2>3 DEF Fed
      <4>2. d # NoClient /\ (rx[s] # NoClient => rx[s] = target[s])
        BY ProxyClientsAssumption DEF Control, RequestOK
      <4>3. link[d]
        BY <2>1 DEF UpstreamOK
      <4> QED
        BY <2>3, <4>1, <4>2, <4>3
    <3>2. u \in Seq(Nat \cup {-1})
      BY DEF Control, TypeOK, Frames, Stopped
    <3>3. u # <<>> /\ f = u[1] /\ 1 \in DOMAIN u /\ f \in Int
      BY <2>1, <3>2
    <3>4. f <= arrived[c] /\ NextFrame(c) = f
      BY <3>1, <3>3 DEF UpstreamOK, NextFrame
    <3>5. /\ f > 0 => \A i \in DOMAIN q : q[i] < f
          /\ f > 0 /\ q # <<>> /\ q[Len(q)] > 0 => f = q[Len(q)] + 1 \/ f \in starts[c]
          /\ f > 0 /\ q = <<>> /\ owner[c] = s => f \in starts[c]
      BY <2>3, <3>1, <3>3, <3>4 DEF JointOK, q
    <3> HIDE DEF f
    <3> QED
      BY <1>8, <2>1, <2>3, <3>3, <3>4, <3>5 DEF f
  <2> QED
    BY <1>5, <1>7, <1>10, <2>1, <2>2, <2>3
<1> QED
  BY <1>9, <1>11, <1>12, <1>13, PipeKinds

\* What the sockets get goes on with what their clients have yet to handle.
LEMMA JointOKStep ==
  ASSUME Control, UpstreamOK, PipeOK, JointOK, [Next]_vars
  PROVE  JointOK'
<1> SUFFICES ASSUME NEW s \in Subs, NEW c \in Clients, rx'[s] = c, s \notin lagged'
             PROVE  JointOK!(s, c)!2'
  BY DEF JointOK
<1> DEFINE q == Pipe(s)
           u == upstream[c]
           a == arrived[c]
<1>1. c # NoClient
  BY ProxyClientsAssumption
<1>2. /\ u \in Seq(Int) /\ (\A i \in DOMAIN u : u[i] \in Int) /\ a \in Nat
      /\ q \in Seq(Int) /\ (\A i \in DOMAIN q : q[i] \in Int)
  <2>1. u \in Seq(Nat \cup {-1}) /\ a \in Nat
    BY DEF Control, TypeOK, Frames, Stopped
  <2>2. q \in Seq(Int)
    BY PipeTypes DEF Control
  <2> QED
    BY <2>1, <2>2
<1>3. /\ ~link[c] => u = <<>>
      /\ Rising(u) /\ Gapless(u, {})
      /\ \A i \in DOMAIN u : u[i] >= 0
      /\ u # <<>> /\ u[Len(u)] # CloseFrame => u[Len(u)] = a
  BY DEF UpstreamOK
<1>4. ASSUME rx[s] = c PROVE \A i \in DOMAIN q : q[i] <= a
  <2>1. target[s] = c
    BY <1>1, <1>4 DEF Control, RequestOK
  <2> QED
    BY <2>1 DEF PipeOK
<1> DEFINE n == NextFrame(c)
<1>5. ASSUME rx[s] = c, s \notin lagged
      PROVE  /\ \A i \in DOMAIN q, k \in DOMAIN u : u[k] > 0 => q[i] < u[k]
             /\ link[c] /\ n > 0 =>
                  /\ q # <<>> /\ q[Len(q)] > 0 => n = q[Len(q)] + 1 \/ n \in starts[c]
                  /\ q = <<>> /\ owner[c] = s => n \in starts[c]
  BY <1>5 DEF JointOK
<1>6. n = IF u = <<>> THEN a + 1 ELSE u[1]
  BY DEF NextFrame
<1>7. NextFrame(c)' = IF upstream'[c] = <<>> THEN arrived'[c] + 1 ELSE upstream'[c][1]
  BY DEF NextFrame
<1>8. ~Cut(s)
  BY <1>1 DEF Cut
<1>9. ASSUME Same(s) PROVE rx[s] = c /\ s \notin lagged /\ Pipe(s)' = q
  BY <1>9 DEF Same
<1>10. ASSUME upstream'[c] = <<>>, ~link'[c] PROVE JointOK!(s, c)!2'
  BY <1>10
<1>11. ASSUME Same(s), Owned(s), upstream'[c] = u, link'[c] = link[c], arrived'[c] = a, starts'[c] = starts[c]
       PROVE  JointOK!(s, c)!2'
  <2>1. rx[s] = c /\ s \notin lagged /\ Pipe(s)' = q /\ (owner'[c] = s <=> owner[c] = s) /\ NextFrame(c)' = n
    BY <1>6, <1>7, <1>9, <1>11 DEF Owned
  <2> HIDE DEF q, u, n
  <2> QED
    BY <1>5, <1>11, <2>1 DEF u
<1>12. CASE Rest
  <2>1. UNCHANGED <<link, upstream, arrived, starts>>
    BY <1>12 DEF Rest
  <2>2. CASE Fresh(s)
    <3>1. Pipe(s)' = <<>> /\ (owner'[c] = s => ~link'[c])
      BY <2>1, <2>2 DEF Fresh
    <3> QED
      BY <3>1
  <2> QED
    BY <1>8, <1>11, <1>12, <2>1, <2>2 DEF Rest
<1>13. ASSUME owner' = owner PROVE Owned(s)
  BY <1>13 DEF Owned
<1>14. ASSUME NEW d \in Clients, d # c, Linked(d) \/ Taken(d) \/ Ended(d) \/ (\E f \in Int : Grown(d, f))
       PROVE  JointOK!(s, c)!2'
  <2>1. /\ upstream'[c] = u /\ link'[c] = link[c] /\ arrived'[c] = a /\ starts'[c] = starts[c]
        /\ owner' = owner
    BY <1>14 DEF Linked, Taken, Ended, Grown
  <2>2. Same(s)
    <3>1. CASE Linked(d) \/ (\E f \in Int : Grown(d, f))
      BY <3>1 DEF Linked, Grown
    <3>2. ASSUME NEW f, Passed(d, f) PROVE Same(s)
      <4>1. CASE rx[s] # d
        BY <3>2, <4>1 DEF Passed
      <4>2. CASE rx[s] = d
        BY <1>8, <1>14, <3>2, <4>2 DEF Passed, Fed
      <4> QED
        BY <4>1, <4>2
    <3>3. CASE Taken(d) \/ Ended(d)
      BY <3>2, <3>3 DEF Taken, Ended
    <3> QED
      BY <1>14, <3>1, <3>3
  <2> QED
    BY <1>11, <1>13, <2>1, <2>2
<1>15. CASE Ended(c)
  BY <1>10, <1>15 DEF Ended
<1>16. CASE Linked(c)
  <2>1. /\ Same(s) /\ upstream'[c] = u /\ u = <<>> /\ arrived'[c] = a /\ a + 1 \in starts'[c]
    BY <1>3, <1>16 DEF Linked
  <2>2. NextFrame(c)' = a + 1
    BY <1>7, <2>1
  <2> HIDE DEF u, a
  <2> QED
    BY <2>1, <2>2
<1>17. ASSUME NEW f \in Int, Grown(c, f) PROVE JointOK!(s, c)!2'
  <2> DEFINE w == Append(u, f)
  <2>1. /\ rx[s] = c /\ s \notin lagged /\ Pipe(s)' = q
        /\ upstream'[c] = w /\ link'[c] = link[c] /\ owner' = owner /\ starts' = starts
        /\ f > 0 => f = a + 1
    <3>1. Same(s)
      BY <1>17 DEF Grown
    <3>2. f = CloseFrame \/ f = a + 1
      BY <1>17 DEF Grown
    <3>3. f > 0 => f = a + 1
      BY <3>2 DEF CloseFrame
    <3>4. upstream'[c] = w /\ link'[c] = link[c] /\ owner' = owner /\ starts' = starts
      BY <1>17 DEF Grown
    <3> QED
      BY <1>9, <3>1, <3>3, <3>4
  <2>2. /\ w # <<>>
        /\ u # <<>> => w[1] = u[1]
        /\ u = <<>> => w[1] = f
        /\ \A k \in DOMAIN w : w[k] = f \/ (k \in DOMAIN u /\ w[k] = u[k])
    BY <1>2, <1>17, AppendElements
  <2>3. NextFrame(c)' = w[1]
    BY <1>7, <2>1, <2>2
  <2>4. f > 0 => \A i \in DOMAIN q : q[i] < f
    BY <1>2, <1>4, <2>1
  <2> HIDE DEF q, u, w, n, a
  <2>5. \A i \in DOMAIN q, k \in DOMAIN w : w[k] > 0 => q[i] < w[k]
    BY <1>5, <2>1, <2>2, <2>4
  <2>6. w[1] > 0 => w[1] = n
    BY <1>6, <2>1, <2>2
  <2> QED
    BY <1>5, <2>1, <2>3, <2>5, <2>6
<1>18. CASE Taken(c)
  <2> DEFINE f == Head(u)
             r == Append(q, f)
             w == Tail(u)
  <2>1. /\ u # <<>> /\ upstream'[c] = w
        /\ UNCHANGED <<owner, link, arrived, starts>>
    BY <1>18 DEF Taken
  <2>2. /\ \A i \in DOMAIN w : i + 1 \in DOMAIN u /\ w[i] = u[i + 1] /\ i + 1 > 1
        /\ w # <<>> => w[1] = u[2] /\ 2 \in DOMAIN u
        /\ w = <<>> => Len(u) = 1
        /\ f = u[1] /\ 1 \in DOMAIN u
    BY <1>2, <2>1, TailInOrder
  <2>3. f \in Int /\ f >= 0
    BY <1>2, <1>3, <2>2
  <2>4. rx[s] = c /\ Fed(s, f)
    <3>1. CASE rx[s] = c
      BY <1>8, <1>18, <3>1 DEF Taken, Passed
    <3>2. CASE rx[s] # c
      BY <1>9, <1>18, <3>2 DEF Taken, Passed
    <3> QED
      BY <3>1, <3>2
  <2>5. Pipe(s)' = r /\ s \notin lagged
    BY <2>4 DEF Fed
  <2>6. /\ r # <<>> /\ r[Len(r)] = f
        /\ \A i \in DOMAIN r : r[i] = f \/ (i \in DOMAIN q /\ r[i] = q[i])
    BY <1>2, <2>3, AppendElements
  <2>7. NextFrame(c)' = IF w = <<>> THEN a + 1 ELSE w[1]
    BY <1>7, <2>1
  <2> HIDE DEF q, u, f, r, w, n, a
  <2>8. ASSUME NEW i \in DOMAIN r, NEW k \in DOMAIN w, w[k] > 0 PROVE r[i] < w[k]
    <3>1. k + 1 \in DOMAIN u /\ 1 \in DOMAIN u /\ 1 < k + 1 /\ w[k] = u[k + 1] /\ u[1] = f
      BY <2>2, <2>8
    <3>2. f < w[k]
      BY <1>3, <2>3, <2>8, <3>1 DEF Rising
    <3>3. CASE r[i] = f
      BY <3>2, <3>3
    <3>4. CASE i \in DOMAIN q /\ r[i] = q[i]
      BY <1>5, <2>4, <2>5, <2>8, <3>1, <3>4
    <3> QED
      BY <2>6, <3>3, <3>4
  <2>9. ASSUME f > 0, NextFrame(c)' > 0 PROVE NextFrame(c)' = f + 1
    <3>1. CASE w = <<>>
      <4>1. Len(u) = 1 /\ u[Len(u)] = f /\ NextFrame(c)' = a + 1
        BY <2>2, <2>7, <3>1
      <4>2. f # CloseFrame
        BY <2>3, <2>9 DEF CloseFrame
      <4> QED
        BY <1>3, <2>1, <4>1, <4>2
    <3>2. CASE w # <<>>
      <4>1. 1 \in DOMAIN u /\ 1 + 1 \in DOMAIN u /\ u[1] > 0 /\ u[1 + 1] > 0 /\ NextFrame(c)' = u[1 + 1]
        BY <2>2, <2>7, <2>9, <3>2
      <4> QED
        BY <1>3, <2>2, <4>1 DEF Gapless
    <3> QED
      BY <3>1, <3>2
  <2> QED
    BY <2>1, <2>5, <2>6, <2>8, <2>9
<1> QED
  BY <1>12, <1>14, <1>15, <1>16, <1>17, <1>18, PipeKinds

-----------------------------------------------------------------------------
(* The theorems.                                                            *)

\* The invariant holds at the start.
LEMMA InitInvariant == Init => IInv
<1> SUFFICES ASSUME Init PROVE IInv
  OBVIOUS
<1> USE ProxyClientsAssumption
<1>1. <<>> \in Seq(Subs) /\ <<>> \in Seq(Frames) /\ <<>> \in Seq(Nat \ {CloseFrame})
  OBVIOUS
<1>2. TypeOK
  BY <1>1 DEF Init, TypeOK, SubPC
<1>3. RequestOK /\ OwnerOK /\ MailOK /\ PrivateOK /\ CreatorServed /\ OrphansOnlyFromRace
  BY DEF Init, RequestOK, OwnerOK, MailOK, PrivateOK, CreatorServed, OrphansOnlyFromRace, connected
<1>4. UpstreamOK
  BY DEF Init, UpstreamOK, Rising, Gapless
<1>5. \A s \in Subs : Pipe(s) = <<>>
  BY DEF Init, Pipe
<1>6. PipeOK /\ JointOK
  BY <1>5 DEF Init, PipeOK, JointOK, Rising, Gapless
<1>7. LookedOK
  BY DEF Init, LookedOK, connected
<1> QED
  BY <1>2, <1>3, <1>4, <1>6, <1>7 DEF IInv

\* Every step keeps the invariant.
LEMMA NextInvariant == IInv /\ [Next]_vars => IInv'
<1> SUFFICES ASSUME IInv, [Next]_vars PROVE IInv'
  OBVIOUS
<1>1. Control /\ CreatorServed /\ OrphansOnlyFromRace /\ UpstreamOK /\ PipeOK /\ JointOK /\ LookedOK /\ TypeOK
  BY DEF IInv, Control
<1>2. TypeOK'
  BY <1>1, TypeStep
<1>3. RequestOK' /\ OwnerOK' /\ MailOK' /\ PrivateOK'
  BY <1>1, RequestOKStep, OwnerOKStep, MailOKStep, PrivateOKStep
<1>4. CreatorServed' /\ LookedOK' /\ OrphansOnlyFromRace'
  BY <1>1, CreatorServedStep, LookedOKStep, OrphansOnlyFromRaceStep
<1>5. UpstreamOK' /\ PipeOK' /\ JointOK'
  BY <1>1, UpstreamOKStep, PipeOKStep, JointOKStep
<1> QED
  BY <1>2, <1>3, <1>4, <1>5 DEF IInv

\* The inductive invariant holds in every state the clients and the sockets
\* reach.
THEOREM Invariant == Spec => []IInv
BY InitInvariant, NextInvariant, PTL DEF Spec

\* The state keeps its types: what is written to a socket is messages, never
\* Close or Stopped.
THEOREM TypeCorrect == Spec => []TypeOK
<1>1. IInv => TypeOK
  BY DEF IInv
<1> QED
  BY <1>1, Invariant, PTL

\* The pipe of a socket bounds what is written to it.
LEMMA PipeDelivers ==
  ASSUME TypeOK, PipeOK
  PROVE  DeliveredInOrder
<1> SUFFICES ASSUME NEW s \in Subs, NEW c \in Clients, target[s] = c PROVE DeliveredInOrder!(s, c)!2
  BY DEF DeliveredInOrder
<1> DEFINE r == received[s]
           q == Pipe(s)
<1>1. /\ r \in Seq(Int) /\ q \in Seq(Int) /\ Len(r) <= Len(q)
      /\ \A i \in DOMAIN r : r[i] = q[i] /\ r[i] > 0
  BY PipeTypes
<1>2. /\ Rising(q) /\ Gapless(q, starts[c])
      /\ owner[c] = s /\ q # <<>> /\ q[1] > 0 => q[1] \in starts[c]
  BY DEF PipeOK
<1> HIDE DEF q, r
<1>3. /\ Rising(q) => Rising(r)
      /\ Gapless(q, starts[c]) => Gapless(r, starts[c])
      /\ r # <<>> => q # <<>> /\ r[1] = q[1]
  BY <1>1, PrefixInOrder
<1>4. ASSUME NEW k \in 2..Len(r)
      PROVE  r[k] = r[k - 1] + 1 \/ (r[k] > r[k - 1] /\ r[k] \in starts[c])
  <2> DEFINE j == k - 1
  <2>1. j \in DOMAIN r /\ k \in DOMAIN r /\ j + 1 = k /\ j < k
    BY <1>1
  <2> HIDE DEF j
  <2>2. r[j] > 0 /\ r[k] > 0 /\ r[j] \in Int /\ r[k] \in Int
    BY <1>1, <2>1
  <2>3. r[j] < r[k]
    BY <1>2, <1>3, <2>1, <2>2 DEF Rising
  <2>4. r[k] = r[j] + 1 \/ r[k] \in starts[c]
    BY <1>2, <1>3, <2>1, <2>2 DEF Gapless
  <2> QED
    BY <2>2, <2>3, <2>4 DEF j
<1>5. owner[c] = s /\ r # <<>> => r[1] \in starts[c]
  <2>1. r # <<>> => 1 \in DOMAIN r
    BY <1>1
  <2> QED
    BY <1>1, <1>2, <1>3, <2>1
<1> QED
  BY <1>4, <1>5 DEF r

\* A socket is written the frames that arrive at its client in order, without
\* a gap but at the first frame of a connection that the client opened anew,
\* and, when it created the client, from the first frame of a connection on:
\* whatever the capacity of the channels and whenever connections end, an
\* overrun Receiver (RecvError::Lagged) ends the socket and never skips.
THEOREM OrderedDelivery == Spec => []DeliveredInOrder
<1>1. IInv => DeliveredInOrder
  BY PipeDelivers DEF IInv
<1> QED
  BY <1>1, Invariant, PTL

\* The request that creates a client gets a Receiver of it: no timer, error or
\* connection failure stops a client that has not handled its first Subscribe.
THEOREM CreatorIsServed == Spec => []CreatorServed
<1>1. IInv => CreatorServed
  BY DEF IInv
<1> QED
  BY <1>1, Invariant, PTL

\* A running shared client is outside the map only when a request that had
\* looked before the client was created put its own into its place: get_addr
\* never displaces a client that it could see, and clear drops none that runs.
THEOREM Orphans == Spec => []OrphansOnlyFromRace
<1>1. IInv => OrphansOnlyFromRace
  BY DEF IInv
<1> QED
  BY <1>1, Invariant, PTL
=============================================================================
