---------------------------- MODULE ProxyClients ----------------------------
(***************************************************************************)
(* Websocket subscriptions through the proxy: the map of upstream clients  *)
(* that subscriptions share, the client actors with their broadcast        *)
(* channel (websocket_proxy_client.rs), and the downstream sockets fed     *)
(* from it (websocket_proxy.rs).                                           *)
(*                                                                         *)
(* The HTTP handlers run on several worker threads, a client actor on the  *)
(* thread of the handler that created it, a socket on that of its own      *)
(* handler.  They share the map behind an RwLock, the mailboxes and the    *)
(* channels.  The map is modelled for one (queue, id) key: keys do not     *)
(* interact.                                                               *)
(***************************************************************************)
EXTENDS Integers, Sequences, FiniteSets, Functions

CONSTANTS Subs,        \* websocket requests to the proxy
          Clients,     \* client actors, in the order they are created
          NoClient,
          Capacity,    \* of a client's broadcast channel (8 in the code)
          MaxFrames,   \* bound: frames that arrive, over all clients
          MaxReloads   \* bound: upstream streams that end

ASSUME ProxyClientsAssumption ==
  /\ NoClient \notin Clients \cup Subs
  /\ Capacity \in Nat \ {0} /\ MaxFrames \in Nat /\ MaxReloads \in Nat

\* What a channel carries: the frames of the upstream, numbered for each
\* client in the order in which they arrive, its Close frame, and
\* WebSocketActorResponse::Stopped.  What a shard sends, and in which order,
\* is the business of Queue; the shards of a queue-wide subscription are
\* merged in the order in which ConnectionsAggregator polls them.
CloseFrame == 0
Stopped == -1
Frames == Nat \cup {Stopped}

VARIABLES
  addr,      \* the map: the client under the key
  owner,     \* Clients: the request that created it, with its sequence
  state,     \* Clients: new, fresh (not polled yet), running or stopped
  mailbox,   \* Clients: the Subscribe messages not handled yet
  link,      \* Clients: the upstream connection is open
  upstream,  \* Clients: frames received and not handled yet
  private,   \* the requests with a `sequence` parameter
  pc,        \* Subs: where the request or its socket stands
  target,    \* Subs: the Addr that get_addr returned
  rx,        \* Subs: the client whose channel it has a Receiver of
  inbox,     \* Subs: what that Receiver has to read
  lagged,    \* Subs whose Receiver was overrun
  arrived,   \* Clients: frames that arrived so far
  reloads

\* History variables: no action reads them.
VARIABLES
  received,  \* Subs: the frames written to the socket, in order
  starts,    \* Clients: the number of the first frame of each connection
  unseen,    \* Subs: the clients not created yet when get_addr looked
  displaced, \* <<client, request>>: the request put it out of the map
  refused    \* Subs that were given no Receiver

mapVars == <<addr, owner, state, mailbox>>
upVars == <<link, upstream, arrived, reloads>>
subVars == <<private, pc, target, rx, inbox, lagged>>
pastVars == <<received, starts, unseen, displaced, refused>>
vars == <<mapVars, upVars, subVars, pastVars>>

SubPC == {"idle", "insert", "send", "await", "start", "open", "closed"}

\* The types of the state.
TypeOK ==
  /\ addr \in Clients \cup {NoClient}
  /\ owner \in [Clients -> Subs \cup {NoClient}]
  /\ state \in [Clients -> {"new", "fresh", "running", "stopped"}]
  /\ mailbox \in [Clients -> Seq(Subs)]
  /\ link \in [Clients -> BOOLEAN]
  /\ upstream \in [Clients -> Seq(Frames)]
  /\ private \subseteq Subs
  /\ pc \in [Subs -> SubPC]
  /\ target \in [Subs -> Clients \cup {NoClient}]
  /\ rx \in [Subs -> Clients \cup {NoClient}]
  /\ inbox \in [Subs -> Seq(Frames)]
  /\ lagged \subseteq Subs
  /\ arrived \in [Clients -> Nat] /\ reloads \in 0..MaxReloads
  /\ received \in [Subs -> Seq(Nat \ {CloseFrame})]
  /\ starts \in [Clients -> SUBSET (Nat \ {CloseFrame})]
  /\ unseen \in [Subs -> SUBSET Clients]
  /\ displaced \subseteq Clients \X Subs
  /\ refused \subseteq Subs

Init ==
  /\ addr = NoClient
  /\ owner = [c \in Clients |-> NoClient]
  /\ state = [c \in Clients |-> "new"]
  /\ mailbox = [c \in Clients |-> <<>>]
  /\ link = [c \in Clients |-> FALSE]
  /\ upstream = [c \in Clients |-> <<>>]
  /\ private = {}
  /\ pc = [s \in Subs |-> "idle"]
  /\ target = [s \in Subs |-> NoClient]
  /\ rx = [s \in Subs |-> NoClient]
  /\ inbox = [s \in Subs |-> <<>>]
  /\ lagged = {} /\ arrived = [c \in Clients |-> 0] /\ reloads = 0
  /\ received = [s \in Subs |-> <<>>]
  /\ starts = [c \in Clients |-> {}]
  /\ unseen = [s \in Subs |-> {}]
  /\ displaced = {} /\ refused = {}

-----------------------------------------------------------------------------
(* The channel of a client.                                                 *)

Receivers(c) == {s \in Subs : rx[s] = c}

\* Addr::connected: the mailbox exists until the actor is gone.
connected(c) == c # NoClient /\ state[c] \in {"fresh", "running"}

\* Mutant of Send: the oldest message is overwritten and nobody is told.
SendOverwrites(c, f) ==
  /\ UNCHANGED lagged
  /\ inbox' = [s \in Subs |->
                 IF s \notin Receivers(c) THEN inbox[s]
                 ELSE IF Len(inbox[s]) = Capacity THEN Append(Tail(inbox[s]), f)
                 ELSE Append(inbox[s], f)]

\* sender.send: a Receiver with Capacity messages to read is overrun.
Send(c, f) ==
  LET full == {s \in Receivers(c) : Len(inbox[s]) = Capacity}
  IN  /\ lagged' = lagged \cup full
      /\ inbox' = [s \in Subs |->
                     IF s \notin Receivers(c) THEN inbox[s]
                     ELSE IF s \in full THEN <<>> ELSE Append(inbox[s], f)]

\* Mutant of Stop: the messages in the mailbox are neither handled nor failed.
StopKeepsMailbox(c) ==
  /\ state' = [state EXCEPT ![c] = "stopped"]
  /\ mailbox' = [mailbox EXCEPT ![c] = <<>>]
  /\ link' = [link EXCEPT ![c] = FALSE]
  /\ upstream' = [upstream EXCEPT ![c] = <<>>]
  /\ Send(c, Stopped)
  /\ UNCHANGED <<addr, owner, arrived, reloads, private, pc, target, rx,
                 pastVars>>

\* ctx.stop(): stopping tells the receivers, the actor is dropped, and every
\* Subscribe still in its mailbox fails (receiver.ok() is None).
Stop(c) ==
  LET unanswered == {s \in Subs : pc[s] = "await" /\ target[s] = c}
  IN  /\ state' = [state EXCEPT ![c] = "stopped"]
      /\ mailbox' = [mailbox EXCEPT ![c] = <<>>]
      /\ link' = [link EXCEPT ![c] = FALSE]
      /\ upstream' = [upstream EXCEPT ![c] = <<>>]
      /\ Send(c, Stopped)
      /\ pc' = [s \in Subs |-> IF s \in unanswered THEN "start" ELSE pc[s]]
      /\ refused' = refused \cup unanswered
      /\ UNCHANGED <<addr, owner, arrived, reloads, private, target, rx,
                     received, starts, unseen, displaced>>

-----------------------------------------------------------------------------
(* WebSocketProxyClientsStorage                                             *)

\* Mutant of GetAddr: it creates a client without looking into the map.
GetAddrBlind(s, sequence) ==
  /\ pc[s] = "idle"
  /\ private' = IF sequence THEN private \cup {s} ELSE private
  /\ unseen' = [unseen EXCEPT ![s] = {c \in Clients : state[c] = "new"}]
  /\ pc' = [pc EXCEPT ![s] = "insert"]
  /\ UNCHANGED <<mapVars, upVars, target, rx, inbox, lagged, received, starts,
                 displaced, refused>>

\* get_addr under the read lock.  A request with a sequence shares nothing.
GetAddr(s, sequence) ==
  /\ pc[s] = "idle"
  /\ private' = IF sequence THEN private \cup {s} ELSE private
  /\ unseen' = [unseen EXCEPT ![s] = {c \in Clients : state[c] = "new"}]
  /\ IF ~sequence /\ connected(addr)
     THEN /\ pc' = [pc EXCEPT ![s] = "send"]
          /\ target' = [target EXCEPT ![s] = addr]
     ELSE /\ pc' = [pc EXCEPT ![s] = "insert"]
          /\ UNCHANGED target
  /\ UNCHANGED <<mapVars, upVars, rx, inbox, lagged, received, starts, displaced,
                 refused>>

\* The next client is created and, when shared, put into the map, whatever
\* the map holds by now; its creator's Subscribe is in its mailbox before
\* the actor, which lives on this thread, is polled for the first time.
Insert(s) ==
  /\ pc[s] = "insert"
  /\ \E c \in Clients :
       /\ state[c] = "new"
       /\ \A d \in Clients : d < c => state[d] # "new"
       /\ state' = [state EXCEPT ![c] = "fresh"]
       /\ mailbox' = [mailbox EXCEPT ![c] = <<s>>]
       /\ target' = [target EXCEPT ![s] = c]
       /\ owner' = [owner EXCEPT ![c] = s]
       /\ addr' = IF s \in private THEN addr ELSE c
       /\ displaced' = IF s \notin private /\ connected(addr)
                       THEN displaced \cup {<<addr, s>>} ELSE displaced
  /\ pc' = [pc EXCEPT ![s] = "await"]
  /\ UNCHANGED <<upVars, private, rx, inbox, lagged, received, starts, unseen,
                 refused>>

\* addr.send(Subscribe) to a client that was found: it may be gone by now.
SendSubscribe(s) ==
  LET c == target[s]
  IN  /\ pc[s] = "send"
      /\ IF connected(c)
         THEN /\ mailbox' = [mailbox EXCEPT ![c] = Append(@, s)]
              /\ pc' = [pc EXCEPT ![s] = "await"]
              /\ UNCHANGED refused
         ELSE /\ pc' = [pc EXCEPT ![s] = "start"]
              /\ refused' = refused \cup {s}
              /\ UNCHANGED mailbox
      /\ UNCHANGED <<addr, owner, state, upVars, private, target, rx, inbox,
                     lagged, received, starts, unseen, displaced>>

\* clear, from the timer in main: clients that are gone leave the map.
clear ==
  /\ addr # NoClient /\ ~connected(addr)
  /\ addr' = NoClient
  /\ UNCHANGED <<owner, state, mailbox, upVars, subVars, pastVars>>

-----------------------------------------------------------------------------
(* WebSocketProxyClient                                                     *)

\* handle(Subscribe).  The first poll of the actor gets here before it gets
\* to any timer or stream.  A requester that went away drops the Receiver.
HandleSubscribe(c) ==
  LET s == Head(mailbox[c])
  IN  /\ connected(c)
      /\ mailbox[c] # <<>>
      /\ state' = [state EXCEPT ![c] = "running"]
      /\ mailbox' = [mailbox EXCEPT ![c] = Tail(@)]
      /\ IF pc[s] = "await"
         THEN /\ rx' = [rx EXCEPT ![s] = c]
              /\ pc' = [pc EXCEPT ![s] = "start"]
         ELSE UNCHANGED <<rx, pc>>
      /\ UNCHANGED <<addr, owner, upVars, private, target, inbox, lagged,
                     pastVars>>

\* Mutants of CloseEmptyConnection: it runs in the first poll before the
\* mailbox, since interval.tick() completes at once the first time; only a
\* client that is in the map is collected.
CloseEmptyFirst(c) == connected(c) /\ Receivers(c) = {} /\ Stop(c)
CloseEmptyMapped(c) ==
  state[c] = "running" /\ addr = c /\ Receivers(c) = {} /\ Stop(c)

\* The timer of the client finds no Receiver.
CloseEmptyConnection(c) ==
  /\ state[c] = "running"
  /\ Receivers(c) = {}
  /\ Stop(c)

\* add_stream, add_stream_all: the client connects to the shard of its id, or
\* to all of them.  An error is an item of the stream and stops the client.
Connect(c) ==
  /\ state[c] = "running" /\ ~link[c]
  /\ \/ /\ link' = [link EXCEPT ![c] = TRUE]
        /\ starts' = [starts EXCEPT ![c] = @ \cup {arrived[c] + 1}]
        /\ UNCHANGED <<mapVars, upstream, arrived, reloads, subVars, received,
                       unseen, displaced, refused>>
     \/ Stop(c)

\* finished: what was not handled is lost, and the stream starts anew at
\* once, since attempts is never counted up.
Restart(c) ==
  /\ link' = [link EXCEPT ![c] = FALSE]
  /\ upstream' = [upstream EXCEPT ![c] = <<>>]

\* handle(Ok(frame)): passed on, or, with nobody to receive it, the end.
\* After its Close frame the stream of a shard finishes, and all of them with
\* it; frames of other shards may still come between the two.
HandleFrame(c) ==
  /\ link[c] /\ upstream[c] # <<>>
  /\ IF Receivers(c) = {}
     THEN Stop(c)
     ELSE /\ Send(c, Head(upstream[c]))
          /\ \/ Head(upstream[c]) = CloseFrame /\ Restart(c)
             \/ /\ upstream' = [upstream EXCEPT ![c] = Tail(@)]
                /\ UNCHANGED link
          /\ UNCHANGED <<mapVars, arrived, reloads, private, pc, target, rx,
                         pastVars>>

\* handle(Err).
HandleError(c) == link[c] /\ Stop(c)

\* The connection, or one of them, ends, or the discovery tells the stream to
\* reload.
Finished(c) ==
  /\ link[c] /\ reloads < MaxReloads
  /\ reloads' = reloads + 1
  /\ Restart(c)
  /\ UNCHANGED <<mapVars, arrived, subVars, pastVars>>

\* A frame with a message arrives: the history of a connection with a
\* sequence, which its shard sends first, and the live messages alike.
Arrive(c) ==
  /\ link[c] /\ FoldFunction(+, 0, arrived) < MaxFrames
  /\ arrived' = [arrived EXCEPT ![c] = @ + 1]
  /\ upstream' = [upstream EXCEPT ![c] = Append(@, arrived[c] + 1)]
  /\ UNCHANGED <<mapVars, link, reloads, subVars, pastVars>>

\* A shard sends a Close frame, as it does after a message that it cannot
\* serialize.
ShardCloses(c) ==
  /\ link[c] /\ reloads < MaxReloads
  /\ reloads' = reloads + 1
  /\ upstream' = [upstream EXCEPT ![c] = Append(@, CloseFrame)]
  /\ UNCHANGED <<mapVars, link, arrived, subVars, pastVars>>

-----------------------------------------------------------------------------
(* WebSocketProxyActor                                                      *)

\* The socket stops: its stream and its Receiver are dropped.
Close(s) ==
  /\ pc' = [pc EXCEPT ![s] = "closed"]
  /\ rx' = [rx EXCEPT ![s] = NoClient]
  /\ inbox' = [inbox EXCEPT ![s] = <<>>]
  /\ lagged' = lagged \ {s}
  /\ UNCHANGED <<mapVars, upVars, private, target>>

\* started: without a Receiver the socket is closed at once.
Started(s) ==
  /\ pc[s] = "start"
  /\ IF rx[s] = NoClient
     THEN Close(s)
     ELSE /\ pc' = [pc EXCEPT ![s] = "open"]
          /\ UNCHANGED <<mapVars, upVars, private, target, rx, inbox, lagged>>
  /\ UNCHANGED pastVars

\* Mutant of HandleResponse: Stopped is passed on like a message.
HandleResponseAll(s) ==
  /\ pc[s] = "open" /\ s \notin lagged /\ inbox[s] # <<>>
  /\ received' = [received EXCEPT ![s] = Append(@, Head(inbox[s]))]
  /\ inbox' = [inbox EXCEPT ![s] = Tail(@)]
  /\ UNCHANGED <<mapVars, upVars, private, pc, target, rx, lagged>>
  /\ UNCHANGED <<starts, unseen, displaced, refused>>

\* handle(WebSocketActorResponse): a message is written; Close and Stopped
\* close the socket.
HandleResponse(s) ==
  /\ pc[s] = "open" /\ s \notin lagged /\ inbox[s] # <<>>
  /\ IF Head(inbox[s]) \in {CloseFrame, Stopped}
     THEN Close(s) /\ UNCHANGED received
     ELSE /\ received' = [received EXCEPT ![s] = Append(@, Head(inbox[s]))]
          /\ inbox' = [inbox EXCEPT ![s] = Tail(@)]
          /\ UNCHANGED <<mapVars, upVars, private, pc, target, rx, lagged>>
  /\ UNCHANGED <<starts, unseen, displaced, refused>>

\* Mutant of StreamEnds: Lagged is skipped, as a retry of recv would.
StreamSkips(s) ==
  /\ pc[s] = "open"
  /\ \/ s \in lagged /\ lagged' = lagged \ {s}
        /\ UNCHANGED <<mapVars, upVars, private, pc, target, rx, inbox>>
     \/ s \notin lagged /\ inbox[s] = <<>> /\ ~connected(rx[s]) /\ Close(s)
  /\ UNCHANGED pastVars

\* recv fails, Lagged or Closed: the stream ends, and the socket with it.
StreamEnds(s) ==
  /\ pc[s] = "open"
  /\ s \in lagged \/ (inbox[s] = <<>> /\ ~connected(rx[s]))
  /\ Close(s)
  /\ UNCHANGED pastVars

\* The browser closes, breaks the protocol or goes away.
BrowserGone(s) ==
  /\ pc[s] \in {"insert", "await", "start", "open"}
  /\ Close(s)
  /\ UNCHANGED pastVars

-----------------------------------------------------------------------------
Handler(s) == Insert(s) \/ SendSubscribe(s) \/ Started(s)
                \/ HandleResponse(s) \/ StreamEnds(s)

Client(c) == HandleSubscribe(c) \/ Connect(c) \/ HandleFrame(c)

Next ==
  \/ \E s \in Subs, sequence \in BOOLEAN : GetAddr(s, sequence)
  \/ \E s \in Subs : Handler(s) \/ BrowserGone(s)
  \/ \E c \in Clients : \/ Client(c) \/ CloseEmptyConnection(c)
                        \/ HandleError(c) \/ Finished(c) \/ Arrive(c)
                        \/ ShardCloses(c)
  \/ clear

\* Tasks that can run are run, and the timer of a client fires again and
\* again.
Fairness ==
  /\ \A s \in Subs : WF_vars(Handler(s))
  /\ \A c \in Clients : WF_vars(Client(c)) /\ WF_vars(CloseEmptyConnection(c))

Spec == Init /\ [][Next]_vars
FairSpec == Spec /\ Fairness
-----------------------------------------------------------------------------
(* Properties.                                                              *)

\* A socket is written the frames that arrive at its client in order and
\* without a gap, except where the client connected anew: then it goes on with
\* the first frame of a connection.  The socket whose request created the
\* client also begins with such a frame, so that of the history it asked for
\* nothing is missing at the front.  A Receiver that is overrun ends the
\* socket and never skips.
DeliveredInOrder ==
  \A s \in Subs, c \in Clients : target[s] = c =>
    LET q == received[s]
    IN  /\ \A k \in 2..Len(q) :
             \/ q[k] = q[k - 1] + 1
             \/ q[k] > q[k - 1] /\ q[k] \in starts[c]
        /\ owner[c] = s /\ q # <<>> => q[1] \in starts[c]

\* The request that creates a client always gets a Receiver of it: the timer
\* for empty clients, whose first tick is immediate, cannot come first.
CreatorServed == \A c \in Clients : owner[c] \notin refused

\* A shared client that runs outside the map was put out of it by a request
\* that had looked into the map before the client was created: get_addr never
\* creates a second client beside one it could see, and clear drops none that
\* runs.
OrphansOnlyFromRace ==
  \A c \in Clients :
    connected(c) /\ owner[c] \notin private /\ addr # c =>
      \E s \in Subs : <<c, s>> \in displaced /\ c \in unseen[s]

\* A request for a subscription does not hang on a client that stops.
SubscribeReturns == \A s \in Subs : pc[s] = "await" ~> pc[s] # "await"

\* A socket whose client is gone, or that was overrun or given no Receiver,
\* is closed, so that the browser can reconnect.
DeadSocketCloses ==
  \A s \in Subs :
    (pc[s] \in {"start", "open"} /\ (s \in lagged \/ ~connected(rx[s])))
      ~> pc[s] = "closed"

\* When the last socket is gone every client stops, in the map or not.
NothingLeaks ==
  (\A s \in Subs : pc[s] = "closed")
    ~> (\A c \in Clients : state[c] \in {"new", "stopped"})
=============================================================================
