--------------------------- MODULE Discovery_proofs ---------------------------
(***************************************************************************)
(* Machine-checked proofs about Discovery, for every set of shards, every  *)
(* number of registry threads and upstream clients, every Maglev table and *)
(* every bound.                                                            *)
(***************************************************************************)
EXTENDS Discovery, TLAPS

USE DEF feedVars, actorVars, registryVars, clientVars, pastVars

-----------------------------------------------------------------------------
(* The inductive invariant, in parts.                                       *)

\* The broadcaster that was taken has its state stored in the turn of its
\* update.
TurnOK == fired = IF turn = "store" THEN epoch - 1 ELSE epoch

\* Ends of the stream since the last update, counted by attempts.
CountOK ==
  failures = CASE phase = "over"     -> MaxReconnects + 1
               [] phase = "finished" -> attempts + 1
               [] OTHER              -> attempts

\* The stream of posted lists does not end.
ApiOK == kind = "api" => phase = "watching"

\* A client that no update has raced with has read the registry that stands.
AddressOK ==
  \A c \in Clients \ raced :
    pc[c] \in {"connect", "join"} \/ (Streaming(c) /\ sub[c] = epoch) =>
      ~Outstanding /\ nodes[c] = Target(c, registry)

\* A client pushes its waker before it reads the state.
WakerOK == \A c \in Clients : pc[c] \in {"load", "parked"} => c \in waiting

IInv ==
  /\ TypeOK /\ TurnOK /\ CountOK /\ ApiOK /\ AddressOK /\ WakerOK /\ NoWakeUpLost
  /\ FollowsEtcdOutsideWindow

-----------------------------------------------------------------------------
\* The invariant holds when the proxy starts.
LEMMA InitInv == Init => IInv
<1> SUFFICES ASSUME Init PROVE IInv
  OBVIOUS
<1>1. TypeOK
  BY DiscoveryAssumption DEF Init, TypeOK, Lists
<1>2. TurnOK /\ CountOK /\ ApiOK /\ AddressOK /\ WakerOK /\ NoWakeUpLost /\ FollowsEtcdOutsideWindow
  BY DiscoveryAssumption DEF Init, TurnOK, CountOK, ApiOK, AddressOK, WakerOK, NoWakeUpLost,
     FollowsEtcdOutsideWindow, Streaming
<1> QED
  BY <1>1, <1>2 DEF IInv

-----------------------------------------------------------------------------
(* Types.                                                                   *)

\* An update keeps the types of what it writes.
LEMMA UpdateTypes ==
  ASSUME TypeOK, TurnOK, NEW S \in Lists, HandleUpdate(S)
  PROVE  /\ turn' \in {"free", "store", "wake"} /\ attempts' \in 0..MaxReconnects /\ failures' \in Nat
         /\ epoch' \in Nat /\ fired' \in {epoch', epoch' - 1}
         /\ mailbox' \in Seq(Messages) /\ hand' \in [Registries -> Messages \cup {NoMsg}]
         /\ registry' \in Lists /\ raced' \subseteq Clients
         /\ sub' \in [Clients -> 0..epoch']
         /\ UNCHANGED <<pc, nodes, waiting, woken, faults>>
<1>1. Update(S) \in Messages
  BY DEF Update, Messages
<1>2. mailbox' \in Seq(Messages)
  BY <1>1 DEF TypeOK, HandleUpdate
<1>3. sub' \in [Clients -> 0..epoch']
  BY DEF TypeOK, HandleUpdate
<1>4. epoch' \in Nat /\ fired' \in {epoch', epoch' - 1}
  BY DEF TypeOK, TurnOK, HandleUpdate
<1> QED
  BY <1>2, <1>3, <1>4, DiscoveryAssumption DEF TypeOK, HandleUpdate

\* Leaving a stream keeps the types.
LEMMA LeaveTypes ==
  ASSUME TypeOK, NEW c \in Clients, NEW at \in {"idle", "ask"}, Leave(c, at)
  PROVE  TypeOK'
BY DEF TypeOK, Leave, Lists

\* Every step keeps the types.
LEMMA TypeStep == TypeOK /\ TurnOK /\ [Next]_vars => TypeOK'
<1> USE DiscoveryAssumption
<1> SUFFICES ASSUME TypeOK, TurnOK, [Next]_vars PROVE TypeOK'
  OBVIOUS
<1>1. ASSUME NEW s \in Shards, NEW put \in BOOLEAN, Change(s, put) PROVE TypeOK'
  <2> DEFINE E == [shard : Shards, put : BOOLEAN]
             e == [shard |-> s, put |-> put]
  <2>1. e \in E /\ feed \in Seq(E) /\ kind = "etcd" /\ (feed' = feed \/ feed' = Append(feed, e))
    BY <1>1 DEF TypeOK, Change
  <2> HIDE DEF E, e
  <2>2. kind = "etcd" /\ feed' \in Seq(E)
    BY <2>1
  <2>3. members' \in Lists /\ missed' \in Lists
    BY <1>1 DEF TypeOK, Change, Lists
  <2> QED
    BY <1>1, <2>2, <2>3 DEF TypeOK, Change, E
<1>2. ASSUME NEW S \in Lists, service_registry_api(S) PROVE TypeOK'
  BY <1>2 DEF TypeOK, service_registry_api
<1>3. CASE StreamFails
  BY <1>3 DEF TypeOK, StreamFails
<1>4. CASE Connected
  BY <1>4 DEF TypeOK, Connected
<1>5. CASE GetList
  BY <1>5 DEF TypeOK, GetList, Lists
<1>6. CASE StartWatch
  BY <1>6 DEF TypeOK, StartWatch
<1>7. CASE YieldFirst
  <2>1. known \in Lists
    BY DEF TypeOK
  <2> QED
    BY <1>7, <2>1, UpdateTypes DEF TypeOK, YieldFirst
<1>8. CASE YieldEvent
  <2> DEFINE e == Head(feed)
             S == IF e.put THEN known \cup {e.shard} ELSE known \ {e.shard}
  <2>1. feed \in Seq([shard : Shards, put : BOOLEAN]) /\ feed # <<>> /\ kind = "etcd"
    BY <1>8 DEF TypeOK, YieldEvent
  <2>2. e.shard \in Shards
    <3> DEFINE E == [shard : Shards, put : BOOLEAN]
    <3>1. feed \in Seq(E)
      BY <2>1
    <3>2. Head(feed) \in E
      <4> HIDE DEF E
      <4> QED
        BY <2>1, <3>1
    <3> QED
      BY <3>2
  <2>3. S \in Lists
    BY <2>2 DEF TypeOK, Lists
  <2>4. HandleUpdate(S) /\ known' = S
    BY <1>8 DEF YieldEvent
  <2>5. feed' \in Seq([shard : Shards, put : BOOLEAN])
    BY <1>8, <2>1 DEF YieldEvent
  <2> HIDE DEF S
  <2> QED
    BY <1>8, <2>1, <2>3, <2>4, <2>5, UpdateTypes DEF TypeOK, YieldEvent
<1>9. CASE YieldPosted
  <2>1. feed \in Seq(Lists) /\ feed # <<>> /\ kind = "api"
    BY <1>9 DEF TypeOK, YieldPosted
  <2>2. Head(feed) \in Lists /\ feed' \in Seq(Lists)
    BY <1>9, <2>1 DEF YieldPosted
  <2> QED
    BY <1>9, <2>1, <2>2, UpdateTypes DEF TypeOK, YieldPosted
<1>10. CASE Finished
  BY <1>10 DEF TypeOK, Finished
<1>11. CASE StoreState
  BY <1>11 DEF TypeOK, StoreState
<1>12. CASE WakeWaiters
  BY <1>12 DEF TypeOK, WakeWaiters
<1>13. ASSUME NEW r \in Registries, Take(r) PROVE TypeOK'
  <2>1. Head(mailbox) \in Messages /\ mailbox' \in Seq(Messages)
    BY <1>13 DEF TypeOK, Take
  <2> QED
    BY <1>13, <2>1 DEF TypeOK, Take
<1>14. ASSUME NEW r \in Registries, ApplyUpdate(r) PROVE TypeOK'
  <2>1. hand[r].list \in Lists
    BY <1>14 DEF ApplyUpdate, Updates, Messages
  <2> QED
    BY <1>14, <2>1 DEF TypeOK, ApplyUpdate
<1>15. ASSUME NEW r \in Registries, NEW c \in Clients, Reply(r, c) PROVE TypeOK'
  <2>1. registry # {} => Target(c, registry) \in Lists /\ Target(c, registry) # {}
    <3>1. registry # {} => registry \in Lists \ {{}}
      BY DEF TypeOK
    <3>2. registry # {} => Route[registry] \in Shards
      BY <3>1
    <3> QED
      BY <3>1, <3>2 DEF Target, Lists
  <2>2. /\ hand' = [hand EXCEPT ![r] = NoMsg]
        /\ UNCHANGED <<feedVars, actorVars, mailbox, registry, sub, waiting, woken,
                       missed, failures>>
    BY <1>15 DEF Reply
  <2>3. hand' \in [Registries -> Messages \cup {NoMsg}]
    BY <2>2 DEF TypeOK
  <2>4. CASE registry = {}
    <3>1. pc' = [pc EXCEPT ![c] = "idle"] /\ nodes' = nodes /\ raced' = raced
      BY <1>15, <2>4 DEF Reply
    <3> QED
      BY <2>2, <2>3, <3>1 DEF TypeOK
  <2>5. CASE registry # {}
    <3>1. /\ pc' = [pc EXCEPT ![c] = "connect"]
          /\ nodes' = [nodes EXCEPT ![c] = Target(c, registry)]
          /\ raced' \subseteq raced \cup {c}
      BY <1>15, <2>5 DEF Reply
    <3>2. /\ pc' \in [Clients -> {"idle", "ask", "asked", "connect", "join", "poll", "load", "parked"}]
          /\ nodes' \in [Clients -> Lists]
          /\ \A d \in Clients : pc'[d] \in {"connect", "join"} => nodes'[d] # {}
      BY <2>1, <2>5, <3>1 DEF TypeOK
    <3> QED
      BY <2>2, <2>3, <3>1, <3>2 DEF TypeOK
  <2> QED
    BY <2>4, <2>5
<1>16. ASSUME NEW c \in Clients, Start(c) PROVE TypeOK'
  BY <1>16, LeaveTypes DEF Start
<1>17. ASSUME NEW c \in Clients, SendAsk(c) PROVE TypeOK'
  <2>1. Ask(c) \in Messages
    BY DEF Ask, Messages
  <2>2. mailbox' \in Seq(Messages)
    BY <1>17, <2>1 DEF TypeOK, SendAsk
  <2> QED
    BY <1>17, <2>2 DEF TypeOK, SendAsk
<1>18. ASSUME NEW c \in Clients, Connect(c) PROVE TypeOK'
  <2>1. CASE Leave(c, "idle")
    BY <2>1, LeaveTypes
  <2>2. CASE /\ pc' = [pc EXCEPT ![c] = "join"]
             /\ UNCHANGED <<feedVars, actorVars, registryVars, nodes, sub, waiting, woken, pastVars>>
    BY <1>18, <2>2 DEF TypeOK, Connect
  <2> QED
    BY <1>18, <2>1, <2>2 DEF Connect
<1>19. ASSUME NEW c \in Clients, SubscribeUpdates(c) PROVE TypeOK'
  BY <1>19 DEF TypeOK, SubscribeUpdates
<1>20. ASSUME NEW c \in Clients, PollRegister(c) PROVE TypeOK'
  BY <1>20 DEF TypeOK, PollRegister
<1>21. ASSUME NEW c \in Clients, PollLoad(c) PROVE TypeOK'
  <2>1. CASE Leave(c, "ask")
    BY <2>1, LeaveTypes
  <2>2. CASE /\ pc' = [pc EXCEPT ![c] = IF c \in woken THEN "poll" ELSE "parked"]
             /\ UNCHANGED <<feedVars, actorVars, registryVars, nodes, sub, waiting, woken, pastVars>>
    BY <2>2 DEF TypeOK
  <2> QED
    BY <1>21, <2>1, <2>2 DEF PollLoad
<1>22. ASSUME NEW c \in Clients, Frame(c) PROVE TypeOK'
  BY <1>22 DEF TypeOK, Frame
<1>23. ASSUME NEW c \in Clients, Break(c) PROVE TypeOK'
  BY <1>23, LeaveTypes DEF Break
<1>24. ASSUME NEW c \in Clients, Collect(c) PROVE TypeOK'
  BY <1>24, LeaveTypes DEF Collect
<1>25. CASE UNCHANGED vars
  BY <1>25 DEF TypeOK, vars
<1> QED
  BY <1>1, <1>2, <1>3, <1>4, <1>5, <1>6, <1>7, <1>8, <1>9, <1>10, <1>11, <1>12, <1>13,
     <1>14, <1>15, <1>16, <1>17, <1>18, <1>19, <1>20, <1>21, <1>22, <1>23, <1>24, <1>25
     DEF Next, Cluster, Actor, Registry, Client, Outside

-----------------------------------------------------------------------------
(* Steps by the state that they leave alone.                                *)

\* The actor takes a list from its stream.
Yields ==
  \E S \in Lists : HandleUpdate(S) /\ phase' = "watching" /\ UNCHANGED <<kind, members, missed>>

\* The cluster changes, or the stream gets on without a list.
Aside == UNCHANGED <<turn, epoch, fired, registryVars, clientVars, raced>>

\* The registry and the clients leave the stream alone.
Elsewhere == UNCHANGED <<feedVars, actorVars, missed, failures>>

\* An update comes with a list.
LEMMA YieldCases ==
  ASSUME TypeOK, ApiOK, YieldFirst \/ YieldEvent \/ YieldPosted
  PROVE  Yields
<1>1. CASE YieldFirst
  BY <1>1 DEF YieldFirst, Yields, TypeOK
<1>2. CASE YieldEvent
  <2> DEFINE E == [shard : Shards, put : BOOLEAN]
             e == Head(feed)
             S == IF e.put THEN known \cup {e.shard} ELSE known \ {e.shard}
  <2>1. feed \in Seq(E) /\ feed # <<>>
    BY <1>2 DEF TypeOK, YieldEvent
  <2>2. e \in E
    <3> HIDE DEF E
    <3> QED
      BY <2>1
  <2>3. S \in Lists
    BY <2>2 DEF TypeOK, Lists
  <2>4. HandleUpdate(S) /\ phase' = "watching" /\ UNCHANGED <<kind, members, missed>>
    BY <1>2 DEF YieldEvent
  <2> HIDE DEF S
  <2> QED
    BY <2>3, <2>4 DEF Yields
<1>3. CASE YieldPosted
  <2>1. feed \in Seq(Lists) /\ feed # <<>>
    BY <1>3 DEF TypeOK, YieldPosted
  <2>2. Head(feed) \in Lists
    BY <2>1
  <2>3. phase' = "watching"
    BY <1>3 DEF ApiOK, YieldPosted
  <2> QED
    BY <1>3, <2>2, <2>3 DEF YieldPosted, Yields
<1> QED
  BY <1>1, <1>2, <1>3

\* A client's own step leaves the stream alone.
LEMMA ClientElsewhere ==
  ASSUME NEW c \in Clients, Client(c) \/ Outside(c)
  PROVE  Elsewhere
<1> USE DEF Elsewhere
<1>1. CASE Client(c)
  BY <1>1 DEF Client, SendAsk, Connect, SubscribeUpdates, PollRegister, PollLoad, Leave
<1>2. CASE Outside(c)
  BY <1>2 DEF Outside, Start, Frame, Break, Collect, Leave
<1> QED
  BY <1>1, <1>2

\* The kinds of step.
LEMMA StepCases ==
  ASSUME TypeOK, ApiOK, [Next]_vars
  PROVE  \/ Yields \/ StoreState \/ WakeWaiters \/ Aside
         \/ Elsewhere /\ \E r \in Registries : Registry(r)
         \/ Elsewhere /\ \E c \in Clients : Client(c) \/ Outside(c)
<1>1. CASE Cluster \/ StreamFails \/ Connected \/ GetList \/ StartWatch \/ Finished
  BY <1>1 DEF Aside, Cluster, Change, service_registry_api, StreamFails, Connected, GetList,
     StartWatch, Finished
<1>2. ASSUME NEW r \in Registries, Registry(r) PROVE Elsewhere
  BY <1>2 DEF Elsewhere, Registry, Take, ApplyUpdate, Reply
<1>3. CASE UNCHANGED vars
  BY <1>3 DEF Aside, vars
<1> QED
  BY <1>1, <1>2, <1>3, YieldCases, ClientElsewhere DEF Next, Actor

-----------------------------------------------------------------------------
(* The actor.                                                               *)

\* The broadcaster's state follows the turn.
LEMMA TurnStep == TypeOK /\ ApiOK /\ TurnOK /\ [Next]_vars => TurnOK'
<1> SUFFICES ASSUME TypeOK, ApiOK, TurnOK, [Next]_vars PROVE TurnOK'
  OBVIOUS
<1>1. CASE Yields
  BY <1>1 DEF Yields, HandleUpdate, TypeOK, TurnOK
<1>2. CASE StoreState
  BY <1>2 DEF StoreState, TurnOK
<1>3. CASE WakeWaiters
  BY <1>3 DEF WakeWaiters, TurnOK
<1>4. CASE Aside
  BY <1>4 DEF Aside, TurnOK
<1>5. CASE Elsewhere
  BY <1>5 DEF Elsewhere, TurnOK
<1> QED
  BY <1>1, <1>2, <1>3, <1>4, <1>5, StepCases

\* Every end of the stream is an attempt, until an update.
LEMMA CountStep == TypeOK /\ ApiOK /\ CountOK /\ [Next]_vars => CountOK' /\ ApiOK'
<1> USE DiscoveryAssumption DEF CountOK, ApiOK
<1> SUFFICES ASSUME TypeOK, ApiOK, CountOK, [Next]_vars PROVE CountOK' /\ ApiOK'
  OBVIOUS
<1>1. CASE YieldFirst \/ YieldEvent \/ YieldPosted
  BY <1>1, YieldCases DEF Yields, HandleUpdate
<1>2. CASE Cluster
  BY <1>2 DEF Cluster, Change, service_registry_api
<1>3. CASE StreamFails
  BY <1>3 DEF StreamFails
<1>4. CASE Connected \/ GetList \/ StartWatch
  BY <1>4 DEF Connected, GetList, StartWatch
<1>5. CASE Finished
  BY <1>5 DEF Finished
<1>6. CASE StoreState \/ WakeWaiters
  BY <1>6 DEF StoreState, WakeWaiters
<1>7. ASSUME NEW r \in Registries, Registry(r) PROVE CountOK' /\ ApiOK'
  BY <1>7 DEF Registry, Take, ApplyUpdate, Reply
<1>8. CASE Elsewhere
  BY <1>8 DEF Elsewhere
<1>9. CASE UNCHANGED vars
  BY <1>9 DEF vars
<1> QED
  BY <1>1, <1>2, <1>3, <1>4, <1>5, <1>6, <1>7, <1>8, <1>9, ClientElsewhere DEF Next, Actor

-----------------------------------------------------------------------------
(* The wake-ups.                                                            *)

\* Push comes before load, and store before wake.
LEMMA WakeStep ==
  TypeOK /\ ApiOK /\ TurnOK /\ WakerOK /\ NoWakeUpLost /\ [Next]_vars => WakerOK' /\ NoWakeUpLost'
<1> SUFFICES ASSUME TypeOK, ApiOK, TurnOK, WakerOK, NoWakeUpLost, [Next]_vars
             PROVE  WakerOK' /\ NoWakeUpLost'
  OBVIOUS
<1> USE DEF WakerOK, NoWakeUpLost
<1>0. epoch \in Nat /\ \A c \in Clients : sub[c] \in Nat /\ sub[c] <= epoch
  BY DEF TypeOK
<1>1. CASE Yields
  BY <1>0, <1>1 DEF Yields, HandleUpdate
<1>2. CASE StoreState
  BY <1>2 DEF StoreState
<1>3. CASE WakeWaiters
  BY <1>0, <1>3 DEF WakeWaiters
<1>4. CASE Aside
  BY <1>4 DEF Aside
<1>5. ASSUME NEW r \in Registries, Registry(r) PROVE WakerOK' /\ NoWakeUpLost'
  <2>1. ASSUME NEW c \in Clients, Reply(r, c) PROVE WakerOK' /\ NoWakeUpLost'
    BY <2>1 DEF Reply, TypeOK
  <2> QED
    BY <1>5, <2>1 DEF Registry, Take, ApplyUpdate
<1>6. ASSUME NEW c \in Clients, NEW at \in {"idle", "ask"}, Leave(c, at)
      PROVE  WakerOK' /\ NoWakeUpLost'
  BY <1>6 DEF Leave, TypeOK
<1>7. ASSUME NEW c \in Clients, Client(c) PROVE WakerOK' /\ NoWakeUpLost'
  <2>1. CASE SendAsk(c)
    BY <2>1 DEF SendAsk, TypeOK
  <2>2. CASE Connect(c)
    BY <1>6, <2>2 DEF Connect, TypeOK
  <2>3. CASE SubscribeUpdates(c)
    BY <2>3 DEF SubscribeUpdates, TypeOK
  <2>4. CASE PollRegister(c)
    BY <2>4 DEF PollRegister, TypeOK
  <2>5. CASE PollLoad(c)
    BY <1>0, <1>6, <2>5 DEF PollLoad, TypeOK, TurnOK
  <2> QED
    BY <1>7, <2>1, <2>2, <2>3, <2>4, <2>5 DEF Client
<1>8. ASSUME NEW c \in Clients, Outside(c) PROVE WakerOK' /\ NoWakeUpLost'
  BY <1>6, <1>8 DEF Outside, Start, Frame, Break, Collect, TypeOK
<1> QED
  BY <1>1, <1>2, <1>3, <1>4, <1>5, <1>7, <1>8, StepCases

-----------------------------------------------------------------------------
(* The addresses of the clients.                                            *)

\* Only HandleUpdate sends an update to the registry.
LEMMA OutstandingKept ==
  ASSUME TypeOK, ~Outstanding
  PROVE  /\ \A r \in Registries : Take(r) => ~Outstanding'
         /\ \A r \in Registries, c \in Clients : Reply(r, c) => ~Outstanding'
         /\ \A c \in Clients : SendAsk(c) => ~Outstanding'
<1>0. /\ mailbox \in Seq(Messages) /\ hand \in [Registries -> Messages \cup {NoMsg}]
      /\ \A k \in DOMAIN mailbox : mailbox[k] \notin Updates
      /\ \A r \in Registries : hand[r] \notin Updates
  BY DEF TypeOK, Outstanding
<1>1. ASSUME NEW r \in Registries, Take(r) PROVE ~Outstanding'
  <2>1. /\ mailbox # <<>> /\ mailbox' = Tail(mailbox)
        /\ hand' = [hand EXCEPT ![r] = Head(mailbox)]
    BY <1>1 DEF Take
  <2>2. \A k \in DOMAIN Tail(mailbox) : k + 1 \in DOMAIN mailbox /\ Tail(mailbox)[k] = mailbox[k + 1]
    BY <1>0, <2>1
  <2>3. 1 \in DOMAIN mailbox /\ Head(mailbox) = mailbox[1]
    BY <1>0, <2>1
  <2>4. \A q \in Registries : hand'[q] \notin Updates
    BY <1>0, <2>1, <2>3
  <2> QED
    BY <1>0, <2>1, <2>2, <2>4 DEF Outstanding
<1>2. ASSUME NEW r \in Registries, NEW c \in Clients, Reply(r, c) PROVE ~Outstanding'
  <2>1. mailbox' = mailbox /\ hand' = [hand EXCEPT ![r] = NoMsg]
    BY <1>2 DEF Reply
  <2>2. NoMsg \notin Updates
    BY NoMsgAssumption DEF Updates
  <2>3. \A q \in Registries : hand'[q] \notin Updates
    BY <1>0, <2>1, <2>2
  <2> QED
    BY <1>0, <2>1, <2>3 DEF Outstanding
<1>3. ASSUME NEW c \in Clients, SendAsk(c) PROVE ~Outstanding'
  <2>1. mailbox' = Append(mailbox, Ask(c)) /\ hand' = hand
    BY <1>3 DEF SendAsk
  <2>2. Ask(c) \notin Updates
    BY DEF Ask, Updates
  <2>3. \A k \in DOMAIN Append(mailbox, Ask(c)) :
          Append(mailbox, Ask(c))[k] = Ask(c)
            \/ (k \in DOMAIN mailbox /\ Append(mailbox, Ask(c))[k] = mailbox[k])
    BY <1>0
  <2> QED
    BY <1>0, <2>1, <2>2, <2>3 DEF Outstanding
<1> QED
  BY <1>1, <1>2, <1>3

\* Who has read the registry and seen no update is right about it.
LEMMA AddressStep == TypeOK /\ ApiOK /\ AddressOK /\ [Next]_vars => AddressOK'
<1> SUFFICES ASSUME TypeOK, ApiOK, AddressOK, [Next]_vars PROVE AddressOK'
  OBVIOUS
<1> USE DEF Streaming, Target
<1>0. epoch \in Nat /\ \A c \in Clients : sub[c] \in Nat /\ sub[c] <= epoch
  BY DEF TypeOK
<1>1. CASE Yields
  BY <1>0, <1>1 DEF Yields, HandleUpdate, AddressOK
<1>2. ASSUME UNCHANGED <<mailbox, hand>> PROVE Outstanding' = Outstanding
  BY <1>2 DEF Outstanding
<1>3. CASE StoreState
  BY <1>2, <1>3 DEF StoreState, AddressOK
<1>4. CASE WakeWaiters
  <2>1. \A c \in Clients : /\ pc'[c] \in {"connect", "join"} => pc'[c] = pc[c]
                           /\ Streaming(c)' => Streaming(c)
    BY <1>4 DEF WakeWaiters
  <2> QED
    BY <1>2, <1>4, <2>1 DEF WakeWaiters, AddressOK
<1>5. CASE Aside
  BY <1>2, <1>5 DEF Aside, AddressOK
<1>6. ASSUME NEW r \in Registries, Take(r) PROVE AddressOK'
  BY <1>6, OutstandingKept DEF Take, AddressOK
<1>7. ASSUME NEW r \in Registries, ApplyUpdate(r) PROVE AddressOK'
  <2>1. Outstanding
    BY <1>7 DEF ApplyUpdate, Outstanding
  <2> QED
    BY <1>7, <2>1 DEF ApplyUpdate, AddressOK
<1>8. ASSUME NEW r \in Registries, NEW c \in Clients, Reply(r, c) PROVE AddressOK'
  <2>1. UNCHANGED <<registry, sub, epoch>>
    BY <1>8 DEF Reply
  <2>2. ASSUME NEW d \in Clients, d # c
        PROVE  pc'[d] = pc[d] /\ nodes'[d] = nodes[d] /\ (d \in raced' <=> d \in raced)
    BY <1>8, <2>2 DEF Reply, TypeOK
  <2>3. ASSUME c \notin raced', pc'[c] \in {"connect", "join"} \/ (Streaming(c)' /\ sub'[c] = epoch')
        PROVE  ~Outstanding /\ nodes'[c] = Target(c, registry)
    BY <1>8, <2>3 DEF Reply, TypeOK
  <2> QED
    BY <1>8, <2>1, <2>2, <2>3, OutstandingKept DEF AddressOK
<1>9. ASSUME NEW c \in Clients, NEW at \in {"idle", "ask"}, Leave(c, at) PROVE AddressOK'
  BY <1>2, <1>9 DEF Leave, AddressOK, TypeOK
<1>10. ASSUME NEW c \in Clients, Client(c) PROVE AddressOK'
  <2>1. CASE SendAsk(c)
    BY <2>1, OutstandingKept DEF SendAsk, AddressOK, TypeOK
  <2>2. CASE Connect(c)
    BY <1>2, <1>9, <2>2 DEF Connect, AddressOK, TypeOK
  <2>3. CASE SubscribeUpdates(c)
    BY <1>2, <2>3 DEF SubscribeUpdates, AddressOK, TypeOK
  <2>4. CASE PollRegister(c)
    BY <1>2, <2>4 DEF PollRegister, AddressOK, TypeOK
  <2>5. CASE PollLoad(c)
    BY <1>2, <1>9, <2>5 DEF PollLoad, AddressOK, TypeOK
  <2> QED
    BY <1>10, <2>1, <2>2, <2>3, <2>4, <2>5 DEF Client
<1>11. ASSUME NEW c \in Clients, Outside(c) PROVE AddressOK'
  BY <1>2, <1>9, <1>11 DEF Outside, Start, Frame, Break, Collect, AddressOK, TypeOK
<1> QED
  BY <1>1, <1>3, <1>4, <1>5, <1>6, <1>7, <1>8, <1>10, <1>11, StepCases DEF Registry

-----------------------------------------------------------------------------
(* The etcd stream.                                                         *)

\* An event at the end of the feed decides about its shard.
LEMMA KnownAppend ==
  ASSUME NEW E, feed \in Seq(E), NEW e \in E,
         feed' = Append(feed, e), known' = known, NEW s \in Shards
  PROVE  KnownSoon(s)' <=> IF e.shard = s THEN e.put ELSE KnownSoon(s)
<1> DEFINE K == {k \in DOMAIN feed : feed[k].shard = s}
           L == {k \in DOMAIN feed' : feed'[k].shard = s}
           n == Len(feed)
<1>1. /\ n \in Nat /\ DOMAIN feed = 1..n /\ DOMAIN feed' = 1..(n + 1)
      /\ feed'[n + 1] = e /\ \A k \in 1..n : feed'[k] = feed[k]
  OBVIOUS
<1>2. CASE e.shard = s
  <2>1. n + 1 \in L /\ \A k \in L : k <= n + 1 /\ k \in Nat
    BY <1>1, <1>2
  <2>2. KnownSoon(s)' <=> \E k \in L : (\A j \in L : j <= k) /\ feed'[k].put
    BY <2>1 DEF KnownSoon
  <2>3. \A k \in L : (\A j \in L : j <= k) <=> k = n + 1
    BY <1>1, <2>1
  <2>4. KnownSoon(s)' <=> feed'[n + 1].put
    <3> HIDE DEF L
    <3> QED
      BY <2>1, <2>2, <2>3
  <2> QED
    BY <1>1, <1>2, <2>4
<1>3. CASE e.shard # s
  <2>1. L = K
    BY <1>1, <1>3
  <2>2. \A k \in K : feed'[k] = feed[k]
    BY <1>1
  <2>3. KnownSoon(s)' <=> IF L = {} THEN s \in known'
                          ELSE \E k \in L : (\A j \in L : j <= k) /\ feed'[k].put
    BY DEF KnownSoon
  <2>4. KnownSoon(s) <=> IF K = {} THEN s \in known
                         ELSE \E k \in K : (\A j \in K : j <= k) /\ feed[k].put
    BY DEF KnownSoon
  <2> HIDE DEF L, K
  <2> QED
    BY <1>3, <2>1, <2>2, <2>3, <2>4
<1> QED
  BY <1>2, <1>3

\* An event at its head can be applied first.
LEMMA KnownTail ==
  ASSUME NEW E, feed \in Seq(E), feed # <<>>,
         feed' = Tail(feed),
         known' = IF Head(feed).put THEN known \cup {Head(feed).shard} ELSE known \ {Head(feed).shard},
         NEW s \in Shards
  PROVE  KnownSoon(s)' <=> KnownSoon(s)
<1> DEFINE K == {k \in DOMAIN feed : feed[k].shard = s}
           L == {k \in DOMAIN feed' : feed'[k].shard = s}
           n == Len(feed)
<1>1. /\ n \in Nat /\ n >= 1 /\ DOMAIN feed = 1..n /\ DOMAIN feed' = 1..(n - 1)
      /\ Head(feed) = feed[1] /\ \A k \in 1..(n - 1) : feed'[k] = feed[k + 1]
  OBVIOUS
<1>2. \A k \in L : k \in Nat /\ k >= 1 /\ k + 1 \in K /\ feed'[k] = feed[k + 1]
  BY <1>1
<1>3. \A k \in K : k \in Nat /\ k >= 1 /\ (k # 1 => k - 1 \in L /\ feed'[k - 1] = feed[k])
  BY <1>1
<1>4. 1 \in K <=> feed[1].shard = s
  BY <1>1
<1>5. KnownSoon(s)' <=> IF L = {} THEN s \in known'
                        ELSE \E k \in L : (\A j \in L : j <= k) /\ feed'[k].put
  BY DEF KnownSoon
<1>6. KnownSoon(s) <=> IF K = {} THEN s \in known
                       ELSE \E k \in K : (\A j \in K : j <= k) /\ feed[k].put
  BY DEF KnownSoon
<1>7. s \in known' <=> IF 1 \in K THEN feed[1].put ELSE s \in known
  BY <1>1, <1>4
<1> HIDE DEF K, L
<1>8. CASE L = {}
  <2>1. K = {} \/ K = {1}
    BY <1>3, <1>8
  <2>2. CASE K = {}
    BY <1>5, <1>6, <1>7, <1>8, <2>2
  <2>3. CASE K = {1}
    BY <1>5, <1>6, <1>7, <1>8, <2>3
  <2> QED
    BY <2>1, <2>2, <2>3
<1>9. CASE L # {}
  <2>1. K # {}
    BY <1>2, <1>9
  <2>2. ASSUME KnownSoon(s)' PROVE KnownSoon(s)
    <3>1. PICK k \in L : (\A j \in L : j <= k) /\ feed'[k].put
      BY <1>5, <1>9, <2>2
    <3>2. k + 1 \in K /\ feed[k + 1].put /\ \A j \in K : j <= k + 1
      <4>1. k \in Nat /\ k + 1 \in K /\ feed'[k] = feed[k + 1]
        BY <1>2
      <4>2. ASSUME NEW j \in K PROVE j <= k + 1
        <5>1. j \in Nat /\ (j # 1 => j - 1 \in L)
          BY <1>3
        <5>2. j # 1 => j - 1 <= k
          BY <3>1, <5>1
        <5> QED
          BY <4>1, <5>1, <5>2
      <4> QED
        BY <3>1, <4>1, <4>2
    <3> QED
      BY <1>6, <2>1, <3>2
  <2>3. ASSUME KnownSoon(s) PROVE KnownSoon(s)'
    <3>1. PICK k \in K : (\A j \in K : j <= k) /\ feed[k].put
      BY <1>6, <2>1, <2>3
    <3>2. k # 1
      BY <1>2, <1>9, <3>1
    <3>3. k - 1 \in L /\ feed'[k - 1].put /\ \A j \in L : j <= k - 1
      <4>1. k \in Nat /\ k - 1 \in L /\ feed'[k - 1] = feed[k]
        BY <1>3, <3>2
      <4>2. ASSUME NEW j \in L PROVE j <= k - 1
        <5>1. j \in Nat /\ j + 1 \in K
          BY <1>2
        <5>2. j + 1 <= k
          BY <3>1, <5>1
        <5> QED
          BY <4>1, <5>1, <5>2
      <4> QED
        BY <3>1, <4>1, <4>2
    <3> QED
      BY <1>5, <1>9, <3>3
  <2> QED
    BY <2>2, <2>3
<1> QED
  BY <1>8, <1>9

\* The stream's list and its feed follow etcd.
LEMMA FollowsStep == TypeOK /\ FollowsEtcdOutsideWindow /\ [Next]_vars => FollowsEtcdOutsideWindow'
<1> SUFFICES ASSUME TypeOK, FollowsEtcdOutsideWindow, [Next]_vars,
                    kind' = "etcd", phase' \in {"watch", "first", "watching"}, NEW s \in Shards \ missed'
             PROVE  (IF phase' = "watch" THEN s \in known' ELSE KnownSoon(s)') <=> s \in members'
  BY DEF FollowsEtcdOutsideWindow
<1> DEFINE E == [shard : Shards, put : BOOLEAN]
<1>0. kind = "etcd" /\ phase \in {"watch", "first", "watching"} /\ s \notin missed =>
        ((IF phase = "watch" THEN s \in known ELSE KnownSoon(s)) <=> s \in members)
  BY DEF FollowsEtcdOutsideWindow
<1>1. ASSUME NEW x \in Shards, NEW put \in BOOLEAN, Change(x, put)
      PROVE (IF phase' = "watch" THEN s \in known' ELSE KnownSoon(s)') <=> s \in members'
  <2>1. /\ phase' = phase /\ known' = known /\ kind = "etcd"
        /\ members' = IF put THEN members \cup {x} ELSE members \ {x}
    BY <1>1 DEF Change
  <2>2. CASE phase = "watch"
    <3>1. missed' = missed \cup {x}
      BY <1>1, <2>2 DEF Change
    <3> QED
      BY <1>0, <2>1, <2>2, <3>1
  <2>3. CASE phase \in {"first", "watching"}
    <3> DEFINE e == [shard |-> x, put |-> put]
    <3>1. missed' = missed \ {x} /\ feed' = Append(feed, e)
      BY <1>1, <2>3 DEF Change
    <3>2. e \in E /\ feed \in Seq(E) /\ e.shard = x /\ e.put = put
      BY <2>1 DEF TypeOK
    <3> HIDE DEF E, e
    <3>3. KnownSoon(s)' <=> IF e.shard = s THEN e.put ELSE KnownSoon(s)
      BY <2>1, <3>1, <3>2, KnownAppend
    <3>4. CASE x = s
      BY <2>1, <2>3, <3>2, <3>3, <3>4
    <3>5. CASE x # s
      BY <1>0, <2>1, <2>3, <3>1, <3>2, <3>3, <3>5
    <3> QED
      BY <3>4, <3>5
  <2> QED
    BY <2>1, <2>2, <2>3
<1>2. CASE UNCHANGED <<kind, members, feed, phase, known, missed>>
  BY <1>0, <1>2 DEF KnownSoon
<1>3. CASE GetList
  BY <1>3 DEF GetList
<1>4. CASE StartWatch
  BY <1>0, <1>4 DEF StartWatch, KnownSoon
<1>5. CASE YieldFirst
  BY <1>0, <1>5 DEF YieldFirst, KnownSoon
<1>6. CASE YieldEvent
  <2>1. /\ feed \in Seq(E) /\ feed # <<>> /\ feed' = Tail(feed) /\ kind = "etcd"
        /\ known' = IF Head(feed).put THEN known \cup {Head(feed).shard} ELSE known \ {Head(feed).shard}
        /\ phase = "watching" /\ UNCHANGED <<phase, members, missed>>
    BY <1>6 DEF YieldEvent, TypeOK
  <2> HIDE DEF E
  <2>2. KnownSoon(s)' <=> KnownSoon(s)
    BY <2>1, KnownTail
  <2> QED
    BY <1>0, <2>1, <2>2
<1>7. CASE StreamFails \/ Connected \/ Finished \/ YieldPosted
  BY <1>7 DEF StreamFails, Connected, Finished, YieldPosted
<1>8. ASSUME NEW S \in Lists, service_registry_api(S) PROVE FALSE
  BY <1>8 DEF service_registry_api
<1>9. CASE StoreState \/ WakeWaiters
  BY <1>2, <1>9 DEF StoreState, WakeWaiters
<1>10. ASSUME NEW r \in Registries, Registry(r)
       PROVE  UNCHANGED <<kind, members, feed, phase, known, missed>>
  BY <1>10 DEF Registry, Take, ApplyUpdate, Reply
<1>11. ASSUME NEW c \in Clients, Client(c) \/ Outside(c)
       PROVE  UNCHANGED <<kind, members, feed, phase, known, missed>>
  BY <1>11, ClientElsewhere DEF Elsewhere
<1>12. CASE UNCHANGED vars
  BY <1>2, <1>12 DEF vars
<1> QED
  BY <1>1, <1>2, <1>3, <1>4, <1>5, <1>6, <1>7, <1>8, <1>9, <1>10, <1>11, <1>12
     DEF Next, Cluster, Actor

-----------------------------------------------------------------------------
\* The invariant is inductive.
LEMMA NextInv == IInv /\ [Next]_vars => IInv'
BY TypeStep, TurnStep, CountStep, WakeStep, AddressStep, FollowsStep DEF IInv

\* So it holds in every state.
LEMMA Inductive == Spec => []IInv
BY InitInv, NextInv, PTL DEF Spec

-----------------------------------------------------------------------------
(* Theorems.                                                                *)

\* The discovery actor, the registry threads and the upstream clients keep
\* their types, and no client connects to an empty list of addresses.
THEOREM TypeCorrect == Spec => []TypeOK
<1>1. IInv => TypeOK
  BY DEF IInv
<1> QED
  BY <1>1, Inductive, PTL

\* The list that the etcd stream keeps, with the events on their way applied,
\* is right about every shard, except one that changed between the get and
\* the watch and not since.
THEOREM StreamFollowsEtcd == Spec => []FollowsEtcdOutsideWindow
<1>1. IInv => FollowsEtcdOutsideWindow
  BY DEF IInv
<1> QED
  BY <1>1, Inductive, PTL

\* An upstream client whose stream no update will end is connected to the
\* shards of the current registry, unless an update was on its way when it
\* read them or came before it subscribed: however many registry threads
\* share the mailbox.
THEOREM ClientsConnected == Spec => []ConnectedOutsideWindow
<1>1. IInv => ConnectedOutsideWindow
  BY DEF IInv, AddressOK, ConnectedOutsideWindow
<1> QED
  BY <1>1, Inductive, PTL

\* The actor gives discovery up only after MAX_RECONNECT_ATTEMPTS + 1 ends of
\* its stream in a row.
THEOREM StreamGivesUpLast == Spec => []GivesUpLast
<1>1. IInv => GivesUpLast
  BY DEF IInv, CountOK, GivesUpLast
<1> QED
  BY <1>1, Inductive, PTL

\* The push of a waker and the load of the state on one side, the store of
\* the state and the wake on the other, never leave a stream parked that the
\* actor has no reason to wake any more.
THEOREM WakeUps == Spec => []NoWakeUpLost
<1>1. IInv => NoWakeUpLost
  BY DEF IInv
<1> QED
  BY <1>1, Inductive, PTL
=============================================================================
