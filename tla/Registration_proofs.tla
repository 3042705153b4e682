------------------------- MODULE Registration_proofs -------------------------
(***************************************************************************)
(* Proofs about Registration, for every set of servers, every latency that *)
(* LatencyAssumption allows and every bound.                               *)
(*                                                                         *)
(* The argument is about time.  While nothing has gone wrong since its     *)
(* lease was granted, a server knows how old the lease is: the age of its  *)
(* current request or sleep, plus the longest that the ones since the last *)
(* refresh can have taken.  Leased states it, for each point of            *)
(* register_instance; LatencyAssumption makes the sum less than            *)
(* DEFAULT_TTL.  For a server that is gone the sum of the time since and   *)
(* the rest of a lease never grows, except once, when the keep-alive that  *)
(* it left behind is handled (Dying).                                      *)
(***************************************************************************)
EXTENDS Registration, TLAPS

USE DEF DEFAULT_TTL, DEFAULT_SLEEP

-----------------------------------------------------------------------------
(* The inductive invariant, in parts.                                       *)

\* Attempts run out only in a pause.
Counting ==
  \A s \in Servers :
    /\ pc[s] = "connect" => attempts[s] < MaxReconnects
    /\ pc[s] \in {"connect", "pause"} => attempts[s] = failed[s]
    /\ pc[s] \notin {"connect", "pause"} => failed[s] = 0
    /\ run[s] = "quit" => failed[s] = MaxReconnects

\* A server has a lease from its grant until it registers once more.
Holding ==
  \A s \in Servers : pc[s] \in {"granted", "put"} \cup Registered => granted[s] \in Leases

\* A key hangs on a lease that has not run out, and late requests are about
\* such leases.
Alive ==
  \A s \in Servers :
    /\ key[s] # 0 => life[s][key[s]] > 0
    /\ \A x \in late[s] : life[s][x[2]] > 0

\* A server that is gone has not been gone longer than a lease has run, once
\* the keep-alive on it that may have been under way is taken into account.
Dying ==
  \A s \in Servers :
    /\ run[s] = "up" => down[s] = 0
    /\ \A n \in Leases :
         life[s][n] + down[s] <= IF <<"beat", n>> \in late[s] THEN DEFAULT_TTL
                                                            ELSE 2 * DEFAULT_TTL

\* Nobody is late without a fault.
Punctual ==
  \A s \in Servers :
    run[s] = "up" /\ s \notin slow /\ pc[s] # "pause" =>
      clock[s] <= IF pc[s] = "sleep" THEN DEFAULT_SLEEP ELSE Latency

\* A calm server is past its grant, and slow it is not.
Calm ==
  \A s \in calm :
    run[s] = "up" /\ s \notin slow /\ pc[s] \in {"granted", "put"} \cup Registered

\* How much of its lease is left, and what hangs on it.
LeasedAt(s) ==
  LET held == life[s][granted[s]]
  IN  /\ pc[s] \in {"granted", "beaten"} => held + clock[s] >= DEFAULT_TTL
      /\ pc[s] \in {"put", "listed", "sleep"} => held + clock[s] + Latency >= DEFAULT_TTL
      /\ pc[s] = "beat" => \/ held + clock[s] + 2 * Latency >= DEFAULT_TTL
                           \/ held + clock[s] + Latency + DEFAULT_SLEEP >= DEFAULT_TTL
      /\ pc[s] \in Registered => key[s] = granted[s]

Leased == \A s \in calm : LeasedAt(s)

IInv == TypeOK /\ Counting /\ Holding /\ Alive /\ Dying /\ Punctual /\ Calm /\ Leased

-----------------------------------------------------------------------------
(* The types in three parts, and what happens to leases and late requests.  *)

ServerTypes ==
  /\ run \in [Servers -> {"off", "up", "crashed", "quit"}]
  /\ pc \in [Servers -> Asking \cup Answering \cup {"sleep", "pause"}]
  /\ attempts \in [Servers -> 0..MaxReconnects]
  /\ clock \in [Servers -> Nat]
  /\ slow \subseteq Servers
  /\ granted \in [Servers -> 0..MaxLeases]
  /\ key \in [Servers -> 0..MaxLeases]
  /\ faults \in 0..MaxFaults /\ starts \in 0..MaxStarts
  /\ calm \subseteq Servers
  /\ failed \in [Servers -> Nat]
  /\ astray \subseteq Servers
  /\ down \in [Servers -> 0..2 * DEFAULT_TTL]

LifeType == life \in [Servers -> [Leases -> 0..DEFAULT_TTL]]

LateType == late \in [Servers -> SUBSET ({"put", "beat"} \X Leases)]

\* TypeOK is their conjunction.
LEMMA Types == TypeOK <=> ServerTypes /\ LifeType /\ LateType
BY DEF TypeOK, ServerTypes, LifeType, LateType

\* What is left of a lease.
LEMMA LifeRange ==
  LifeType => \A t \in Servers, m \in Leases : life[t][m] \in 0..DEFAULT_TTL
<1> HIDE DEF DEFAULT_TTL
<1> QED BY DEF LifeType

\* A lease is granted or refreshed: the others stay as they are.
LEMMA Renewed ==
  ASSUME LifeType, NEW s \in Servers, NEW n \in Leases,
         life' = [life EXCEPT ![s][n] = DEFAULT_TTL]
  PROVE  /\ LifeType'
         /\ \A t \in Servers, m \in Leases :
              life'[t][m] = IF t = s /\ m = n THEN DEFAULT_TTL ELSE life[t][m]
<1>1. DEFAULT_TTL \in 0..DEFAULT_TTL
  BY RegistrationAssumption
<1>2. life[s] \in [Leases -> 0..DEFAULT_TTL]
  BY DEF LifeType
<1>3. [life[s] EXCEPT ![n] = DEFAULT_TTL] \in [Leases -> 0..DEFAULT_TTL]
  BY <1>1, <1>2
<1>4. life' = [life EXCEPT ![s] = [life[s] EXCEPT ![n] = DEFAULT_TTL]]
  BY DEF LifeType
<1> HIDE DEF DEFAULT_TTL
<1> QED BY <1>2, <1>3, <1>4 DEF LifeType

\* Grant, a keep-alive that finds its lease and a late one do just that.
LEMMA RenewedBy ==
  ASSUME ServerTypes, Holding, LifeType, NEW s \in Servers
  PROVE  /\ Grant(s) => LET n == granted[s] + 1
                         IN  n \in Leases /\ LifeType' /\ \A t \in Servers, m \in Leases :
                               life'[t][m] = IF t = s /\ m = n THEN DEFAULT_TTL ELSE life[t][m]
         /\ KeepAlive(s) /\ life[s][granted[s]] > 0 =>
              LET n == granted[s]
              IN  n \in Leases /\ LifeType' /\ \A t \in Servers, m \in Leases :
                    life'[t][m] = IF t = s /\ m = n THEN DEFAULT_TTL ELSE life[t][m]
         /\ \A n \in Leases : Late(s, "beat", n) =>
              LifeType' /\ \A t \in Servers, m \in Leases :
                life'[t][m] = IF t = s /\ m = n THEN DEFAULT_TTL ELSE life[t][m]
<1>1. ASSUME Grant(s)
      PROVE  LET n == granted[s] + 1
             IN  n \in Leases /\ LifeType' /\ \A t \in Servers, m \in Leases :
                   life'[t][m] = IF t = s /\ m = n THEN DEFAULT_TTL ELSE life[t][m]
  <2>1. granted[s] + 1 \in Leases
    BY <1>1, RegistrationAssumption DEF Grant, ServerTypes, Leases
  <2>2. life' = [life EXCEPT ![s][granted[s] + 1] = DEFAULT_TTL]
    BY <1>1 DEF Grant
  <2> QED BY <2>1, <2>2, Renewed
<1>2. ASSUME KeepAlive(s), life[s][granted[s]] > 0
      PROVE  LET n == granted[s]
             IN  n \in Leases /\ LifeType' /\ \A t \in Servers, m \in Leases :
                   life'[t][m] = IF t = s /\ m = n THEN DEFAULT_TTL ELSE life[t][m]
  <2>1. granted[s] \in Leases
    BY <1>2 DEF KeepAlive, Holding, Registered
  <2>2. life' = [life EXCEPT ![s][granted[s]] = DEFAULT_TTL]
    BY <1>2 DEF KeepAlive
  <2> QED BY <2>1, <2>2, Renewed
<1>3. ASSUME NEW n \in Leases, Late(s, "beat", n)
      PROVE  LifeType' /\ \A t \in Servers, m \in Leases :
               life'[t][m] = IF t = s /\ m = n THEN DEFAULT_TTL ELSE life[t][m]
  <2>1. life' = [life EXCEPT ![s][n] = DEFAULT_TTL]
    BY <1>3 DEF Late
  <2> QED BY <2>1, Renewed
<1> QED BY <1>1, <1>2, <1>3

\* A tick takes one off every lease, and leaves the late requests whose lease
\* goes on.
LEMMA Aged ==
  ASSUME LifeType, LateType, Tick
  PROVE  /\ LifeType' /\ LateType'
         /\ \A t \in Servers, m \in Leases :
              life'[t][m] = IF life[t][m] > 0 THEN life[t][m] - 1 ELSE 0
         /\ \A t \in Servers : late'[t] \subseteq late[t]
         /\ \A t \in Servers : \A x \in late'[t] : life[t][x[2]] > 1
<1>1. \A t \in Servers, m \in Leases : Less(life[t][m]) \in 0..DEFAULT_TTL
  BY RegistrationAssumption DEF LifeType, Less
<1>2. LifeType'
  BY <1>1 DEF Tick, LifeType
<1>3. \A t \in Servers, m \in Leases : life'[t][m] = Less(life[t][m])
  BY DEF Tick
<1>4. \A t \in Servers : late'[t] = {x \in late[t] : life[t][x[2]] > 1}
  BY DEF Tick
<1>5. \A t \in Servers : late'[t] \subseteq late[t]
  BY <1>4
<1>6. late' = [t \in Servers |-> {x \in late[t] : life[t][x[2]] > 1}]
  BY DEF Tick
<1>7. LateType'
  BY <1>5, <1>6 DEF LateType
<1> QED BY <1>2, <1>3, <1>4, <1>5, <1>7 DEF Less

\* A request left behind is a put or keep-alive on the lease of the server.
LEMMA Abandoned ==
  ASSUME LateType, NEW s \in Servers, Abandon(s),
         pc[s] \in {"put", "beat"} => granted[s] \in Leases
  PROVE  /\ LateType'
         /\ \A t \in Servers : t # s => late'[t] = late[t]
         /\ late'[s] = late[s] \/ /\ pc[s] \in {"put", "beat"}
                                  /\ life[s][granted[s]] > 0
                                  /\ late'[s] = late[s] \cup {<<pc[s], granted[s]>>}
<1> DEFINE Kinds == {"put", "beat"} \X Leases
<1>1. late \in [Servers -> SUBSET Kinds]
  BY DEF LateType
<1>2. late'[s] = late[s] \/ /\ pc[s] \in {"put", "beat"}
                            /\ life[s][granted[s]] > 0
                            /\ late'[s] = late[s] \cup {<<pc[s], granted[s]>>}
  <2>1. CASE pc[s] \in {"put", "beat"} /\ life[s][granted[s]] > 0
    BY <1>1, <2>1 DEF Abandon
  <2>2. CASE ~(pc[s] \in {"put", "beat"} /\ life[s][granted[s]] > 0)
    <3>1. late'[s] = late[s]
      BY <1>1, <2>2 DEF Abandon
    <3> QED BY <3>1
  <2> QED BY <2>1, <2>2
<1>3. pc[s] \in {"put", "beat"} => <<pc[s], granted[s]>> \in Kinds
  OBVIOUS
<1> HIDE DEF Kinds
<1>4. late'[s] \in SUBSET Kinds
  BY <1>1, <1>2, <1>3
<1>5. late' = [late EXCEPT ![s] = late'[s]]
  BY <1>1 DEF Abandon
<1>6. late' \in [Servers -> SUBSET Kinds]
  BY <1>1, <1>4, <1>5
<1> QED BY <1>1, <1>2, <1>5, <1>6 DEF LateType, Kinds

\* A late request is handled once.
LEMMA Handled ==
  ASSUME LateType, NEW s \in Servers, NEW kind, NEW n \in Leases, Late(s, kind, n)
  PROVE  /\ LateType'
         /\ \A t \in Servers : t # s => late'[t] = late[t]
         /\ late'[s] = late[s] \ {<<kind, n>>}
<1> DEFINE Kinds == {"put", "beat"} \X Leases
<1>1. late \in [Servers -> SUBSET Kinds]
  BY DEF LateType
<1>2. late' = [late EXCEPT ![s] = late[s] \ {<<kind, n>>}]
  BY DEF Late
<1> HIDE DEF Kinds
<1>3. late' \in [Servers -> SUBSET Kinds]
  BY <1>1, <1>2
<1> QED BY <1>1, <1>2, <1>3 DEF LateType, Kinds

-----------------------------------------------------------------------------
\* The invariant holds when all servers are off.
LEMMA InitInv == Init => IInv
BY RegistrationAssumption
   DEF Init, IInv, TypeOK, Asking, Answering, Registered, Leases, Counting, Holding, Alive,
       Dying, Punctual, Calm, Leased

\* The servers keep their types.
LEMMA ServerTypesStep == ServerTypes /\ Counting /\ Holding /\ [Next]_vars => ServerTypes'
<1> USE RegistrationAssumption
    DEF Asking, Answering, Registered, Leases, serverVars, etcdVars, boundVars, pastVars,
        ServerTypes, Counting, Holding
<1> SUFFICES ASSUME ServerTypes, Counting, Holding, [Next]_vars PROVE ServerTypes'
  OBVIOUS
<1>1. CASE Tick
  <2>1. clock' \in [Servers -> Nat]
    BY <1>1 DEF Tick
  <2>2. key' \in [Servers -> 0..MaxLeases]
    BY <1>1 DEF Tick, Lapses
  <2>3. \A t \in Servers : IF t \notin Live /\ down[t] < 2 * DEFAULT_TTL
                           THEN down[t] + 1 \in 0..2 * DEFAULT_TTL
                           ELSE down[t] \in 0..2 * DEFAULT_TTL
    OBVIOUS
  <2>4. down' \in [Servers -> 0..2 * DEFAULT_TTL]
    BY <1>1, <2>3 DEF Tick
  <2> QED BY <1>1, <2>1, <2>2, <2>4 DEF Tick
<1>2. ASSUME NEW s \in Servers, Grant(s) PROVE ServerTypes'
  BY <1>2 DEF Grant
<1>3. ASSUME NEW s \in Servers, Put(s) PROVE ServerTypes'
  BY <1>3 DEF Put, Reregister, Goto
<1>4. ASSUME NEW s \in Servers, KeepAlive(s) PROVE ServerTypes'
  BY <1>4 DEF KeepAlive, Reregister, Goto
<1>5. ASSUME NEW s \in Servers, Answered(s) PROVE ServerTypes'
  BY <1>5 DEF Answered, Goto
<1>6. ASSUME NEW s \in Servers, WakeUp(s) PROVE ServerTypes'
  BY <1>6 DEF WakeUp, Quit, Goto, Limit
<1>7. ASSUME NEW s \in Servers, Fail(s) PROVE ServerTypes'
  BY <1>7 DEF Fail, Reregister, Goto
<1>8. ASSUME NEW s \in Servers, Delay(s) PROVE ServerTypes'
  BY <1>8 DEF Delay
<1>9. ASSUME NEW s \in Servers, Start(s) PROVE ServerTypes'
  BY <1>9 DEF Start, Goto
<1>10. ASSUME NEW s \in Servers, Crash(s) PROVE ServerTypes'
  BY <1>10 DEF Crash
<1>11. ASSUME NEW s \in Servers, NEW n \in Leases, Late(s, "put", n) PROVE ServerTypes'
  BY <1>11 DEF Late
<1>12. ASSUME NEW s \in Servers, NEW n \in Leases, Late(s, "beat", n) PROVE ServerTypes'
  BY <1>12 DEF Late
<1>13. CASE UNCHANGED vars
  BY <1>13 DEF vars
<1> QED
  BY <1>1, <1>2, <1>3, <1>4, <1>5, <1>6, <1>7, <1>8, <1>9, <1>10, <1>11, <1>12, <1>13
     DEF Next, Step

\* Leases keep their type.
LEMMA LifeTypeStep == ServerTypes /\ LifeType /\ LateType /\ Holding /\ [Next]_vars => LifeType'
<1> USE RegistrationAssumption
    DEF Asking, Answering, Registered, Leases, serverVars, etcdVars, boundVars, pastVars,
        ServerTypes, Holding
<1> SUFFICES ASSUME ServerTypes, LifeType, LateType, Holding, [Next]_vars PROVE LifeType'
  OBVIOUS
<1>1. CASE Tick
  BY <1>1, Aged
<1>2. ASSUME NEW s \in Servers, Grant(s) PROVE LifeType'
  BY <1>2, RenewedBy
<1>3. ASSUME NEW s \in Servers, Put(s) PROVE LifeType'
  BY <1>3 DEF Put, Reregister, Goto, LifeType
<1>4. ASSUME NEW s \in Servers, KeepAlive(s) PROVE LifeType'
  <2>2. CASE life[s][granted[s]] > 0
    BY <1>4, <2>2, RenewedBy
  <2>3. CASE ~(life[s][granted[s]] > 0)
    BY <1>4, <2>3 DEF KeepAlive, LifeType
  <2> QED BY <2>2, <2>3
<1>5. ASSUME NEW s \in Servers, Answered(s) PROVE LifeType'
  BY <1>5 DEF Answered, Goto, LifeType
<1>6. ASSUME NEW s \in Servers, WakeUp(s) PROVE LifeType'
  BY <1>6 DEF WakeUp, Quit, Goto, Limit, LifeType
<1>7. ASSUME NEW s \in Servers, Fail(s) PROVE LifeType'
  BY <1>7 DEF Fail, Reregister, Goto, LifeType
<1>8. ASSUME NEW s \in Servers, Delay(s) PROVE LifeType'
  BY <1>8 DEF Delay, LifeType
<1>9. ASSUME NEW s \in Servers, Start(s) PROVE LifeType'
  BY <1>9 DEF Start, Goto, LifeType
<1>10. ASSUME NEW s \in Servers, Crash(s) PROVE LifeType'
  BY <1>10 DEF Crash, LifeType
<1>11. ASSUME NEW s \in Servers, NEW n \in Leases, Late(s, "put", n) PROVE LifeType'
  BY <1>11 DEF Late, LifeType
<1>12. ASSUME NEW s \in Servers, NEW n \in Leases, Late(s, "beat", n) PROVE LifeType'
  BY <1>12, RenewedBy
<1>13. CASE UNCHANGED vars
  BY <1>13 DEF vars, LifeType
<1> QED
  BY <1>1, <1>2, <1>3, <1>4, <1>5, <1>6, <1>7, <1>8, <1>9, <1>10, <1>11, <1>12, <1>13
     DEF Next, Step

\* So do the late requests.
LEMMA LateTypeStep == ServerTypes /\ LifeType /\ LateType /\ Holding /\ [Next]_vars => LateType'
<1> USE RegistrationAssumption
    DEF Asking, Answering, Registered, Leases, serverVars, etcdVars, boundVars, pastVars,
        ServerTypes, Holding
<1> SUFFICES ASSUME ServerTypes, LifeType, LateType, Holding, [Next]_vars PROVE LateType'
  OBVIOUS
<1>1. CASE Tick
  BY <1>1, Aged
<1>2. ASSUME NEW s \in Servers, Grant(s) PROVE LateType'
  BY <1>2 DEF Grant, LateType
<1>3. ASSUME NEW s \in Servers, Put(s) PROVE LateType'
  BY <1>3 DEF Put, Reregister, Goto, LateType
<1>4. ASSUME NEW s \in Servers, KeepAlive(s) PROVE LateType'
  BY <1>4 DEF KeepAlive, Reregister, Goto, LateType
<1>5. ASSUME NEW s \in Servers, Answered(s) PROVE LateType'
  BY <1>5 DEF Answered, Goto, LateType
<1>6. ASSUME NEW s \in Servers, WakeUp(s) PROVE LateType'
  BY <1>6 DEF WakeUp, Quit, Goto, Limit, LateType
<1>7. ASSUME NEW s \in Servers, Fail(s) PROVE LateType'
  <2>1. pc[s] \in {"put", "beat"} => granted[s] \in Leases
    OBVIOUS
  <2> QED BY <1>7, <2>1, Abandoned DEF Fail
<1>8. ASSUME NEW s \in Servers, Delay(s) PROVE LateType'
  BY <1>8 DEF Delay, LateType
<1>9. ASSUME NEW s \in Servers, Start(s) PROVE LateType'
  BY <1>9 DEF Start, Goto, LateType
<1>10. ASSUME NEW s \in Servers, Crash(s) PROVE LateType'
  <2>1. pc[s] \in {"put", "beat"} => granted[s] \in Leases
    OBVIOUS
  <2> QED BY <1>10, <2>1, Abandoned DEF Crash
<1>11. ASSUME NEW s \in Servers, NEW n \in Leases, Late(s, "put", n) PROVE LateType'
  BY <1>11, Handled
<1>12. ASSUME NEW s \in Servers, NEW n \in Leases, Late(s, "beat", n) PROVE LateType'
  BY <1>12, Handled
<1>13. CASE UNCHANGED vars
  BY <1>13 DEF vars, LateType
<1> QED
  BY <1>1, <1>2, <1>3, <1>4, <1>5, <1>6, <1>7, <1>8, <1>9, <1>10, <1>11, <1>12, <1>13
     DEF Next, Step

\* The counts of attempts and of failures stay in step.
LEMMA CountingStep == ServerTypes /\ Counting /\ [Next]_vars => Counting'
<1> USE RegistrationAssumption
    DEF Asking, Answering, Registered, Leases, serverVars, etcdVars, boundVars, pastVars,
        ServerTypes, Counting
<1> SUFFICES ASSUME ServerTypes, Counting, [Next]_vars PROVE Counting'
  OBVIOUS
<1>1. CASE Tick
  BY <1>1 DEF Tick, Less, Live, Due, Limit
<1>2. ASSUME NEW s \in Servers, Grant(s) PROVE Counting'
  BY <1>2 DEF Grant
<1>3. ASSUME NEW s \in Servers, Put(s) PROVE Counting'
  BY <1>3 DEF Put, Reregister, Goto
<1>4. ASSUME NEW s \in Servers, KeepAlive(s) PROVE Counting'
  BY <1>4 DEF KeepAlive, Reregister, Goto
<1>5. ASSUME NEW s \in Servers, Answered(s) PROVE Counting'
  BY <1>5 DEF Answered, Goto
<1>6. ASSUME NEW s \in Servers, WakeUp(s) PROVE Counting'
  BY <1>6 DEF WakeUp, Quit, Goto, Limit
<1>7. ASSUME NEW s \in Servers, Fail(s) PROVE Counting'
  BY <1>7 DEF Fail, Reregister, Goto
<1>8. ASSUME NEW s \in Servers, Delay(s) PROVE Counting'
  BY <1>8 DEF Delay
<1>9. ASSUME NEW s \in Servers, Start(s) PROVE Counting'
  BY <1>9 DEF Start, Goto
<1>10. ASSUME NEW s \in Servers, Crash(s) PROVE Counting'
  BY <1>10 DEF Crash
<1>11. ASSUME NEW s \in Servers, NEW n \in Leases, Late(s, "put", n) PROVE Counting'
  BY <1>11 DEF Late
<1>12. ASSUME NEW s \in Servers, NEW n \in Leases, Late(s, "beat", n) PROVE Counting'
  BY <1>12 DEF Late
<1>13. CASE UNCHANGED vars
  BY <1>13 DEF vars
<1> QED
  BY <1>1, <1>2, <1>3, <1>4, <1>5, <1>6, <1>7, <1>8, <1>9, <1>10, <1>11, <1>12, <1>13
     DEF Next, Step

\* Leases are never taken back from a server.
LEMMA HoldingStep == ServerTypes /\ Holding /\ [Next]_vars => Holding'
<1> USE RegistrationAssumption
    DEF Asking, Answering, Registered, Leases, serverVars, etcdVars, boundVars, pastVars,
        ServerTypes, Holding
<1> SUFFICES ASSUME ServerTypes, Holding, [Next]_vars PROVE Holding'
  OBVIOUS
<1>1. CASE Tick
  BY <1>1 DEF Tick, Less, Live, Due, Limit
<1>2. ASSUME NEW s \in Servers, Grant(s) PROVE Holding'
  BY <1>2 DEF Grant
<1>3. ASSUME NEW s \in Servers, Put(s) PROVE Holding'
  BY <1>3 DEF Put, Reregister, Goto
<1>4. ASSUME NEW s \in Servers, KeepAlive(s) PROVE Holding'
  BY <1>4 DEF KeepAlive, Reregister, Goto
<1>5. ASSUME NEW s \in Servers, Answered(s) PROVE Holding'
  BY <1>5 DEF Answered, Goto
<1>6. ASSUME NEW s \in Servers, WakeUp(s) PROVE Holding'
  BY <1>6 DEF WakeUp, Quit, Goto, Limit
<1>7. ASSUME NEW s \in Servers, Fail(s) PROVE Holding'
  BY <1>7 DEF Fail, Reregister, Goto
<1>8. ASSUME NEW s \in Servers, Delay(s) PROVE Holding'
  BY <1>8 DEF Delay
<1>9. ASSUME NEW s \in Servers, Start(s) PROVE Holding'
  BY <1>9 DEF Start, Goto
<1>10. ASSUME NEW s \in Servers, Crash(s) PROVE Holding'
  BY <1>10 DEF Crash
<1>11. ASSUME NEW s \in Servers, NEW n \in Leases, Late(s, "put", n) PROVE Holding'
  BY <1>11 DEF Late
<1>12. ASSUME NEW s \in Servers, NEW n \in Leases, Late(s, "beat", n) PROVE Holding'
  BY <1>12 DEF Late
<1>13. CASE UNCHANGED vars
  BY <1>13 DEF vars
<1> QED
  BY <1>1, <1>2, <1>3, <1>4, <1>5, <1>6, <1>7, <1>8, <1>9, <1>10, <1>11, <1>12, <1>13
     DEF Next, Step

\* A lease that runs out takes its key and its requests with it.
LEMMA AliveStep == ServerTypes /\ LifeType /\ LateType /\ Holding /\ Alive /\ [Next]_vars => Alive'
<1> USE RegistrationAssumption
    DEF Asking, Answering, Registered, Leases, serverVars, etcdVars, boundVars, pastVars,
        ServerTypes, Holding, Alive
<1> SUFFICES ASSUME ServerTypes, LifeType, LateType, Holding, Alive, [Next]_vars PROVE Alive'
  OBVIOUS
<1>1. CASE Tick
  <2>1. ASSUME NEW t \in Servers, key'[t] # 0 PROVE life'[t][key'[t]] > 0
    <3>1. key'[t] = key[t] /\ key[t] \in Leases /\ ~Lapses(t)
      BY <1>1, <2>1 DEF Tick
    <3>2. life[t][key[t]] \in 0..DEFAULT_TTL /\ life[t][key[t]] > 1
      BY <3>1, LifeRange DEF Lapses
    <3>3. life'[t][key[t]] = IF life[t][key[t]] > 0 THEN life[t][key[t]] - 1 ELSE 0
      BY <1>1, <3>1, Aged
    <3> QED BY <3>1, <3>2, <3>3
  <2>2. ASSUME NEW t \in Servers, NEW x \in late'[t] PROVE life'[t][x[2]] > 0
    <3>1. x[2] \in Leases
      BY <1>1, Aged DEF LateType
    <3>2. life[t][x[2]] \in 0..DEFAULT_TTL
      BY <3>1, LifeRange
    <3>3. life[t][x[2]] > 1
      BY <1>1, Aged
    <3>4. life'[t][x[2]] = IF life[t][x[2]] > 0 THEN life[t][x[2]] - 1 ELSE 0
      BY <1>1, <3>1, Aged
    <3> QED BY <3>2, <3>3, <3>4
  <2> QED BY <2>1, <2>2
<1>2. ASSUME NEW s \in Servers, Grant(s) PROVE Alive'
  <2>1. granted[s] + 1 \in Leases
    BY <1>2, RenewedBy
  <2>2. \A t \in Servers, m \in Leases :
         life'[t][m] = IF t = s /\ m = granted[s] + 1 THEN DEFAULT_TTL ELSE life[t][m]
    BY <1>2, RenewedBy
  <2>3. key' = key /\ late' = late
    BY <1>2 DEF Grant
  <2>4. \A t \in Servers : key[t] # 0 => key[t] \in Leases
    OBVIOUS
  <2>5. \A t \in Servers : \A x \in late[t] : x[2] \in Leases
    BY DEF LateType
  <2>6. ASSUME NEW t \in Servers, key[t] # 0 PROVE life'[t][key[t]] > 0
    <3>1. key[t] \in Leases /\ life[t][key[t]] > 0
      BY <2>4, <2>6
    <3> QED BY <2>2, <3>1
  <2>7. \A t \in Servers : \A x \in late'[t] : life'[t][x[2]] > 0
    BY <2>2, <2>3, <2>5
  <2> QED BY <2>3, <2>6, <2>7
<1>3. ASSUME NEW s \in Servers, Put(s) PROVE Alive'
  BY <1>3 DEF Put, Reregister, Goto
<1>4. ASSUME NEW s \in Servers, KeepAlive(s) PROVE Alive'
  <2>1. CASE ~(life[s][granted[s]] > 0)
    BY <1>4, <2>1 DEF KeepAlive
  <2>2. CASE life[s][granted[s]] > 0
    <3>1. granted[s] \in Leases
      BY <1>4 DEF KeepAlive
    <3>2. \A t \in Servers, m \in Leases :
           life'[t][m] = IF t = s /\ m = granted[s] THEN DEFAULT_TTL ELSE life[t][m]
      BY <1>4, <2>2, RenewedBy
    <3>3. key' = key /\ late' = late
      BY <1>4 DEF KeepAlive
    <3>4. \A t \in Servers : key[t] # 0 => key[t] \in Leases
      OBVIOUS
    <3>5. \A t \in Servers : \A x \in late[t] : x[2] \in Leases
      BY DEF LateType
    <3>6. ASSUME NEW t \in Servers, key[t] # 0 PROVE life'[t][key[t]] > 0
      <4>1. key[t] \in Leases /\ life[t][key[t]] > 0
        BY <3>4, <3>6
      <4> QED BY <3>2, <4>1
    <3>7. \A t \in Servers : \A x \in late'[t] : life'[t][x[2]] > 0
      BY <3>2, <3>3, <3>5
    <3> QED BY <3>3, <3>6, <3>7
  <2> QED BY <2>1, <2>2
<1>5. ASSUME NEW s \in Servers, Answered(s) PROVE Alive'
  BY <1>5 DEF Answered, Goto
<1>6. ASSUME NEW s \in Servers, WakeUp(s) PROVE Alive'
  BY <1>6 DEF WakeUp, Quit, Goto, Limit
<1>7. ASSUME NEW s \in Servers, Fail(s) PROVE Alive'
  <2>1. life' = life /\ key' = key
    BY <1>7 DEF Fail
  <2>2. pc[s] \in {"put", "beat"} => granted[s] \in Leases
    OBVIOUS
  <2>3. \A t \in Servers : \A x \in late'[t] :
          x \in late[t] \/ (t = s /\ x[2] = granted[s] /\ life[s][granted[s]] > 0)
    BY <1>7, <2>2, Abandoned DEF Fail
  <2> QED BY <2>1, <2>3
<1>8. ASSUME NEW s \in Servers, Delay(s) PROVE Alive'
  BY <1>8 DEF Delay
<1>9. ASSUME NEW s \in Servers, Start(s) PROVE Alive'
  BY <1>9 DEF Start, Goto
<1>10. ASSUME NEW s \in Servers, Crash(s) PROVE Alive'
  <2>1. life' = life /\ key' = key
    BY <1>10 DEF Crash
  <2>2. pc[s] \in {"put", "beat"} => granted[s] \in Leases
    OBVIOUS
  <2>3. \A t \in Servers : \A x \in late'[t] :
          x \in late[t] \/ (t = s /\ x[2] = granted[s] /\ life[s][granted[s]] > 0)
    BY <1>10, <2>2, Abandoned DEF Crash
  <2> QED BY <2>1, <2>3
<1>11. ASSUME NEW s \in Servers, NEW n \in Leases, Late(s, "put", n) PROVE Alive'
  <2>1. life' = life /\ \A t \in Servers : late'[t] \subseteq late[t]
    BY <1>11, Handled DEF Late
  <2>2. key' = [key EXCEPT ![s] = n] /\ life[s][n] > 0
    BY <1>11 DEF Late
  <2> QED BY <2>1, <2>2
<1>12. ASSUME NEW s \in Servers, NEW n \in Leases, Late(s, "beat", n) PROVE Alive'
  <2>1. life' = [life EXCEPT ![s][n] = DEFAULT_TTL] /\ key' = key
    BY <1>12 DEF Late
  <2>2. \A t \in Servers, m \in Leases :
         life'[t][m] = IF t = s /\ m = n THEN DEFAULT_TTL ELSE life[t][m]
    BY <1>12, RenewedBy
  <2>3. \A t \in Servers : late'[t] \subseteq late[t]
    BY <1>12, Handled
  <2>4. \A t \in Servers : key[t] # 0 => key[t] \in Leases
    OBVIOUS
  <2>5. \A t \in Servers : \A x \in late[t] : x[2] \in Leases
    BY DEF LateType
  <2> QED BY <2>1, <2>2, <2>3, <2>4, <2>5
<1>13. CASE UNCHANGED vars
  BY <1>13 DEF vars
<1> QED
  BY <1>1, <1>2, <1>3, <1>4, <1>5, <1>6, <1>7, <1>8, <1>9, <1>10, <1>11, <1>12, <1>13
     DEF Next, Step

\* Time since the end of a process and the rest of its leases balance.
LEMMA DyingStep == ServerTypes /\ LifeType /\ LateType /\ Holding /\ Dying /\ [Next]_vars => Dying'
<1> USE RegistrationAssumption
    DEF Asking, Answering, Registered, Leases, serverVars, etcdVars, boundVars, pastVars,
        ServerTypes, Holding, Dying
<1> SUFFICES ASSUME ServerTypes, LifeType, LateType, Holding, Dying, [Next]_vars PROVE Dying'
  OBVIOUS
<1>1. CASE Tick
  <2>1. ASSUME NEW t \in Servers PROVE run'[t] = "up" => down'[t] = 0
    BY <1>1 DEF Tick, Live
  <2>2. ASSUME NEW t \in Servers, NEW n \in Leases
        PROVE  life'[t][n] + down'[t] <= IF <<"beat", n>> \in late'[t] THEN DEFAULT_TTL
                                                                   ELSE 2 * DEFAULT_TTL
    <3>1. life[t][n] \in 0..DEFAULT_TTL /\ down[t] \in 0..2 * DEFAULT_TTL
      BY LifeRange
    <3>2. life'[t][n] = IF life[t][n] > 0 THEN life[t][n] - 1 ELSE 0
      BY <1>1, Aged
    <3>3. down'[t] \in 0..2 * DEFAULT_TTL /\ down'[t] <= down[t] + 1
      BY <1>1, <3>1 DEF Tick
    <3>4. <<"beat", n>> \in late'[t] => <<"beat", n>> \in late[t] /\ life[t][n] > 1
      BY <1>1, Aged
    <3> QED BY <3>1, <3>2, <3>3, <3>4
  <2> QED BY <2>1, <2>2
<1>2. ASSUME NEW s \in Servers, Grant(s) PROVE Dying'
  <2>1. granted[s] + 1 \in Leases
    BY <1>2, RenewedBy
  <2>2. \A t \in Servers, m \in Leases :
         life'[t][m] = IF t = s /\ m = granted[s] + 1 THEN DEFAULT_TTL ELSE life[t][m]
    BY <1>2, RenewedBy
  <2>3. run' = run /\ down' = down /\ late' = late /\ run[s] = "up"
    BY <1>2 DEF Grant
  <2>4. ASSUME NEW t \in Servers, NEW m \in Leases
        PROVE  life'[t][m] + down'[t] <= IF <<"beat", m>> \in late'[t] THEN DEFAULT_TTL
                                                                   ELSE 2 * DEFAULT_TTL
    <3>1. CASE t = s /\ m = granted[s] + 1
      <4>1. life'[t][m] = DEFAULT_TTL /\ down'[t] = 0
        BY <2>2, <2>3, <3>1
      <4> QED BY <4>1
    <3>2. CASE ~(t = s /\ m = granted[s] + 1)
      <4>1. life'[t][m] = life[t][m] /\ down'[t] = down[t] /\ late'[t] = late[t]
        BY <2>2, <2>3, <3>2
      <4> QED BY <4>1
    <3> QED BY <3>1, <3>2
  <2> QED BY <2>3, <2>4
<1>3. ASSUME NEW s \in Servers, Put(s) PROVE Dying'
  BY <1>3 DEF Put, Reregister, Goto
<1>4. ASSUME NEW s \in Servers, KeepAlive(s) PROVE Dying'
  <2>1. CASE ~(life[s][granted[s]] > 0)
    BY <1>4, <2>1 DEF KeepAlive
  <2>2. CASE life[s][granted[s]] > 0
    <3>1. granted[s] \in Leases
      BY <1>4 DEF KeepAlive
    <3>2. \A t \in Servers, m \in Leases :
           life'[t][m] = IF t = s /\ m = granted[s] THEN DEFAULT_TTL ELSE life[t][m]
      BY <1>4, <2>2, RenewedBy
    <3>3. run' = run /\ down' = down /\ late' = late /\ run[s] = "up"
      BY <1>4 DEF KeepAlive
    <3>4. ASSUME NEW t \in Servers, NEW m \in Leases
          PROVE  life'[t][m] + down'[t] <= IF <<"beat", m>> \in late'[t] THEN DEFAULT_TTL
                                                                     ELSE 2 * DEFAULT_TTL
      <4>1. CASE t = s /\ m = granted[s]
        <5>1. life'[t][m] = DEFAULT_TTL /\ down'[t] = 0
          BY <3>2, <3>3, <4>1
        <5> QED BY <5>1
      <4>2. CASE ~(t = s /\ m = granted[s])
        <5>1. life'[t][m] = life[t][m] /\ down'[t] = down[t] /\ late'[t] = late[t]
          BY <3>2, <3>3, <4>2
        <5> QED BY <5>1
      <4> QED BY <4>1, <4>2
    <3> QED BY <3>3, <3>4
  <2> QED BY <2>1, <2>2
<1>5. ASSUME NEW s \in Servers, Answered(s) PROVE Dying'
  BY <1>5 DEF Answered, Goto
<1>6. ASSUME NEW s \in Servers, WakeUp(s) PROVE Dying'
  BY <1>6 DEF WakeUp, Quit, Goto, Limit
<1>7. ASSUME NEW s \in Servers, Fail(s) PROVE Dying'
  <2>1. life' = life /\ down' = down /\ run[s] = "up" /\ run' = run
    BY <1>7 DEF Fail
  <2>2. pc[s] \in {"put", "beat"} => granted[s] \in Leases
    OBVIOUS
  <2>3. \A t \in Servers : t # s => late'[t] = late[t]
    BY <1>7, <2>2, Abandoned DEF Fail
  <2>4. \A n \in Leases : life[s][n] \in 0..DEFAULT_TTL
    BY LifeRange
  <2> QED BY <2>1, <2>3, <2>4
<1>8. ASSUME NEW s \in Servers, Delay(s) PROVE Dying'
  BY <1>8 DEF Delay
<1>9. ASSUME NEW s \in Servers, Start(s) PROVE Dying'
  <2>1. /\ life' = life /\ late' = late
        /\ run' = [run EXCEPT ![s] = "up"] /\ down' = [down EXCEPT ![s] = 0]
    BY <1>9 DEF Start
  <2>2. \A n \in Leases : life[s][n] \in 0..DEFAULT_TTL
    BY LifeRange
  <2> QED BY <2>1, <2>2
<1>10. ASSUME NEW s \in Servers, Crash(s) PROVE Dying'
  <2>1. life' = life /\ down' = down /\ run[s] = "up" /\ run' = [run EXCEPT ![s] = "crashed"]
    BY <1>10 DEF Crash
  <2>2. pc[s] \in {"put", "beat"} => granted[s] \in Leases
    OBVIOUS
  <2>3. \A t \in Servers : t # s => late'[t] = late[t]
    BY <1>10, <2>2, Abandoned DEF Crash
  <2>4. \A n \in Leases : life[s][n] \in 0..DEFAULT_TTL
    BY LifeRange
  <2> QED BY <2>1, <2>3, <2>4
<1>11. ASSUME NEW s \in Servers, NEW n \in Leases, Late(s, "put", n) PROVE Dying'
  <2>1. life' = life /\ run' = run /\ down' = down
    BY <1>11 DEF Late
  <2>2. \A m \in Leases : <<"beat", m>> # <<"put", n>>
    OBVIOUS
  <2>3. late'[s] = late[s] \ {<<"put", n>>} /\ \A t \in Servers : t # s => late'[t] = late[t]
    BY <1>11, Handled
  <2>4. \A t \in Servers, m \in Leases : <<"beat", m>> \in late'[t] <=> <<"beat", m>> \in late[t]
    BY <2>2, <2>3
  <2> QED BY <2>1, <2>4
<1>12. ASSUME NEW s \in Servers, NEW n \in Leases, Late(s, "beat", n) PROVE Dying'
  <2>1. life' = [life EXCEPT ![s][n] = DEFAULT_TTL] /\ run' = run /\ down' = down
    BY <1>12 DEF Late
  <2>2. \A t \in Servers, m \in Leases :
         life'[t][m] = IF t = s /\ m = n THEN DEFAULT_TTL ELSE life[t][m]
    BY <1>12, RenewedBy
  <2>3. <<"beat", n>> \in late[s]
    BY <1>12 DEF Late
  <2>4. \A t \in Servers, m \in Leases :
          <<"beat", m>> \in late'[t] <=> <<"beat", m>> \in late[t] /\ ~(t = s /\ m = n)
    <3>1. late'[s] = late[s] \ {<<"beat", n>>} /\ \A t \in Servers : t # s => late'[t] = late[t]
      BY <1>12, Handled
    <3>2. \A m \in Leases : <<"beat", m>> = <<"beat", n>> <=> m = n
      OBVIOUS
    <3> QED BY <3>1, <3>2
  <2>5. \A t \in Servers, m \in Leases : life[t][m] \in 0..DEFAULT_TTL
    BY LifeRange
  <2>6. life[s][n] + down[s] <= DEFAULT_TTL
    BY <2>3
  <2>7. down[s] <= DEFAULT_TTL
    BY <2>5, <2>6
  <2> QED BY <2>1, <2>2, <2>4, <2>5, <2>7
<1>13. CASE UNCHANGED vars
  BY <1>13 DEF vars
<1> QED
  BY <1>1, <1>2, <1>3, <1>4, <1>5, <1>6, <1>7, <1>8, <1>9, <1>10, <1>11, <1>12, <1>13
     DEF Next, Step

\* Time does not pass a moment at which a server has to act.
LEMMA PunctualStep == ServerTypes /\ Punctual /\ [Next]_vars => Punctual'
<1> USE RegistrationAssumption
    DEF Asking, Answering, Registered, Leases, serverVars, etcdVars, boundVars, pastVars,
        ServerTypes, Punctual
<1> SUFFICES ASSUME ServerTypes, Punctual, [Next]_vars PROVE Punctual'
  OBVIOUS
<1>1. CASE Tick
  <2>1. run' = run /\ slow' = slow /\ pc' = pc
    BY <1>1 DEF Tick
  <2>2. ASSUME NEW s \in Servers, run[s] = "up", s \notin slow, pc[s] # "pause"
        PROVE  clock'[s] <= IF pc[s] = "sleep" THEN DEFAULT_SLEEP ELSE Latency
    <3>1. clock'[s] = clock[s] + 1 /\ ~Due(s)
      BY <1>1, <2>2 DEF Tick
    <3>2. ~(clock[s] >= IF pc[s] = "sleep" THEN DEFAULT_SLEEP ELSE Latency)
      BY <2>2, <3>1 DEF Due, Limit
    <3> QED BY <3>1, <3>2
  <2> QED BY <2>1, <2>2
<1>2. ASSUME NEW s \in Servers, Grant(s) PROVE Punctual'
  BY <1>2 DEF Grant
<1>3. ASSUME NEW s \in Servers, Put(s) PROVE Punctual'
  BY <1>3 DEF Put, Reregister, Goto
<1>4. ASSUME NEW s \in Servers, KeepAlive(s) PROVE Punctual'
  BY <1>4 DEF KeepAlive, Reregister, Goto
<1>5. ASSUME NEW s \in Servers, Answered(s) PROVE Punctual'
  BY <1>5 DEF Answered, Goto
<1>6. ASSUME NEW s \in Servers, WakeUp(s) PROVE Punctual'
  BY <1>6 DEF WakeUp, Quit, Goto, Limit
<1>7. ASSUME NEW s \in Servers, Fail(s) PROVE Punctual'
  BY <1>7 DEF Fail, Reregister, Goto
<1>8. ASSUME NEW s \in Servers, Delay(s) PROVE Punctual'
  BY <1>8 DEF Delay
<1>9. ASSUME NEW s \in Servers, Start(s) PROVE Punctual'
  BY <1>9 DEF Start, Goto
<1>10. ASSUME NEW s \in Servers, Crash(s) PROVE Punctual'
  BY <1>10 DEF Crash
<1>11. ASSUME NEW s \in Servers, NEW n \in Leases, Late(s, "put", n) PROVE Punctual'
  BY <1>11 DEF Late
<1>12. ASSUME NEW s \in Servers, NEW n \in Leases, Late(s, "beat", n) PROVE Punctual'
  BY <1>12 DEF Late
<1>13. CASE UNCHANGED vars
  BY <1>13 DEF vars
<1> QED
  BY <1>1, <1>2, <1>3, <1>4, <1>5, <1>6, <1>7, <1>8, <1>9, <1>10, <1>11, <1>12, <1>13
     DEF Next, Step

\* Every fault ends the calm.
LEMMA CalmStep == ServerTypes /\ Calm /\ [Next]_vars => Calm'
<1> USE RegistrationAssumption
    DEF Asking, Answering, Registered, Leases, serverVars, etcdVars, boundVars, pastVars,
        ServerTypes, Calm
<1> SUFFICES ASSUME ServerTypes, Calm, [Next]_vars PROVE Calm'
  OBVIOUS
<1>1. CASE Tick
  BY <1>1 DEF Tick, Less, Live, Due, Limit
<1>2. ASSUME NEW s \in Servers, Grant(s) PROVE Calm'
  BY <1>2 DEF Grant
<1>3. ASSUME NEW s \in Servers, Put(s) PROVE Calm'
  BY <1>3 DEF Put, Reregister, Goto
<1>4. ASSUME NEW s \in Servers, KeepAlive(s) PROVE Calm'
  BY <1>4 DEF KeepAlive, Reregister, Goto
<1>5. ASSUME NEW s \in Servers, Answered(s) PROVE Calm'
  BY <1>5 DEF Answered, Goto
<1>6. ASSUME NEW s \in Servers, WakeUp(s) PROVE Calm'
  BY <1>6 DEF WakeUp, Quit, Goto, Limit
<1>7. ASSUME NEW s \in Servers, Fail(s) PROVE Calm'
  BY <1>7 DEF Fail, Reregister, Goto
<1>8. ASSUME NEW s \in Servers, Delay(s) PROVE Calm'
  BY <1>8 DEF Delay
<1>9. ASSUME NEW s \in Servers, Start(s) PROVE Calm'
  BY <1>9 DEF Start, Goto
<1>10. ASSUME NEW s \in Servers, Crash(s) PROVE Calm'
  BY <1>10 DEF Crash
<1>11. ASSUME NEW s \in Servers, NEW n \in Leases, Late(s, "put", n) PROVE Calm'
  BY <1>11 DEF Late
<1>12. ASSUME NEW s \in Servers, NEW n \in Leases, Late(s, "beat", n) PROVE Calm'
  BY <1>12 DEF Late
<1>13. CASE UNCHANGED vars
  BY <1>13 DEF vars
<1> QED
  BY <1>1, <1>2, <1>3, <1>4, <1>5, <1>6, <1>7, <1>8, <1>9, <1>10, <1>11, <1>12, <1>13
     DEF Next, Step

\* Each request and sleep uses up its share of the lease.
LEMMA LeasedStep == ServerTypes /\ LifeType /\ LateType /\ Holding /\ Punctual /\ Calm /\ Leased /\ [Next]_vars => Leased'
<1> USE RegistrationAssumption, LatencyAssumption
    DEF Asking, Answering, Registered, Leases, serverVars, etcdVars, boundVars, pastVars,
        ServerTypes, Holding, Punctual, Calm, Leased
<1> SUFFICES ASSUME ServerTypes, LifeType, LateType, Holding, Punctual, Calm, Leased, [Next]_vars PROVE Leased'
  OBVIOUS
<1>1. CASE Tick
  <2> SUFFICES ASSUME NEW t \in calm PROVE LeasedAt(t)'
    BY <1>1 DEF Tick
  <2>1. /\ t \in Servers /\ run[t] = "up" /\ t \notin slow /\ pc[t] # "pause"
        /\ granted[t] \in Leases /\ clock[t] \in Nat
    OBVIOUS
  <2>2. life[t][granted[t]] \in 0..DEFAULT_TTL
    BY <2>1 DEF LifeType
  <2>3. life'[t][granted[t]] = IF life[t][granted[t]] > 0 THEN life[t][granted[t]] - 1 ELSE 0
    BY <1>1, <2>1, Aged
  <2>4. Limit(t) = IF pc[t] = "sleep" THEN DEFAULT_SLEEP ELSE Latency
    BY <2>1 DEF Limit
  <2>5. clock'[t] = clock[t] + 1 /\ clock[t] < Limit(t)
    <3>1. ~Due(t) /\ clock'[t] = clock[t] + 1
      BY <1>1, <2>1 DEF Tick
    <3> QED BY <2>1, <2>4, <3>1 DEF Due
  <2>6. LeasedAt(t)
    OBVIOUS
  <2>7. life[t][granted[t]] > 1
    BY <2>1, <2>2, <2>4, <2>5, <2>6 DEF LeasedAt
  <2>8. pc' = pc /\ granted' = granted /\ (key[t] = granted[t] => key'[t] = key[t])
    <3>1. pc' = pc /\ granted' = granted /\ key'[t] = IF Lapses(t) THEN 0 ELSE key[t]
      BY <1>1, <2>1 DEF Tick
    <3>2. key[t] = granted[t] => ~Lapses(t)
      BY <2>2, <2>7 DEF Lapses
    <3> QED BY <3>1, <3>2
  <2> QED BY <2>1, <2>2, <2>3, <2>5, <2>6, <2>7, <2>8 DEF LeasedAt
<1>2. ASSUME NEW s \in Servers, Grant(s) PROVE Leased'
  <2>1. granted[s] + 1 \in Leases
    BY <1>2, RenewedBy
  <2>2. \A t \in Servers, m \in Leases :
         life'[t][m] = IF t = s /\ m = granted[s] + 1 THEN DEFAULT_TTL ELSE life[t][m]
    BY <1>2, RenewedBy
  <2>3. LeasedAt(s)'
    BY <1>2, <2>1, <2>2 DEF Grant, LeasedAt
  <2>4. ASSUME NEW t \in calm, t # s PROVE LeasedAt(t)'
    <3>1. pc'[t] = pc[t] /\ granted'[t] = granted[t] /\ key' = key /\ clock' = clock
      BY <1>2, <2>4 DEF Grant
    <3>2. granted[t] \in Leases
      OBVIOUS
    <3>3. life'[t][granted[t]] = life[t][granted[t]]
      BY <2>2, <2>4, <3>2
    <3> QED BY <3>1, <3>3 DEF LeasedAt
  <2> QED BY <1>2, <2>3, <2>4 DEF Grant
<1>3. ASSUME NEW s \in Servers, Put(s) PROVE Leased'
  <2>1. ASSUME NEW t \in calm', t # s PROVE LeasedAt(t)'
    BY <1>3, <2>1 DEF Put, Reregister, Goto, LeasedAt
  <2>2. CASE life[s][granted[s]] > 0
    <3>1. s \in calm => LeasedAt(s)'
      BY <1>3, <2>2 DEF Put, LeasedAt
    <3> QED BY <1>3, <2>1, <2>2, <3>1 DEF Put
  <2>3. CASE ~(life[s][granted[s]] > 0)
    BY <1>3, <2>1, <2>3 DEF Put, Reregister
  <2> QED BY <2>2, <2>3
<1>4. ASSUME NEW s \in Servers, KeepAlive(s) PROVE Leased'
  <2>1. CASE ~(life[s][granted[s]] > 0)
    <3>1. ASSUME NEW t \in calm', t # s PROVE LeasedAt(t)'
      BY <1>4, <2>1, <3>1 DEF KeepAlive, Reregister, Goto, LeasedAt
    <3> QED BY <1>4, <2>1, <3>1 DEF KeepAlive, Reregister
  <2>2. CASE life[s][granted[s]] > 0
    <3>1. granted[s] \in Leases
      BY <1>4 DEF KeepAlive
    <3>2. \A t \in Servers, m \in Leases :
           life'[t][m] = IF t = s /\ m = granted[s] THEN DEFAULT_TTL ELSE life[t][m]
      BY <1>4, <2>2, RenewedBy
    <3>3. /\ pc[s] = "beat" /\ pc' = [pc EXCEPT ![s] = "beaten"]
          /\ clock' = clock /\ calm' = calm /\ granted' = granted /\ key' = key
      BY <1>4, <2>2 DEF KeepAlive
    <3>4. s \in calm => LeasedAt(s)'
      BY <3>1, <3>2, <3>3 DEF LeasedAt
    <3>5. ASSUME NEW t \in calm, t # s PROVE LeasedAt(t)'
      BY <3>2, <3>3, <3>5 DEF LeasedAt
    <3> QED BY <3>3, <3>4, <3>5
  <2> QED BY <2>1, <2>2
<1>5. ASSUME NEW s \in Servers, Answered(s) PROVE Leased'
  <2>1. life' = life /\ granted' = granted /\ key' = key /\ calm' = calm
    BY <1>5 DEF Answered
  <2>2. ASSUME NEW t \in calm, t # s PROVE LeasedAt(t)'
    BY <1>5, <2>1, <2>2 DEF Answered, Goto, LeasedAt
  <2>3. ASSUME s \in calm PROVE LeasedAt(s)'
    <3>1. life[s][granted[s]] \in 0..DEFAULT_TTL
      BY <2>3 DEF LifeType
    <3>2. clock[s] <= Latency /\ clock[s] \in Nat /\ clock'[s] = 0
      BY <1>5, <2>3 DEF Answered, Goto
    <3>3. CASE pc[s] = "granted"
      BY <1>5, <2>1, <2>3, <3>1, <3>2, <3>3 DEF Answered, Goto, LeasedAt
    <3>4. CASE pc[s] = "listed"
      BY <1>5, <2>1, <2>3, <3>1, <3>2, <3>4 DEF Answered, Goto, LeasedAt
    <3>5. CASE pc[s] = "beaten"
      BY <1>5, <2>1, <2>3, <3>1, <3>2, <3>5 DEF Answered, Goto, LeasedAt
    <3> QED BY <1>5, <2>3, <3>3, <3>4, <3>5 DEF Answered
  <2> QED BY <2>1, <2>2, <2>3
<1>6. ASSUME NEW s \in Servers, WakeUp(s) PROVE Leased'
  <2>1. life' = life /\ granted' = granted /\ key' = key /\ calm' = calm
    BY <1>6 DEF WakeUp
  <2>2. ASSUME NEW t \in calm, t # s PROVE LeasedAt(t)'
    BY <1>6, <2>1, <2>2 DEF WakeUp, Quit, Goto, LeasedAt
  <2>3. ASSUME s \in calm PROVE LeasedAt(s)'
    <3>1. life[s][granted[s]] \in 0..DEFAULT_TTL
      BY <2>3 DEF LifeType
    <3>2. /\ pc[s] = "sleep" /\ pc'[s] = "beat"
          /\ clock[s] <= DEFAULT_SLEEP /\ clock[s] \in Nat /\ clock'[s] = 0
      BY <1>6, <2>3 DEF WakeUp, Goto
    <3> QED BY <2>1, <2>3, <3>1, <3>2 DEF LeasedAt
  <2> QED BY <2>1, <2>2, <2>3
<1>7. ASSUME NEW s \in Servers, Fail(s) PROVE Leased'
  <2>1. ASSUME NEW t \in calm', t # s PROVE LeasedAt(t)'
    BY <1>7, <2>1 DEF Fail, Reregister, Goto, LeasedAt
  <2>2. s \notin calm'
    BY <1>7 DEF Fail, Reregister
  <2> QED BY <2>1, <2>2
<1>8. ASSUME NEW s \in Servers, Delay(s) PROVE Leased'
  BY <1>8 DEF Delay, LeasedAt
<1>9. ASSUME NEW s \in Servers, Start(s) PROVE Leased'
  <2>1. s \notin calm /\ calm' = calm
    BY <1>9 DEF Start
  <2>2. ASSUME NEW t \in calm, t # s PROVE LeasedAt(t)'
    BY <1>9, <2>2 DEF Start, Goto, LeasedAt
  <2> QED BY <2>1, <2>2
<1>10. ASSUME NEW s \in Servers, Crash(s) PROVE Leased'
  BY <1>10 DEF Crash, LeasedAt
<1>11. ASSUME NEW s \in Servers, NEW n \in Leases, Late(s, "put", n) PROVE Leased'
  BY <1>11 DEF Late, LeasedAt
<1>12. ASSUME NEW s \in Servers, NEW n \in Leases, Late(s, "beat", n) PROVE Leased'
  <2>1. life' = [life EXCEPT ![s][n] = DEFAULT_TTL]
    BY <1>12 DEF Late
  <2>2. \A t \in Servers, m \in Leases :
         life'[t][m] = IF t = s /\ m = n THEN DEFAULT_TTL ELSE life[t][m]
    BY <1>12, RenewedBy
  <2>3. \A t \in Servers, m \in Leases : life[t][m] \in 0..DEFAULT_TTL
    BY LifeRange
  <2>4. calm' = calm /\ pc' = pc /\ clock' = clock /\ granted' = granted /\ key' = key
    BY <1>12 DEF Late
  <2>5. \A t \in calm : granted[t] \in Leases
    OBVIOUS
  <2>6. \A t \in calm : /\ life'[t][granted[t]] \in Int /\ life[t][granted[t]] \in Int
                       /\ life'[t][granted[t]] >= life[t][granted[t]]
    BY <2>2, <2>3, <2>5
  <2> QED BY <2>4, <2>6 DEF LeasedAt
<1>13. CASE UNCHANGED vars
  BY <1>13 DEF vars, LeasedAt
<1> QED
  BY <1>1, <1>2, <1>3, <1>4, <1>5, <1>6, <1>7, <1>8, <1>9, <1>10, <1>11, <1>12, <1>13
     DEF Next, Step

-----------------------------------------------------------------------------
(* Theorems.                                                                *)

\* IInv is inductive.
LEMMA IInvCorrect == Spec => []IInv
<1>1. IInv /\ [Next]_vars => IInv'
  <2>1. ServerTypes' /\ LifeType' /\ LateType' => TypeOK'
    BY DEF TypeOK, ServerTypes, LifeType, LateType
  <2> QED BY <2>1, Types, ServerTypesStep, LifeTypeStep, LateTypeStep, CountingStep, HoldingStep,
             AliveStep, DyingStep, PunctualStep, CalmStep, LeasedStep DEF IInv
<1> QED BY InitInv, <1>1, PTL DEF Spec

\* register_instance stays within its types; attempts never passes
\* MAX_RECONNECT_ATTEMPTS.
THEOREM RegistrationTypes == Spec => []TypeOK
<1>1. IInv => TypeOK
  BY DEF IInv
<1> QED BY IInvCorrect, <1>1, PTL

\* Without a fault since its lease was granted, and until a late put of an
\* earlier registration is handled, a server that has put its key stays in
\* the list: requests and sleeps of the keep-alive loop always fit into one
\* lease, for every latency with 2 * Latency + DEFAULT_SLEEP < DEFAULT_TTL.
THEOREM KeepAlivesInTime == Spec => []StaysListed
<1>1. IInv => StaysListed
  BY DEF IInv, Leased, LeasedAt, StaysListed
<1> QED BY IInvCorrect, <1>1, PTL

\* A server that has crashed or quit is out of the list within twice
\* DEFAULT_TTL, whatever requests of it etcd handles after its end.
THEOREM CrashedServersExpire == Spec => []GhostsExpire
<1>1. ASSUME IInv, NEW s \in Listed \ Live PROVE down[s] < 2 * DEFAULT_TTL
  <2>1. s \in Servers /\ key[s] \in Leases
    BY <1>1 DEF IInv, TypeOK, Listed, Leases
  <2>2. life[s][key[s]] \in Nat /\ down[s] \in Nat
    BY <1>1, <2>1, RegistrationAssumption DEF IInv, TypeOK
  <2>3. life[s][key[s]] > 0
    BY <1>1, <2>1, <2>2 DEF IInv, Alive, Listed
  <2>4. life[s][key[s]] + down[s] <= 2 * DEFAULT_TTL
    <3>1. life[s][key[s]] + down[s] <= IF <<"beat", key[s]>> \in late[s] THEN DEFAULT_TTL
                                                                     ELSE 2 * DEFAULT_TTL
      BY <1>1, <2>1 DEF IInv, Dying
    <3> QED BY <2>2, <3>1, RegistrationAssumption
  <2> QED BY <2>2, <2>3, <2>4, RegistrationAssumption
<1>2. IInv => GhostsExpire
  BY <1>1 DEF GhostsExpire
<1> QED BY IInvCorrect, <1>2, PTL

\* register_instance returns only after MAX_RECONNECT_ATTEMPTS connections in
\* a row have failed.
THEOREM QuitsAfterAllAttempts == Spec => []QuitsLast
<1>1. IInv => QuitsLast
  BY DEF IInv, Counting, QuitsLast
<1> QED BY IInvCorrect, <1>1, PTL

\* Every step of the registration loop, of etcd's leases and of the processes
\* is a step of Membership or changes nothing there: nobody is listed whose
\* put is not under way, and no lease of a steady server runs out.
THEOREM RefinesMembership == Spec => ImplementsMembership
<1>1. Init => M!Init
  BY DEF Init, M!Init, Live, Listed, Steady, Pending
<1>2. IInv /\ IInv' /\ [Next]_vars => [M!Next]_(M!vars)
  <2> DEFINE Same == UNCHANGED <<Live, Listed, Steady, Pending>>
  <2> SUFFICES ASSUME IInv, IInv', [Next]_vars PROVE M!Next \/ Same
    BY DEF M!vars
  <2> TypeOK /\ Calm /\ Leased'
    BY DEF IInv
  <2> USE RegistrationAssumption
      DEF TypeOK, Asking, Answering, Registered, Leases, serverVars, etcdVars, boundVars, pastVars
  <2>1. CASE Tick
    <3>1. Live' = Live /\ Steady' = Steady
      BY <2>1 DEF Tick, Live, Steady
    <3>2. Listed' \subseteq Listed
      BY <2>1 DEF Tick, Listed
    <3>3. Pending' \subseteq Pending
      BY <2>1 DEF Tick, Pending
    <3>4. ASSUME NEW s \in Steady PROVE s \in Listed'
      <4>1. s \in Servers /\ s \in calm' /\ pc'[s] \in Registered /\ granted'[s] \in 1..MaxLeases
        <5>1. s \in Servers /\ s \in calm /\ pc[s] \in Registered
          BY <3>4 DEF Steady
        <5>2. granted[s] \in 1..MaxLeases
          BY <5>1 DEF IInv, Holding
        <5> QED BY <2>1, <5>1, <5>2 DEF Tick
      <4>2. key'[s] = granted'[s]
        BY <4>1 DEF Leased, LeasedAt
      <4>3. key'[s] # 0
        BY <4>1, <4>2
      <4> QED BY <4>1, <4>3, Zenon DEF Listed
    <3>5. M!Lapse(Listed \ Listed', Pending \ Pending')
      BY <3>1, <3>2, <3>3, <3>4 DEF M!Lapse
    <3>6. (Listed \ Listed') \in SUBSET Servers /\ (Pending \ Pending') \in SUBSET Servers
      BY DEF Listed, Pending
    <3> QED BY <3>5, <3>6 DEF M!Next
  <2>2. ASSUME NEW s \in Servers, Grant(s) PROVE Same
    <3>1. Live' = Live /\ Listed' = Listed
      BY <2>2 DEF Grant, Live, Listed
    <3>2. Steady' = Steady
      BY <2>2 DEF Grant, Steady
    <3>3. Pending' = Pending
      BY <2>2 DEF Grant, Pending
    <3> QED BY <3>1, <3>2, <3>3
  <2>3. ASSUME NEW s \in Servers, Put(s) PROVE M!Enter(s) \/ M!Falter(s)
    <3>1. s \in Live /\ s \in Pending /\ Live' = Live /\ s \notin Steady
      BY <2>3 DEF Put, Live, Pending, Steady
    <3>2. Pending' \in {Pending, Pending \ {s}}
      <4>1. \A t \in Servers \ {s} : t \in Pending' <=> t \in Pending
        BY <2>3 DEF Put, Reregister, Goto, Pending
      <4> QED BY <4>1, <3>1 DEF Pending
    <3>3. CASE life[s][granted[s]] > 0
      <4>1. Listed' = Listed \cup {s}
        <5>1. granted[s] # 0
          BY <2>3 DEF IInv, Holding, Put
        <5>2. key' = [key EXCEPT ![s] = granted[s]]
          BY <2>3, <3>3 DEF Put
        <5>3. \A t \in Servers : key'[t] # 0 <=> key[t] # 0 \/ t = s
          BY <5>1, <5>2 DEF TypeOK
        <5> QED BY <5>3 DEF Listed
      <4>2. Steady' = Steady \/ Steady' = Steady \cup {s}
        <5>1. calm' = calm /\ pc' = [pc EXCEPT ![s] = "listed"]
          BY <2>3, <3>3 DEF Put
        <5>2. Steady' = {t \in calm : t = s \/ pc[t] \in Registered}
          BY <5>1 DEF Steady
        <5> QED BY <5>2, Zenon DEF Steady
      <4> QED BY <3>1, <3>2, <4>1, <4>2 DEF M!Enter
    <3>4. CASE ~(life[s][granted[s]] > 0)
      <4>1. Listed' = Listed /\ Steady' = Steady
        BY <2>3, <3>4 DEF Put, Reregister, Goto, Listed, Steady
      <4> QED BY <3>1, <3>2, <4>1 DEF M!Falter
    <3> QED BY <3>3, <3>4
  <2>4. ASSUME NEW s \in Servers, KeepAlive(s) PROVE M!Falter(s) \/ Same
    <3>1. Live' = Live /\ Listed' = Listed
      BY <2>4 DEF KeepAlive, Live, Listed
    <3>2. Pending' = Pending
      BY <2>4 DEF KeepAlive, Reregister, Goto, Pending
    <3>3. Steady' = Steady \/ Steady' = Steady \ {s}
      <4>1. CASE life[s][granted[s]] > 0
        <5>1. calm' = calm /\ pc' = [pc EXCEPT ![s] = "beaten"] /\ pc[s] = "beat"
          BY <2>4, <4>1 DEF KeepAlive
        <5>2. \A t \in Servers : pc'[t] \in Registered <=> pc[t] \in Registered
          BY <5>1
        <5> QED BY <5>1, <5>2 DEF Steady
      <4>2. CASE ~(life[s][granted[s]] > 0)
        <5>1. calm' = calm \ {s} /\ pc' = [pc EXCEPT ![s] = "pause"]
          BY <2>4, <4>2 DEF KeepAlive, Reregister, Goto
        <5>2. \A t \in Servers \ {s} : pc'[t] = pc[t]
          BY <5>1
        <5> QED BY <5>1, <5>2 DEF Steady
      <4> QED BY <4>1, <4>2
    <3> QED BY <3>1, <3>2, <3>3 DEF M!Falter
  <2>5. ASSUME NEW s \in Servers, Answered(s) PROVE M!Ask(s) \/ Same
    <3>1. s \in Live /\ Live' = Live /\ Listed' = Listed
      BY <2>5 DEF Answered, Live, Listed
    <3>2. Steady' = Steady
      BY <2>5 DEF Answered, Goto, Steady
    <3>3. Pending' = Pending \/ Pending' = Pending \cup {s}
      <4>1. \A t \in Servers \ {s} : t \in Pending' <=> t \in Pending
        BY <2>5 DEF Answered, Goto, Pending
      <4>2. s \in Pending => s \in Pending'
        BY <2>5 DEF Answered, Goto, Pending
      <4>3. Pending \subseteq Servers /\ Pending' \subseteq Servers
        BY DEF Pending
      <4> HIDE DEF Pending
      <4>4. CASE s \in Pending' \ Pending
        <5>1. Pending' = Pending \cup {s}
          BY <4>1, <4>3, <4>4
        <5> QED BY <5>1
      <4>5. CASE s \notin Pending' \ Pending
        <5>1. Pending' = Pending
          <6>1. \A t \in Servers : t \in Pending' <=> t \in Pending
            BY <4>1, <4>2, <4>5, Zenon
          <6> QED BY <4>3, <6>1, Zenon
        <5> QED BY <5>1
      <4> QED BY <4>4, <4>5
    <3> QED BY <3>1, <3>2, <3>3 DEF M!Ask
  <2>6. ASSUME NEW s \in Servers, WakeUp(s) PROVE M!Falter(s) \/ Same
    <3>1. Listed' = Listed /\ Live' \in {Live, Live \ {s}}
      BY <2>6 DEF WakeUp, Quit, Live, Listed
    <3>2. CASE pc[s] = "sleep"
      <4>1. Live' = Live /\ Steady' = Steady /\ Pending' = Pending
        BY <2>6, <3>2 DEF WakeUp, Goto, Live, Steady, Pending
      <4> QED BY <3>1, <4>1
    <3>3. CASE pc[s] = "pause"
      <4>1. Steady' = Steady /\ s \notin Steady
        BY <2>6, <3>3 DEF WakeUp, Quit, Goto, Steady
      <4>2. Pending' = Pending
        BY <2>6, <3>3 DEF WakeUp, Quit, Goto, Pending
      <4> QED BY <3>1, <4>1, <4>2 DEF M!Falter
    <3> QED BY <2>6, <3>2, <3>3 DEF WakeUp
  <2>7. ASSUME NEW s \in Servers, Fail(s) PROVE M!Falter(s)
    <3>1. Live' = Live /\ Listed' = Listed
      BY <2>7 DEF Fail, Live, Listed
    <3>2. Steady' = Steady \ {s}
      BY <2>7 DEF Fail, Reregister, Goto, Steady
    <3>3. \A t \in Servers \ {s} : t \in Pending' <=> t \in Pending
      BY <2>7 DEF Fail, Reregister, Goto, Abandon, Pending
    <3>4. s \in Pending' => s \in Pending
      BY <2>7 DEF Fail, Reregister, Goto, Abandon, Pending
    <3>5. Pending' \in {Pending, Pending \ {s}}
      BY <3>3, <3>4 DEF Pending
    <3> QED BY <3>1, <3>2, <3>5 DEF M!Falter
  <2>8. ASSUME NEW s \in Servers, Delay(s) PROVE M!Falter(s)
    <3>1. Live' = Live /\ Listed' = Listed /\ Pending' = Pending
      BY <2>8 DEF Delay, Live, Listed, Pending
    <3>2. Steady' = Steady \ {s}
      BY <2>8 DEF Delay, Steady
    <3> QED BY <3>1, <3>2 DEF M!Falter
  <2>9. ASSUME NEW s \in Servers, Start(s) PROVE M!Start(s)
    <3>1. s \notin Live /\ Live' = Live \cup {s} /\ Listed' = Listed
      BY <2>9 DEF Start, Live, Listed
    <3>2. Steady' = Steady
      BY <2>9 DEF Calm, Start, Goto, Steady
    <3>3. Pending' = Pending
      BY <2>9 DEF Start, Goto, Pending
    <3> QED BY <3>1, <3>2, <3>3 DEF M!Start
  <2>10. ASSUME NEW s \in Servers, Crash(s) PROVE M!Falter(s)
    <3>1. Live' = Live \ {s} /\ Listed' = Listed
      BY <2>10 DEF Crash, Live, Listed
    <3>2. Steady' = Steady \ {s}
      BY <2>10 DEF Crash, Steady
    <3>3. \A t \in Servers \ {s} : t \in Pending' <=> t \in Pending
      BY <2>10 DEF Crash, Abandon, Pending
    <3>4. s \in Pending' => s \in Pending
      BY <2>10 DEF Crash, Abandon, Pending
    <3>5. Pending' \in {Pending, Pending \ {s}}
      BY <3>3, <3>4 DEF Pending
    <3> QED BY <3>1, <3>2, <3>5 DEF M!Falter
  <2>11. ASSUME NEW s \in Servers, NEW n \in Leases, Late(s, "put", n) PROVE M!Enter(s)
    <3>1. s \in Pending /\ Live' = Live /\ Listed' = Listed \cup {s}
      <4>1. s \in Pending /\ Live' = Live
        BY <2>11 DEF Late, Live, Pending
      <4>2. key' = [key EXCEPT ![s] = n] /\ n # 0
        BY <2>11 DEF Late
      <4> QED BY <4>1, <4>2 DEF Listed
    <3>2. Steady' = Steady \ {s}
      BY <2>11 DEF Late, Steady
    <3>3. \A t \in Servers \ {s} : t \in Pending' <=> t \in Pending
      BY <2>11 DEF Late, Pending
    <3>4. Pending' \in {Pending, Pending \ {s}}
      BY <3>1, <3>3 DEF Pending
    <3> QED BY <3>1, <3>2, <3>4 DEF M!Enter
  <2>12. ASSUME NEW s \in Servers, NEW n \in Leases, Late(s, "beat", n) PROVE Same
    <3>1. Live' = Live /\ Listed' = Listed /\ Steady' = Steady
      BY <2>12 DEF Late, Live, Listed, Steady
    <3>2. Pending' = Pending
      BY <2>12 DEF Late, Pending
    <3> QED BY <3>1, <3>2
  <2>13. CASE UNCHANGED vars
    BY <2>13 DEF vars, Live, Listed, Steady, Pending
  <2> QED
    BY <2>1, <2>2, <2>3, <2>4, <2>5, <2>6, <2>7, <2>8, <2>9, <2>10, <2>11, <2>12, <2>13
       DEF Next, Step, M!Next
<1> QED BY <1>1, <1>2, IInvCorrect, PTL DEF Spec, ImplementsMembership, M!Spec
=============================================================================
