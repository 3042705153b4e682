---------------------------- MODULE Registration ----------------------------
(***************************************************************************)
(* How a queue server keeps its address in etcd: register_instance of      *)
(* sonya/src/service_discovery/etcd.rs, started by main, with etcd's       *)
(* leases.  A server has one key, given by its instance_id; one that comes *)
(* back under a random id is another server here.                          *)
(*                                                                         *)
(* Time is discrete.  A request to etcd takes effect some time after it is *)
(* sent and is answered some time after that, within Latency in all unless *)
(* a fault slows it down.  A request that has failed for the server, or    *)
(* whose server is gone, may still be on its way: etcd handles it late, or *)
(* never.  The steps of a server are instantaneous, and time does not pass *)
(* a moment at which a server has to act.                                  *)
(***************************************************************************)
EXTENDS Integers

CONSTANTS Servers,        \* instance ids
          Second,         \* ticks per second
          Latency,        \* of a request, without a fault
          MaxReconnects,  \* MAX_RECONNECT_ATTEMPTS (10 in the code)
          MaxFaults,      \* bound: failures and delays
          MaxStarts,      \* bound: processes started
          MaxLeases       \* bound: leases granted to a server

DEFAULT_TTL == 5 * Second

DEFAULT_SLEEP == 2 * Second

ASSUME RegistrationAssumption ==
  /\ Second \in Nat \ {0} /\ Latency \in Nat
  /\ MaxReconnects \in Nat \ {0} /\ MaxFaults \in Nat /\ MaxStarts \in Nat
  /\ MaxLeases \in Nat

\* Two requests and the sleep between them fit into the life of a lease.
ASSUME LatencyAssumption == 2 * Latency + DEFAULT_SLEEP < DEFAULT_TTL

\* sleep_between_reconnects: whole seconds of the root of 1.5 * attempts.
Pause(n) ==
  Second * (CHOOSE k \in 0..n : k * k <= (3 * n) \div 2 /\ (3 * n) \div 2 < (k + 1) * (k + 1))

VARIABLES
  run,       \* the process: off, up, crashed, or quit after giving up
  pc,        \* where register_instance stands
  attempts,  \* its variable
  clock,     \* the age of the request or sleep it is in
  slow,      \* servers whose current request has no time limit
  granted,   \* the leases granted so far; the last is the one it holds
  life,      \* what is left of each
  key,       \* the lease that its key in etcd hangs on, 0 without a key
  late,      \* <<kind, lease>>: requests that nobody waits for any more
  faults, starts

\* History variables: no action reads them.
VARIABLES
  calm,      \* servers with no fault since their lease was granted
  failed,    \* connections that failed in a row
  astray,    \* servers whose key a late put has moved to an earlier lease
  down       \* ticks since the process ended

serverVars == <<run, pc, attempts, slow>>
etcdVars == <<granted, life, key, late>>
boundVars == <<faults, starts>>
pastVars == <<calm, failed, astray, down>>
vars == <<serverVars, clock, etcdVars, boundVars, pastVars>>

\* A request is under way; etcd has handled it, and the answer is under way.
Asking == {"connect", "grant", "put", "beat"}
Answering == {"granted", "listed", "beaten"}

\* The keep-alive loop.
Registered == {"listed", "beat", "beaten", "sleep"}

Leases == 1..MaxLeases

\* The types of the state.
TypeOK ==
  /\ run \in [Servers -> {"off", "up", "crashed", "quit"}]
  /\ pc \in [Servers -> Asking \cup Answering \cup {"sleep", "pause"}]
  /\ attempts \in [Servers -> 0..MaxReconnects]
  /\ clock \in [Servers -> Nat]
  /\ slow \subseteq Servers
  /\ granted \in [Servers -> 0..MaxLeases]
  /\ life \in [Servers -> [Leases -> 0..DEFAULT_TTL]]
  /\ key \in [Servers -> 0..MaxLeases]
  /\ late \in [Servers -> SUBSET ({"put", "beat"} \X Leases)]
  /\ faults \in 0..MaxFaults /\ starts \in 0..MaxStarts
  /\ calm \subseteq Servers
  /\ failed \in [Servers -> Nat]
  /\ astray \subseteq Servers
  /\ down \in [Servers -> 0..2 * DEFAULT_TTL]

Init ==
  /\ run = [s \in Servers |-> "off"]
  /\ pc = [s \in Servers |-> "connect"]
  /\ attempts = [s \in Servers |-> 0]
  /\ clock = [s \in Servers |-> 0]
  /\ slow = {}
  /\ granted = [s \in Servers |-> 0]
  /\ life = [s \in Servers |-> [n \in Leases |-> 0]]
  /\ key = [s \in Servers |-> 0]
  /\ late = [s \in Servers |-> {}]
  /\ faults = 0 /\ starts = 0
  /\ calm = {} /\ astray = {}
  /\ failed = [s \in Servers |-> 0]
  /\ down = [s \in Servers |-> 0]

Listed == {s \in Servers : key[s] # 0}
Live == {s \in Servers : run[s] = "up"}

-----------------------------------------------------------------------------
(* Time.                                                                    *)

\* The age at which s must have moved on.
Limit(s) ==
  CASE pc[s] = "sleep" -> DEFAULT_SLEEP
    [] pc[s] = "pause" -> Pause(attempts[s])
    [] OTHER -> Latency

Due(s) == run[s] = "up" /\ clock[s] >= Limit(s)

Less(n) == IF n > 0 THEN n - 1 ELSE 0

\* Mutant of Lapses: the put does not name the lease.
LapsesNever(s) == FALSE

\* The key was put with a lease, and goes with it.
Lapses(s) == key[s] # 0 /\ life[s][key[s]] <= 1

\* A tick: clocks run, leases run out, and a lease that runs out takes the
\* key that hangs on it; a request on it would be an error from now on.
\* Clocks that nobody waits for stand still.
Tick ==
  /\ \A s \in Servers : Due(s) => s \in slow
  /\ clock' = [s \in Servers |-> IF run[s] = "up" /\ ~Due(s) THEN clock[s] + 1
                                                             ELSE clock[s]]
  /\ life' = [s \in Servers |-> [n \in Leases |-> Less(life[s][n])]]
  /\ key' = [s \in Servers |-> IF Lapses(s) THEN 0 ELSE key[s]]
  /\ late' = [s \in Servers |-> {x \in late[s] : life[s][x[2]] > 1}]
  /\ down' = [s \in Servers |-> IF s \notin Live /\ down[s] < 2 * DEFAULT_TTL
                                THEN down[s] + 1 ELSE down[s]]
  /\ UNCHANGED <<serverVars, granted, boundVars, calm, failed, astray>>

-----------------------------------------------------------------------------
(* register_instance                                                        *)

Goto(s, at) ==
  /\ pc' = [pc EXCEPT ![s] = at]
  /\ clock' = [clock EXCEPT ![s] = 0]
  /\ slow' = slow \ {s}

\* The error returns of register_instance_impl: attempts = 0 and once more.
Reregister(s) ==
  /\ attempts' = [attempts EXCEPT ![s] = 0]
  /\ calm' = calm \ {s}
  /\ Goto(s, "pause")

\* etcd gives the lease.  A key put before hangs on an earlier one.
Grant(s) ==
  LET n == granted[s] + 1
  IN  /\ run[s] = "up" /\ pc[s] = "grant" /\ granted[s] < MaxLeases
      /\ pc' = [pc EXCEPT ![s] = "granted"]
      /\ granted' = [granted EXCEPT ![s] = n]
      /\ life' = [life EXCEPT ![s][n] = DEFAULT_TTL]
      /\ calm' = IF s \in slow THEN calm ELSE calm \cup {s}
      /\ UNCHANGED <<run, attempts, slow, clock, key, late, boundVars, failed, astray, down>>

\* put with the lease; an unknown lease is an error.
Put(s) ==
  /\ run[s] = "up" /\ pc[s] = "put"
  /\ IF life[s][granted[s]] > 0
     THEN /\ pc' = [pc EXCEPT ![s] = "listed"]
          /\ key' = [key EXCEPT ![s] = granted[s]]
          /\ astray' = astray \ {s}
          /\ UNCHANGED <<attempts, slow, clock, calm>>
     ELSE Reregister(s) /\ UNCHANGED <<key, astray>>
  /\ UNCHANGED <<run, granted, life, late, boundVars, failed, down>>

\* Mutant of KeepAlive: its error is not looked at.
KeepAliveIgnored(s) ==
  LET n == granted[s]
  IN  /\ run[s] = "up" /\ pc[s] = "beat"
      /\ pc' = [pc EXCEPT ![s] = "beaten"]
      /\ life' = [life EXCEPT ![s][n] = IF @ > 0 THEN DEFAULT_TTL ELSE 0]
      /\ UNCHANGED <<run, attempts, slow, clock, granted, key, late, boundVars, pastVars>>

\* lease_keep_alive refreshes the lease, or does not find it.
KeepAlive(s) ==
  LET n == granted[s]
  IN  /\ run[s] = "up" /\ pc[s] = "beat"
      /\ IF life[s][n] > 0
         THEN /\ pc' = [pc EXCEPT ![s] = "beaten"]
              /\ life' = [life EXCEPT ![s][n] = DEFAULT_TTL]
              /\ UNCHANGED <<attempts, slow, clock, calm>>
         ELSE Reregister(s) /\ UNCHANGED life
      /\ UNCHANGED <<run, granted, key, late, boundVars, failed, astray, down>>

\* Mutant of Answered: no keep-alive, the server sleeps after the put.
AnsweredOnce(s) ==
  /\ run[s] = "up" /\ pc[s] \in Answering \cup {"connect"}
  /\ Goto(s, CASE pc[s] = "connect" -> "grant" [] pc[s] = "granted" -> "put"
               [] OTHER -> "listed")
  /\ failed' = [failed EXCEPT ![s] = 0]
  /\ UNCHANGED <<run, attempts, etcdVars, boundVars, calm, astray, down>>

\* The answer comes, and the next request is sent at once; after a
\* keep-alive the server sleeps.
Answered(s) ==
  /\ run[s] = "up" /\ pc[s] \in Answering \cup {"connect"}
  /\ Goto(s, CASE pc[s] = "connect" -> "grant"
               [] pc[s] = "granted" -> "put"
               [] pc[s] = "listed" -> "beat"
               [] pc[s] = "beaten" -> "sleep")
  /\ failed' = [failed EXCEPT ![s] = 0]
  /\ UNCHANGED <<run, attempts, etcdVars, boundVars, calm, astray, down>>

\* The server no longer waits for its request.  A put or keep-alive that etcd
\* has not handled yet is still on its way; a grant would go unnoticed.
Abandon(s) ==
  late' = [late EXCEPT ![s] =
             IF pc[s] \in {"put", "beat"} /\ life[s][granted[s]] > 0
             THEN @ \cup {<<pc[s], granted[s]>>} ELSE @]

\* A request fails, whether or not etcd has handled it or ever will.  Only
\* Client::connect counts.
Fail(s) ==
  /\ run[s] = "up" /\ pc[s] \in Asking \cup Answering
  /\ faults < MaxFaults
  /\ faults' = faults + 1
  /\ IF pc[s] = "connect"
     THEN /\ attempts' = [attempts EXCEPT ![s] = @ + 1]
          /\ failed' = [failed EXCEPT ![s] = @ + 1]
          /\ UNCHANGED calm
          /\ Goto(s, "pause")
     ELSE Reregister(s) /\ UNCHANGED failed
  /\ Abandon(s)
  /\ UNCHANGED <<run, granted, life, key, starts, astray, down>>

\* Mutants of WakeUp: one failure too early; and never.
WakeUpEarly(s) ==
  /\ run[s] = "up" /\ pc[s] \in {"sleep", "pause"} /\ clock[s] >= Limit(s)
  /\ IF pc[s] = "pause" /\ attempts[s] + 1 >= MaxReconnects
     THEN /\ run' = [run EXCEPT ![s] = "quit"]
          /\ UNCHANGED <<pc, clock, slow>>
     ELSE /\ Goto(s, IF pc[s] = "sleep" THEN "beat" ELSE "connect")
          /\ UNCHANGED run
  /\ UNCHANGED <<attempts, etcdVars, boundVars, pastVars>>

WakeUpAlways(s) ==
  /\ run[s] = "up" /\ pc[s] \in {"sleep", "pause"} /\ clock[s] >= Limit(s)
  /\ Goto(s, IF pc[s] = "sleep" THEN "beat" ELSE "connect")
  /\ UNCHANGED <<run, attempts, etcdVars, boundVars, pastVars>>

\* register_instance has returned, and main with it: the server is down.
Quit(s) == run' = [run EXCEPT ![s] = "quit"] /\ UNCHANGED <<pc, clock, slow>>

\* A sleep is over.  register_instance returns at the last attempt.
WakeUp(s) ==
  /\ run[s] = "up" /\ pc[s] \in {"sleep", "pause"} /\ clock[s] >= Limit(s)
  /\ IF pc[s] = "pause" /\ attempts[s] = MaxReconnects
     THEN Quit(s)
     ELSE /\ Goto(s, IF pc[s] = "sleep" THEN "beat" ELSE "connect")
          /\ UNCHANGED run
  /\ UNCHANGED <<attempts, etcdVars, boundVars, pastVars>>

-----------------------------------------------------------------------------
(* Faults and processes.                                                    *)

\* A request is slower than Latency.
Delay(s) ==
  /\ run[s] = "up" /\ pc[s] \in Asking \cup Answering /\ s \notin slow
  /\ faults < MaxFaults
  /\ faults' = faults + 1
  /\ slow' = slow \cup {s}
  /\ calm' = calm \ {s}
  /\ UNCHANGED <<run, pc, attempts, clock, etcdVars, starts, failed, astray, down>>

\* main spawns register_instance, which runs once main waits: after the bind.
Start(s) ==
  /\ run[s] # "up" /\ starts < MaxStarts
  /\ starts' = starts + 1
  /\ run' = [run EXCEPT ![s] = "up"]
  /\ attempts' = [attempts EXCEPT ![s] = 0]
  /\ Goto(s, "connect")
  /\ failed' = [failed EXCEPT ![s] = 0]
  /\ down' = [down EXCEPT ![s] = 0]
  /\ UNCHANGED <<etcdVars, faults, calm, astray>>

\* The process dies, and nobody keeps the lease alive.
Crash(s) ==
  /\ run[s] = "up" /\ faults < MaxFaults
  /\ faults' = faults + 1
  /\ run' = [run EXCEPT ![s] = "crashed"]
  /\ calm' = calm \ {s}
  /\ Abandon(s)
  /\ UNCHANGED <<pc, attempts, slow, clock, granted, life, key, starts, failed, astray, down>>

\* etcd handles a request that nobody waits for.
Late(s, kind, n) ==
  /\ <<kind, n>> \in late[s]
  /\ late' = [late EXCEPT ![s] = @ \ {<<kind, n>>}]
  /\ IF kind = "put"
     THEN /\ key' = [key EXCEPT ![s] = n]
          /\ calm' = calm \ {s}
          /\ astray' = IF n < granted[s] THEN astray \cup {s} ELSE astray
          /\ UNCHANGED life
     ELSE /\ life' = [life EXCEPT ![s][n] = DEFAULT_TTL]
          /\ UNCHANGED <<key, calm, astray>>
  /\ UNCHANGED <<serverVars, clock, granted, boundVars, failed, down>>

-----------------------------------------------------------------------------
Step(s) == Grant(s) \/ Put(s) \/ KeepAlive(s) \/ Answered(s) \/ WakeUp(s)

Next ==
  \/ Tick
  \/ \E s \in Servers : Step(s) \/ Fail(s) \/ Delay(s) \/ Start(s) \/ Crash(s)
  \/ \E s \in Servers, n \in Leases : Late(s, "put", n) \/ Late(s, "beat", n)

\* Time passes, requests are answered, and a server that can go on does.
Fairness == WF_vars(Tick) /\ \A s \in Servers : WF_vars(Step(s))

Spec == Init /\ [][Next]_vars
FairSpec == Spec /\ Fairness

-----------------------------------------------------------------------------
(* Properties.                                                              *)

\* The keep-alives are in time: without a fault since its lease was granted,
\* and as long as no late put of an earlier registration is handled, a server
\* that has put its key stays in the list, on that lease.
StaysListed == \A s \in calm : pc[s] \in Registered => key[s] = granted[s]

\* A server that is gone, at whatever point of its registration and whatever
\* requests of it were still on their way, is in the list for less than two
\* DEFAULT_TTL: a lease can be refreshed once more, by the keep-alive that
\* was under way, but not twice.
GhostsExpire == \A s \in Listed \ Live : down[s] < 2 * DEFAULT_TTL

\* register_instance returns, and takes the server down, only after
\* MAX_RECONNECT_ATTEMPTS connections in a row have failed.
QuitsLast == \A s \in Servers : run[s] = "quit" => failed[s] = MaxReconnects

\* Once faults stop, a server that is up is in the list for good, unless a
\* late put has moved its key to a lease that it does not keep alive: the
\* keep-alives go on without an error, and nobody puts the key again.
Settles ==
  \A s \in Servers : <>[](run[s] = "up" /\ s \notin astray => key[s] # 0)

Steady == {s \in calm : pc[s] \in Registered}

Pending ==
  {s \in Servers : \/ run[s] = "up" /\ pc[s] = "put"
                   \/ \E n \in Leases : <<"put", n>> \in late[s]}

M == INSTANCE Membership
       WITH live <- Live, listed <- Listed, steady <- Steady, pending <- Pending

\* The registration loop implements the membership that readers of etcd rely
\* on: nobody enters the list whose put is not under way, and who is steady
\* leaves it only after a fault.
ImplementsMembership == M!Spec

\* Nobody stays out of the list, or in it, in the wrong: who runs and is not
\* astray gets in, who is gone drops out.
MembershipCorrected ==
  \A s \in Servers :
    /\ s \in Live \ Listed ~> s \notin Live \/ s \in Listed \cup astray
    /\ s \in Listed \ Live ~> s \notin Listed \ Live
=============================================================================
