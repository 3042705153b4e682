----------------------------- MODULE Membership -----------------------------
(***************************************************************************)
(* What the registration of queue servers promises to those who read the   *)
(* members from etcd.  A server enters the list when a put of it is        *)
(* handled, which may be after it is gone or has asked again; one whose    *)
(* put it has waited for is steady, and does not leave the list before     *)
(* something goes wrong with it.                                           *)
(***************************************************************************)
CONSTANT Servers

VARIABLES live,     \* the servers that run
          listed,   \* the servers under the etcd prefix
          steady,   \* those that can rely on being listed
          pending   \* those with a put under way

vars == <<live, listed, steady, pending>>

Init == live = {} /\ listed = {} /\ steady = {} /\ pending = {}

Start(s) == s \notin live /\ live' = live \cup {s} /\ UNCHANGED <<listed, steady, pending>>

Ask(s) == s \in live /\ pending' = pending \cup {s} /\ UNCHANGED <<live, listed, steady>>

\* A put is handled.  Only a server that waits for it is steady from then on.
Enter(s) ==
  /\ s \in pending /\ listed' = listed \cup {s}
  /\ pending' \in {pending, pending \ {s}}
  /\ steady' = steady \ {s} \/ (s \in live /\ steady' = steady \cup {s})
  /\ UNCHANGED live

\* Something goes wrong; a put that failed may still be under way.
Falter(s) ==
  /\ steady' = steady \ {s}
  /\ live' \in {live, live \ {s}}
  /\ pending' \in {pending, pending \ {s}}
  /\ UNCHANGED listed

\* Leases run out: of servers that are listed, and of puts under way.
Lapse(S, P) ==
  /\ S \subseteq listed \ steady /\ listed' = listed \ S
  /\ P \subseteq pending /\ pending' = pending \ P
  /\ UNCHANGED <<live, steady>>

Next ==
  \/ \E s \in Servers : Start(s) \/ Ask(s) \/ Enter(s) \/ Falter(s)
  \/ \E S, P \in SUBSET Servers : Lapse(S, P)

Spec == Init /\ [][Next]_vars
=============================================================================
