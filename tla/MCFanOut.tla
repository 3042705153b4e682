------------------------------ MODULE MCFanOut ------------------------------
(***************************************************************************)
(* FanOut for TLC: numbers for shards and ids, and a stand-in for Maglev   *)
(* that spreads the ids over the ring and moves them when it changes.      *)
(***************************************************************************)
EXTENDS FanOut

Spread(R, i) ==
  IF i \in R THEN i ELSE CHOOSE s \in R : \A t \in R : s <= t

\* Long polls that ask for the history; without any they wait.
FromFirst == {o \in Ops : o.kind = "poll" => o.past}

Mix(send, create, delete, close) ==
  [k \in Diagonal \cup {"send", "poll"} |->
     CASE k = "send" -> send [] k = "create" -> create
       [] k = "delete" -> delete [] k = "close" -> close [] OTHER -> 1]

\* One long poll with two messages and a delete or a close, or with one message
\* and a create and a close.
SomeMixes == {Mix(2, 0, 1, 0), Mix(2, 0, 0, 1), Mix(1, 1, 0, 1)}
=============================================================================
