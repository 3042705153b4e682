----------------------------- MODULE MCDiscovery ----------------------------
(***************************************************************************)
(* Values for the constants of Discovery.  Shards are numbers, so that a   *)
(* fixed rule stands for the Maglev table.                                 *)
(***************************************************************************)
EXTENDS Discovery

\* The key of the single-shard clients goes to the lowest address.
Lowest == [S \in Lists \ {{}} |-> CHOOSE s \in S : \A x \in S : s <= x]

One == {{1}}
=============================================================================
