------------------------------- MODULE MCQueue ------------------------------
(***************************************************************************)
(* Values for the constants of Queue.  Ids are strings, so that "a" and    *)
(* "ab" show which one extends the other.                                  *)
(***************************************************************************)
EXTENDS QueueProps, TLC

\* Ids none of which starts with another.
Unrelated == [i \in Ids |-> {i}]

\* "ab" starts with "a".
Nested == [i \in Ids |-> IF i = "a" THEN {"a", "ab"} \cap Ids ELSE {i}]

Lexicographic == [i \in Ids |-> CASE i = "a" -> 1 [] i = "ab" -> 2 [] i = "b" -> 3]

\* queue_name ++ id, distinct for every pair.
DistinctKeys == [p \in Queues \X Ids |-> p]

Absent == [word |-> "absent", n |-> 0]
First == [word |-> "first", n |-> 0]
Last == [word |-> "last", n |-> 0]
Number(n) == [word |-> "number", n |-> n]

\* Every form of the parameter; 0 is refused and forgotten.
AnyParam == {Absent, First, Last, Number(0), Number(2)}
FromOne == {Number(1)}
LastOrTwo == {Last, Number(2)}
NoneOrLast == {Absent, Number(0), Last}

Symmetric == Permutations(Threads)
=============================================================================
