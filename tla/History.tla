------------------------------ MODULE History ------------------------------
(***************************************************************************)
(* The stored history of one queue: a sled tree whose keys are the bytes   *)
(* of the message id followed by the sequence as a big-endian u64          *)
(* (get_id, sonya/src/queue/map.rs).  A tree is a set of messages with at  *)
(* most one message per key; the scans of map.rs are operators on it.      *)
(*                                                                         *)
(* Ids are compared as byte strings.  What the code can tell apart of them *)
(* is kept as two constants: which ids start with a given id, and their    *)
(* lexicographic order.                                                    *)
(***************************************************************************)
EXTENDS Integers, FiniteSets

CONSTANTS Ids,      \* the message ids
          Extends,  \* Extends[i]: the ids whose bytes start with i
          IdRank,   \* the position of an id in lexicographic order
          U64Max,   \* u64::MAX
          NoId      \* a subscription to the whole queue

ASSUME IdsAssumption ==
  /\ NoId \notin Ids
  /\ Extends \in [Ids -> SUBSET Ids]
  /\ IdRank \in [Ids -> Nat]
  /\ \A i \in Ids : i \in Extends[i]
  /\ \A i, j \in Ids : i # j => IdRank[i] # IdRank[j]
  /\ \A i, j \in Ids : j \in Extends[i] => IdRank[i] <= IdRank[j]

ASSUME U64Assumption == U64Max \in Nat /\ U64Max > 1

\* A message that has its sequence (a NonZeroU64).  uid stands for the
\* payload: it tells one send request from another.
Message == [id : Ids, seq : 1..U64Max, uid : Nat]

\* What a message is stored under.
Keys == Ids \X (1..U64Max)
KeyOf(m) == <<m.id, m.seq>>

-----------------------------------------------------------------------------
(* The value of the query parameter `sequence`.                             *)
Froms == [at : {"none", "first", "last"}, seq : {0}]
           \cup [at : {"id"}, seq : 1..U64Max]

NoFrom == [at |-> "none", seq |-> 0]

\* A raw parameter is absent, one of the two words, a number, or junk.
\* SequenceVisitor takes the words and the positive numbers of a u64.
deserialize(raw) ==
  CASE raw.word \in {"first", "last"} -> [at |-> raw.word, seq |-> 0]
    [] raw.word = "number" /\ raw.n \in 1..U64Max -> [at |-> "id", seq |-> raw.n]
    [] raw.word = "absent" -> NoFrom
    [] OTHER -> [at |-> "error", seq |-> 0]

\* unwrap_or_default: a parameter that does not parse counts as not given.
get_sequence_from_req(raw) ==
  IF deserialize(raw).at = "error" THEN NoFrom ELSE deserialize(raw)

-----------------------------------------------------------------------------
(* Key order.                                                               *)

\* The order of the keys get_id(m.id, m.seq) and get_id(n.id, n.seq).  When
\* one id is a proper prefix of the other, the first byte of the shorter
\* id's sequence meets a character of the longer id: a real sequence starts
\* with a zero byte and is smaller, u64::MAX starts with 0xff, which no
\* UTF-8 text contains, and is larger.
Precedes(m, n) ==
  IF m.id = n.id THEN m.seq < n.seq
  ELSE IF n.id \in Extends[m.id] THEN m.seq # U64Max
  ELSE IF m.id \in Extends[n.id] THEN n.seq = U64Max
  ELSE IdRank[m.id] < IdRank[n.id]

GreatestOf(S) == {m \in S : \A n \in S \ {m} : Precedes(n, m)}

\* sled's Tree::scan_prefix: every key whose bytes start with id.
scan_prefix(tree, id) == {m \in tree : m.id \in Extends[id]}

-----------------------------------------------------------------------------
(* What a subscriber is given of the past.                                  *)

extract_sequences(tree, from, id) ==
  CASE from.at = "id" ->
         {m \in tree : /\ ~Precedes(m, [id |-> id, seq |-> from.seq])
                       /\ Precedes(m, [id |-> id, seq |-> U64Max])}
    [] from.at = "last"  -> GreatestOf(scan_prefix(tree, id))
    [] from.at = "first" -> scan_prefix(tree, id)
    [] from.at = "none"  -> {}

\* For "last" a map from id to message is filled in key order: the greatest
\* sequence of each id stays.
get_prev_all_items(tree, from) ==
  CASE from.at = "id"    -> {m \in tree : m.seq >= from.seq}
    [] from.at = "last"  -> {m \in tree : \A n \in tree :
                                n.id = m.id => n.seq <= m.seq}
    [] from.at = "first" -> tree
    [] from.at = "none"  -> {}

get_prev_items(tree, from, id) ==
  IF id = NoId THEN get_prev_all_items(tree, from)
               ELSE extract_sequences(tree, from, id)

\* The order in which prev_items is yielded: key order, except that the map
\* of the queue-wide "last" is ordered by id alone.
YieldedBefore(from, m, n) ==
  IF from.at = "last" THEN IdRank[m.id] < IdRank[n.id] ELSE Precedes(m, n)

-----------------------------------------------------------------------------
(* What a send does to the past.                                            *)

\* Tree::insert replaces the value under the same key.
InsertInto(tree, m) == {n \in tree : KeyOf(n) # KeyOf(m)} \cup {m}

\* Mutants of Surplus: skip(m - 2) keeps one version too few, skip(m + 1)
\* one too many; and only the oldest version is removed.
SurplusTooSoon(tree, id, max) ==
  LET S == scan_prefix(tree, id)
  IN  {KeyOf(m) : m \in {x \in S :
         Cardinality({y \in S : Precedes(x, y)}) >= max - 2}}

SurplusTooLate(tree, id, max) ==
  LET S == scan_prefix(tree, id)
  IN  {KeyOf(m) : m \in {x \in S :
         Cardinality({y \in S : Precedes(x, y)}) >= max + 1}}

SurplusOldest(tree, id, max) ==
  LET S == scan_prefix(tree, id)
  IN  {KeyOf(m) : m \in {x \in S :
         /\ Cardinality({y \in S : Precedes(x, y)}) >= max - 1
         /\ \A y \in S \ {x} : Precedes(x, y)}}

\* The keys a trim removes: scan_prefix(id).rev().skip(m - 1).
Surplus(tree, id, max) ==
  LET S == scan_prefix(tree, id)
  IN  {KeyOf(m) : m \in {x \in S :
         Cardinality({y \in S : Precedes(x, y)}) >= max - 1}}

RemoveKeys(tree, keys) == {m \in tree : KeyOf(m) \notin keys}

\* Mutant of NextSequence: the closure writes back what it read.
NextSequenceStuck(v) == IF v = 0 THEN 1 ELSE v

\* The closure of update_and_fetch in generate_next_id: an absent counter
\* and one at u64::MAX (checked_add) both become 1.
NextSequence(v) == IF v \in {0, U64Max} THEN 1 ELSE v + 1
=============================================================================
