-------------------------- MODULE Retention_proofs --------------------------
(***************************************************************************)
(* Proofs about what the trees keep: max_key_updates bounds the versions   *)
(* of an id, and nothing newer than that is lost.                          *)
(***************************************************************************)
EXTENDS Queue_proofs

USE DEF ThreadPC, ConnPC, Sequenced, sledVars, chanVars, procVars, sendVars,
        connVars, reqVars, pastVars, seenVars

-----------------------------------------------------------------------------
(* What the scan of a trim leaves.                                          *)

\* A set of numbers that is not empty has a least one.
LEMMA LeastNumber ==
  ASSUME NEW S \in SUBSET Nat, S # {}
  PROVE  \E x \in S : \A y \in S : x <= y
<1>1. PICK x \in S : \A y \in S : ~(<<y, x>> \in OpToRel(<, Nat))
  BY NatLessThanWellFounded, WFMin, Zenon
<1>2. \A y \in S : ~(y < x)
  BY <1>1 DEF OpToRel
<1> QED BY <1>2

\* Of messages with different sequences, no more than n have fewer than n
\* newer ones.
LEMMA FewNewest ==
  ASSUME NEW V \in SUBSET Sent, IsFiniteSet(V), NEW n \in Nat,
         \A x, y \in V : x.seq = y.seq => x = y
  PROVE  Cardinality({x \in V : Cardinality({y \in V : y.seq > x.seq}) < n}) <= n
<1> DEFINE Newer(x) == {y \in V : y.seq > x.seq}
           K == {x \in V : Cardinality(Newer(x)) < n}
<1>1. \A x \in V : x.seq \in Nat
  BY U64Assumption DEF Sent
<1>2. IsFiniteSet(K) /\ Cardinality(K) \in Nat
  <2>1. K \in SUBSET V
    OBVIOUS
  <2> HIDE DEF K
  <2>2. IsFiniteSet(K)
    BY <2>1, FS_Subset
  <2> QED BY <2>2, FS_CardinalityType
<1>3. CASE K = {}
  <2> HIDE DEF K
  <2>1. Cardinality(K) <= n
    BY <1>3, FS_EmptySet
  <2> QED BY <2>1 DEF K
<1>4. CASE K # {}
  <2>1. PICK x \in K : \A y \in K : x.seq <= y.seq
    <3> DEFINE S == {y.seq : y \in K}
    <3>0. \A y \in K : y \in V
      OBVIOUS
    <3> HIDE DEF K
    <3>1. S \in SUBSET Nat /\ S # {}
      BY <1>1, <1>4, <3>0
    <3>2. PICK s \in S : \A r \in S : s <= r
      <4> HIDE DEF S
      <4> QED BY <3>1, LeastNumber
    <3>3. PICK x \in K : s = x.seq
      OBVIOUS
    <3>4. \A y \in K : y.seq \in S
      OBVIOUS
    <3> QED BY <3>2, <3>3, <3>4
  <2>2. K \ {x} \subseteq Newer(x)
    BY <1>1, <2>1
  <2>3. IsFiniteSet(Newer(x)) /\ Cardinality(Newer(x)) < n
    BY <2>1, FS_Subset
  <2> HIDE DEF Newer, K
  <2>4. Cardinality(K \ {x}) <= Cardinality(Newer(x)) /\ IsFiniteSet(K \ {x})
    BY <2>2, <2>3, FS_Subset
  <2>5. Cardinality(K \ {x}) = Cardinality(K) - 1
    BY <1>2, <2>1, FS_RemoveElement
  <2>6. Cardinality(Newer(x)) \in Nat
    BY <2>3, FS_CardinalityType
  <2> QED BY <1>2, <2>3, <2>4, <2>5, <2>6 DEF K, Newer
<1> QED BY <1>3, <1>4

\* A scan leaves at most max_key_updates - 1 versions of its id, whatever the
\* ids that extend it have in the tree.
LEMMA SurplusLeaves ==
  ASSUME NEW tree \in SUBSET Sent, IsFiniteSet(tree),
         \A x, y \in tree : KeyOf(x) = KeyOf(y) => x = y,
         NEW i \in Ids, NEW max \in Nat \ {0}
  PROVE  Cardinality({x \in tree : x.id = i /\ KeyOf(x) \notin Surplus(tree, i, max)})
           <= max - 1
<1> DEFINE V == {x \in tree : x.id = i}
           S == scan_prefix(tree, i)
           After(x) == {y \in S : Precedes(x, y)}
           Newer(x) == {y \in V : y.seq > x.seq}
           K == {x \in V : Cardinality(Newer(x)) < max - 1}
           L == {x \in tree : x.id = i /\ KeyOf(x) \notin Surplus(tree, i, max)}
<1>1. V \in SUBSET S /\ S \in SUBSET tree /\ V \in SUBSET tree
  BY IdsAssumption DEF scan_prefix
<1>2. IsFiniteSet(S) /\ IsFiniteSet(V)
  <2> HIDE DEF S, V
  <2> QED BY <1>1, FS_Subset
<1>3. \A x, y \in V : x.seq = y.seq => x = y
  BY DEF KeyOf
<1>4. \A x \in tree : x.seq \in Nat
  BY U64Assumption DEF Sent
<1>5. ASSUME NEW x \in L PROVE x \in K
  <2>1. x \in V /\ x \in S
    BY <1>1
  <2>2. ~(Cardinality(After(x)) >= max - 1)
    BY <2>1 DEF Surplus
  <2>3. Newer(x) \in SUBSET After(x) /\ After(x) \in SUBSET S
    BY <1>1, <1>4, <2>1 DEF Precedes
  <2> HIDE DEF Newer, After, S
  <2>4. IsFiniteSet(After(x)) /\ IsFiniteSet(Newer(x))
    BY <1>2, <2>3, FS_Subset
  <2>5. Cardinality(Newer(x)) <= Cardinality(After(x))
    BY <2>3, <2>4, FS_Subset
  <2>6. Cardinality(Newer(x)) \in Nat /\ Cardinality(After(x)) \in Nat
    BY <2>4, FS_CardinalityType
  <2> QED BY <2>1, <2>2, <2>5, <2>6
<1>6. Cardinality(K) <= max - 1
  <2>1. V \in SUBSET Sent /\ max - 1 \in Nat
    OBVIOUS
  <2> HIDE DEF V
  <2> QED BY <1>2, <1>3, <2>1, FewNewest
<1>7. K \in SUBSET V /\ L \in SUBSET K
  BY <1>5
<1> HIDE DEF K, L, V
<1>8. IsFiniteSet(K) /\ IsFiniteSet(L) /\ Cardinality(L) <= Cardinality(K)
  BY <1>2, <1>7, FS_Subset
<1>9. Cardinality(K) \in Nat /\ Cardinality(L) \in Nat
  BY <1>8, FS_CardinalityType
<1>10. Cardinality(L) <= max - 1
  BY <1>6, <1>8, <1>9
<1> QED BY <1>10 DEF L

-----------------------------------------------------------------------------
(* The bound.  At any time the versions of an id are at most n plus the     *)
(* sends that inserted one and have yet to trim.  To survive a trim, the    *)
(* bound must already hold of what the scanned batches leave, for every set *)
(* of sends that have scanned: their scans overlap in any way.              *)

\* A tree has one message per key.
UniqueKeys == \A q \in Queues : \A x, y \in store[q] : KeyOf(x) = KeyOf(y) => x = y

Scanned(q, i) == {t \in Trimming(q, i) : pc[t] = "trim"}

\* The versions that the sends in T leave.
Left(q, i, T) == {m \in Versions(q, i) : \A t \in T : KeyOf(m) \notin batch[t]}

AtMost(q, i, T, n) ==
  Cardinality(Left(q, i, T)) <= n + Cardinality(Trimming(q, i) \ T)

ScansBounded(q, i, n) == \A T \in SUBSET Scanned(q, i) : T # {} => AtMost(q, i, T, n)

\* What a step does to the versions of id i in queue q and to their trims.
BatchesKept(q, i) == \A t \in Scanned(q, i) : batch'[t] = batch[t]

Undisturbed(q, i) ==
  /\ Versions(q, i)' \subseteq Versions(q, i)
  /\ Trimming(q, i)' = Trimming(q, i) /\ Scanned(q, i)' = Scanned(q, i)
  /\ BatchesKept(q, i)

Emptied(q, i) == Versions(q, i)' = {} /\ Trimming(q, i)' \subseteq Trimming(q, i)

InsertedBy(q, i, t) ==
  /\ Versions(q, i)' \subseteq Versions(q, i) \cup {msg[t]}
  /\ t \notin Trimming(q, i) /\ Trimming(q, i)' = Trimming(q, i) \cup {t}
  /\ Scanned(q, i)' = Scanned(q, i)
  /\ BatchesKept(q, i)

ScannedBy(q, i, t) ==
  /\ Versions(q, i)' = Versions(q, i)
  /\ Trimming(q, i)' = Trimming(q, i) /\ Scanned(q, i)' = Scanned(q, i) \cup {t}
  /\ \A u \in Scanned(q, i) \ {t} : batch'[u] = batch[u]
  /\ batch'[t] = Surplus(store[q], i, MaxKeyUpdates)

TrimmedBy(q, i, t) ==
  /\ t \in Scanned(q, i)
  /\ Versions(q, i)' = {m \in Versions(q, i) : KeyOf(m) \notin batch[t]}
  /\ Trimming(q, i)' = Trimming(q, i) \ {t} /\ Scanned(q, i)' = Scanned(q, i) \ {t}
  /\ \A u \in Scanned(q, i) \ {t} : batch'[u] = batch[u]

StepKinds(q, i) ==
  \/ Undisturbed(q, i) \/ Emptied(q, i)
  \/ \E t \in Threads : InsertedBy(q, i, t) \/ ScannedBy(q, i, t) \/ TrimmedBy(q, i, t)

Limited == MaxKeyUpdates \in Nat \ {0}

\* Cardinalities of subsets and of sets with one more element.
LEMMA CardSub ==
  ASSUME NEW A, NEW B, IsFiniteSet(B), A \subseteq B
  PROVE  /\ IsFiniteSet(A) /\ Cardinality(A) \in Nat /\ Cardinality(B) \in Nat
         /\ Cardinality(A) <= Cardinality(B)
<1>1. A \in SUBSET B
  OBVIOUS
<1>2. IsFiniteSet(A) /\ Cardinality(A) <= Cardinality(B)
  BY <1>1, FS_Subset
<1> QED BY <1>2, FS_CardinalityType

LEMMA CardAdd ==
  ASSUME NEW A, NEW B, NEW x, IsFiniteSet(B), A \subseteq B \cup {x}
  PROVE  /\ IsFiniteSet(A) /\ Cardinality(A) \in Nat /\ Cardinality(B) \in Nat
         /\ Cardinality(A) <= Cardinality(B) + 1
<1> DEFINE C == B \cup {x}
<1>1. /\ IsFiniteSet(C)
      /\ Cardinality(C) = IF x \in B THEN Cardinality(B) ELSE Cardinality(B) + 1
  BY FS_AddElement
<1>2. A \subseteq C
  OBVIOUS
<1> HIDE DEF C
<1>3. /\ IsFiniteSet(A) /\ Cardinality(A) \in Nat
      /\ Cardinality(A) <= Cardinality(C)
  BY <1>1, <1>2, CardSub
<1>4. Cardinality(B) \in Nat
  BY FS_CardinalityType
<1> QED BY <1>1, <1>3, <1>4

\* The versions of an id are finitely many.
LEMMA LeftFinite ==
  ASSUME TypeInv, NEW q \in Queues, NEW i \in Ids, NEW T
  PROVE  IsFiniteSet(Left(q, i, T)) /\ IsFiniteSet(Versions(q, i))
<1>1. IsFiniteSet(store[q])
  BY DEF TypeInv, FiniteOK
<1>2. Left(q, i, T) \subseteq store[q] /\ Versions(q, i) \subseteq store[q]
  BY DEF Left, Versions
<1> QED BY <1>1, <1>2, CardSub

LEMMA BoundUndisturbed ==
  ASSUME TypeInv, NEW q \in Queues, NEW i \in Ids, NEW n \in Nat, NEW T \in SUBSET Scanned(q, i),
         Undisturbed(q, i), IsFiniteSet(Trimming(q, i)), AtMost(q, i, T, n)
  PROVE  AtMost(q, i, T, n)'
<1>1. Left(q, i, T)' \subseteq Left(q, i, T)
  BY DEF Left, Undisturbed, BatchesKept
<1>2. IsFiniteSet(Left(q, i, T))
  BY LeftFinite
<1>3. /\ Cardinality(Left(q, i, T)') \in Nat /\ Cardinality(Left(q, i, T)) \in Nat
      /\ Cardinality(Left(q, i, T)') <= Cardinality(Left(q, i, T))
  BY <1>1, <1>2, CardSub
<1>4. Cardinality(Left(q, i, T)) <= n + Cardinality(Trimming(q, i) \ T)
  BY DEF AtMost
<1>5. (Trimming(q, i) \ T)' = Trimming(q, i) \ T
  BY DEF Undisturbed
<1>6. Cardinality((Trimming(q, i) \ T)') = Cardinality(Trimming(q, i) \ T)
  BY <1>5
<1>7. Cardinality(Trimming(q, i) \ T) \in Nat
  <2>1. Trimming(q, i) \ T \subseteq Trimming(q, i)
    OBVIOUS
  <2> QED BY <2>1, CardSub
<1> QED BY <1>3, <1>4, <1>6, <1>7 DEF AtMost

LEMMA BoundEmptied ==
  ASSUME NEW q \in Queues, NEW i \in Ids, NEW n \in Nat, NEW T,
         Emptied(q, i), IsFiniteSet(Trimming(q, i))
  PROVE  AtMost(q, i, T, n)'
<1>1. Left(q, i, T)' = {}
  BY DEF Emptied, Left
<1>2. Cardinality(Left(q, i, T)') = 0
  BY <1>1, FS_EmptySet
<1>3. (Trimming(q, i) \ T)' \subseteq Trimming(q, i)
  BY DEF Emptied
<1>4. Cardinality((Trimming(q, i) \ T)') \in Nat
  BY <1>3, CardSub
<1> QED BY <1>2, <1>4 DEF AtMost

LEMMA BoundInserted ==
  ASSUME TypeInv, NEW q \in Queues, NEW i \in Ids, NEW n \in Nat, NEW T \in SUBSET Scanned(q, i),
         NEW t, InsertedBy(q, i, t), IsFiniteSet(Trimming(q, i)), AtMost(q, i, T, n)
  PROVE  AtMost(q, i, T, n)'
<1> DEFINE R == Trimming(q, i) \ T
<1>1. Left(q, i, T)' \subseteq Left(q, i, T) \cup {msg[t]}
  BY DEF Left, InsertedBy, BatchesKept
<1>2. IsFiniteSet(Left(q, i, T))
  BY LeftFinite
<1>3. /\ Cardinality(Left(q, i, T)') \in Nat /\ Cardinality(Left(q, i, T)) \in Nat
      /\ Cardinality(Left(q, i, T)') <= Cardinality(Left(q, i, T)) + 1
  BY <1>1, <1>2, CardAdd
<1>4. Cardinality(Left(q, i, T)) <= n + Cardinality(R)
  BY DEF AtMost
<1>5. (Trimming(q, i) \ T)' = R \cup {t} /\ t \notin R
  BY DEF InsertedBy, Scanned
<1>6. R \subseteq Trimming(q, i)
  OBVIOUS
<1> HIDE DEF R
<1>7. IsFiniteSet(R) /\ Cardinality(R) \in Nat
  BY <1>6, CardSub
<1>8. Cardinality(R \cup {t}) = Cardinality(R) + 1
  BY <1>5, <1>7, FS_AddElement
<1>9. Cardinality((Trimming(q, i) \ T)') = Cardinality(R) + 1
  BY <1>5, <1>8
<1> QED BY <1>3, <1>4, <1>7, <1>9 DEF AtMost

LEMMA BoundScanned ==
  ASSUME TypeInv, UniqueKeys, Limited, NEW q \in Queues, NEW i \in Ids,
         NEW n \in Nat, n >= MaxKeyUpdates - 1,
         NEW t, ScannedBy(q, i, t), NEW T \in SUBSET Scanned(q, i)',
         t \in T \/ AtMost(q, i, T, n), IsFiniteSet(Trimming(q, i))
  PROVE  AtMost(q, i, T, n)'
<1>1. (Trimming(q, i) \ T)' = Trimming(q, i) \ T
  BY DEF ScannedBy
<1>2. IsFiniteSet(Trimming(q, i) \ T) /\ Cardinality(Trimming(q, i) \ T) \in Nat
  <2>1. Trimming(q, i) \ T \subseteq Trimming(q, i)
    OBVIOUS
  <2> QED BY <2>1, CardSub
<1>3. CASE t \in T
  <2> DEFINE L == {x \in store[q] : x.id = i /\ KeyOf(x) \notin Surplus(store[q], i, MaxKeyUpdates)}
  <2>1. Left(q, i, T)' \subseteq L
    BY <1>3 DEF Left, ScannedBy, Versions
  <2>2. store[q] \in SUBSET Sent /\ IsFiniteSet(store[q])
    BY DEF TypeInv, TypeOK, SledType, FiniteOK
  <2>3. Cardinality(L) <= MaxKeyUpdates - 1
    BY <2>2, SurplusLeaves DEF UniqueKeys, Limited
  <2>4. L \subseteq store[q]
    OBVIOUS
  <2> HIDE DEF L
  <2>5. IsFiniteSet(L)
    BY <2>2, <2>4, CardSub
  <2>6. /\ Cardinality(Left(q, i, T)') \in Nat /\ Cardinality(L) \in Nat
        /\ Cardinality(Left(q, i, T)') <= Cardinality(L)
    BY <2>1, <2>5, CardSub
  <2>7. Cardinality(Left(q, i, T)') <= n
    BY <2>3, <2>6 DEF Limited
  <2>8. Cardinality((Trimming(q, i) \ T)') \in Nat
    BY <1>1, <1>2
  <2> QED BY <2>6, <2>7, <2>8 DEF AtMost
<1>4. CASE t \notin T
  <2>1. T \subseteq Scanned(q, i)
    BY <1>4 DEF ScannedBy
  <2>2. Left(q, i, T)' = Left(q, i, T)
    BY <1>4, <2>1 DEF Left, ScannedBy
  <2>3. Cardinality(Left(q, i, T)) <= n + Cardinality(Trimming(q, i) \ T)
    BY <1>4 DEF AtMost
  <2> QED BY <1>1, <2>2, <2>3 DEF AtMost
<1> QED BY <1>3, <1>4

LEMMA BoundTrimmed ==
  ASSUME NEW q \in Queues, NEW i \in Ids, NEW n \in Nat,
         NEW t, TrimmedBy(q, i, t), NEW T \in SUBSET Scanned(q, i)',
         AtMost(q, i, T \cup {t}, n)
  PROVE  AtMost(q, i, T, n)'
<1>1. T \subseteq Scanned(q, i) \ {t}
  BY DEF TrimmedBy
<1>2. Left(q, i, T)' = Left(q, i, T \cup {t})
  BY <1>1 DEF TrimmedBy, Left
<1>3. (Trimming(q, i) \ T)' = Trimming(q, i) \ (T \cup {t})
  BY DEF TrimmedBy
<1>4. Cardinality(Left(q, i, T \cup {t})) <= n + Cardinality(Trimming(q, i) \ (T \cup {t}))
  BY DEF AtMost
<1> QED BY <1>2, <1>3, <1>4 DEF AtMost

\* No step of any kind lets an id exceed the bound that it keeps to, and a
\* trim or the drop of the tree brings one that exceeded it back below.
LEMMA BoundStep ==
  ASSUME TypeInv, UniqueKeys, Limited, NEW q \in Queues, NEW i \in Ids,
         NEW n \in Nat, n >= MaxKeyUpdates - 1,
         IsFiniteSet(Trimming(q, i)), ScansBounded(q, i, n), StepKinds(q, i)
  PROVE  /\ IsFiniteSet(Trimming(q, i)')
         /\ ScansBounded(q, i, n)'
         /\ \/ AtMost(q, i, {}, n) \/ Emptied(q, i)
            \/ \E t \in Threads : TrimmedBy(q, i, t)
            => AtMost(q, i, {}, n)'
<1>0. {} \in SUBSET Scanned(q, i) /\ {} \in SUBSET Scanned(q, i)'
  OBVIOUS
<1>1. CASE Undisturbed(q, i)
  <2>1. IsFiniteSet(Trimming(q, i)')
    BY <1>1 DEF Undisturbed
  <2>2. ASSUME NEW T \in SUBSET Scanned(q, i)', T # {} PROVE AtMost(q, i, T, n)'
    <3>1. T \in SUBSET Scanned(q, i) /\ AtMost(q, i, T, n)
      BY <1>1, <2>2 DEF Undisturbed, ScansBounded
    <3> QED BY <1>1, <3>1, BoundUndisturbed
  <2>3. AtMost(q, i, {}, n) => AtMost(q, i, {}, n)'
    BY <1>0, <1>1, BoundUndisturbed
  <2>4. ~\E t \in Threads : TrimmedBy(q, i, t)
    BY <1>1 DEF Undisturbed, TrimmedBy
  <2>5. Emptied(q, i) => AtMost(q, i, {}, n)'
    BY BoundEmptied
  <2> QED BY <2>1, <2>2, <2>3, <2>4, <2>5 DEF ScansBounded
<1>2. CASE Emptied(q, i)
  <2>1. IsFiniteSet(Trimming(q, i)')
    BY <1>2, CardSub DEF Emptied
  <2>2. \A T : AtMost(q, i, T, n)'
    BY <1>2, BoundEmptied
  <2> QED BY <2>1, <2>2 DEF ScansBounded
<1>3. ASSUME NEW t \in Threads, InsertedBy(q, i, t)
      PROVE  /\ IsFiniteSet(Trimming(q, i)') /\ ScansBounded(q, i, n)'
             /\ \/ AtMost(q, i, {}, n) \/ Emptied(q, i)
                \/ \E u \in Threads : TrimmedBy(q, i, u)
                => AtMost(q, i, {}, n)'
  <2>1. IsFiniteSet(Trimming(q, i)')
    BY <1>3, FS_AddElement DEF InsertedBy
  <2>2. ASSUME NEW T \in SUBSET Scanned(q, i)', T # {} PROVE AtMost(q, i, T, n)'
    <3>1. T \in SUBSET Scanned(q, i) /\ AtMost(q, i, T, n)
      BY <1>3, <2>2 DEF InsertedBy, ScansBounded
    <3> QED BY <1>3, <3>1, BoundInserted
  <2>3. AtMost(q, i, {}, n) => AtMost(q, i, {}, n)'
    BY <1>0, <1>3, BoundInserted
  <2>4. (~\E u \in Threads : TrimmedBy(q, i, u)) /\ ~Emptied(q, i)
    BY <1>3 DEF InsertedBy, TrimmedBy, Emptied
  <2> QED BY <2>1, <2>2, <2>3, <2>4 DEF ScansBounded
<1>4. ASSUME NEW t \in Threads, ScannedBy(q, i, t)
      PROVE  /\ IsFiniteSet(Trimming(q, i)') /\ ScansBounded(q, i, n)'
             /\ \/ AtMost(q, i, {}, n) \/ Emptied(q, i)
                \/ \E u \in Threads : TrimmedBy(q, i, u)
                => AtMost(q, i, {}, n)'
  <2>1. IsFiniteSet(Trimming(q, i)')
    BY <1>4 DEF ScannedBy
  <2>2. ASSUME NEW T \in SUBSET Scanned(q, i)', T # {} PROVE AtMost(q, i, T, n)'
    <3>1. t \in T \/ AtMost(q, i, T, n)
      BY <1>4, <2>2 DEF ScannedBy, ScansBounded
    <3> QED BY <1>4, <3>1, BoundScanned
  <2>3. AtMost(q, i, {}, n) => AtMost(q, i, {}, n)'
    BY <1>0, <1>4, BoundScanned
  <2>4. ~\E u \in Threads : TrimmedBy(q, i, u)
    BY <1>4 DEF ScannedBy, TrimmedBy, Scanned
  <2>5. Emptied(q, i) => AtMost(q, i, {}, n)'
    BY BoundEmptied
  <2> QED BY <2>1, <2>2, <2>3, <2>4, <2>5 DEF ScansBounded
<1>5. ASSUME NEW t \in Threads, TrimmedBy(q, i, t)
      PROVE  /\ IsFiniteSet(Trimming(q, i)') /\ ScansBounded(q, i, n)'
             /\ AtMost(q, i, {}, n)'
  <2>1. IsFiniteSet(Trimming(q, i)')
    BY <1>5, FS_RemoveElement DEF TrimmedBy
  <2>2. ASSUME NEW T \in SUBSET Scanned(q, i)' PROVE AtMost(q, i, T, n)'
    <3>1. T \cup {t} \in SUBSET Scanned(q, i)
      BY <1>5 DEF TrimmedBy
    <3>2. AtMost(q, i, T \cup {t}, n)
      BY <3>1 DEF ScansBounded
    <3> QED BY <1>5, <3>2, BoundTrimmed
  <2> QED BY <1>0, <2>1, <2>2 DEF ScansBounded
<1> QED BY <1>1, <1>2, <1>3, <1>4, <1>5 DEF StepKinds

-----------------------------------------------------------------------------
(* Every step of the server is of one of those kinds.                       *)

\* A step of worker t leaves the other workers alone.
OthersKept(t) ==
  \A u \in Threads \ {t} :
    /\ pc'[u] = pc[u] /\ queue'[u] = queue[u] /\ msg'[u] = msg[u] /\ batch'[u] = batch[u]
    /\ u \in stale' <=> u \in stale

LEMMA TrimsKept ==
  ASSUME NEW q, NEW i, NEW t \in Threads, OthersKept(t),
         t \notin Trimming(q, i), t \notin Trimming(q, i)'
  PROVE  /\ Trimming(q, i)' = Trimming(q, i) /\ Scanned(q, i)' = Scanned(q, i)
         /\ BatchesKept(q, i)
<1>1. \A u \in Threads : u \in Trimming(q, i)' <=> u \in Trimming(q, i)
  BY DEF OthersKept, Trimming
<1>2. Trimming(q, i)' \subseteq Threads /\ Trimming(q, i) \subseteq Threads
  BY DEF Trimming
<1>3. Trimming(q, i)' = Trimming(q, i)
  BY <1>1, <1>2
<1>4. \A u \in Trimming(q, i) : u # t /\ u \in Threads /\ pc'[u] = pc[u] /\ batch'[u] = batch[u]
  BY <1>2 DEF OthersKept
<1> QED BY <1>3, <1>4 DEF Scanned, BatchesKept

\* The workers' part of the types.
LEMMA WorkerTypes ==
  ASSUME TypeInv
  PROVE  /\ pc \in [Procs -> ThreadPC \cup ConnPC]
         /\ queue \in [Procs -> Queues \cup {NoQueue}]
         /\ msg \in [Threads -> Draft] /\ batch \in [Threads -> SUBSET Keys]
         /\ store \in [Queues -> SUBSET Sent]
         /\ Threads \subseteq Procs
BY DEF TypeInv, TypeOK, ProcType, SendType, SledType, Procs

\* The steps of a worker that neither insert, scan, trim nor drop.
LEMMA KindOther ==
  ASSUME TypeInv, NEW q \in Queues, NEW i \in Ids, NEW t \in Threads,
         OthersKept(t), store'[q] \subseteq store[q],
         pc[t] \notin {"scan", "trim"} \/ t \in stale, pc'[t] \notin {"scan", "trim"}
  PROVE  Undisturbed(q, i)
<1>1. t \notin Trimming(q, i) /\ t \notin Trimming(q, i)'
  BY DEF Trimming
<1>2. Versions(q, i)' \subseteq Versions(q, i)
  BY DEF Versions
<1> QED BY <1>1, <1>2, TrimsKept DEF Undisturbed

LEMMA KindQuietWork ==
  ASSUME TypeInv, NEW q \in Queues, NEW i \in Ids, NEW t \in Threads,
         \/ GenerateNextId(t) \/ OpenTree(t) \/ SendFails(t) \/ Broadcast(t)
         \/ DeleteScan(t) \/ DeleteApply(t)
  PROVE  Undisturbed(q, i)
<1>1. OthersKept(t)
  BY WorkerTypes
  DEF GenerateNextId, OpenTree, SendFails, Broadcast, DeleteScan, DeleteApply, Answer,
      open_tree, OthersKept
<1>2. store'[q] \subseteq store[q]
  BY WorkerTypes
  DEF GenerateNextId, OpenTree, SendFails, Broadcast, DeleteScan, DeleteApply, RemoveKeys
<1>3. pc[t] \notin {"scan", "trim"} \/ t \in stale
  BY DEF GenerateNextId, OpenTree, SendFails, Broadcast, DeleteScan, DeleteApply
<1>4. pc'[t] \notin {"scan", "trim"}
  BY WorkerTypes
  DEF GenerateNextId, OpenTree, SendFails, Broadcast, DeleteScan, DeleteApply, Answer,
      AfterSequence
<1> QED BY <1>1, <1>2, <1>3, <1>4, KindOther

LEMMA KindRequest ==
  ASSUME TypeInv, NEW q \in Queues, NEW i \in Ids, NEW t \in Threads, Request(t)
  PROVE  Undisturbed(q, i)
<1>1. ASSUME NEW p \in Queues, NEW j \in Ids, NEW seq \in CustomSeqs \cup {0},
             SendToQueue(t, p, j, seq)
      PROVE  Undisturbed(q, i)
  <2>1. OthersKept(t) /\ UNCHANGED store /\ pc[t] = "idle"
    BY <1>1, WorkerTypes DEF SendToQueue, OthersKept
  <2>2. pc'[t] \notin {"scan", "trim"}
    BY <1>1, WorkerTypes DEF SendToQueue, AfterSequence
  <2> QED BY <2>1, <2>2, KindOther
<1>2. ASSUME NEW p \in Queues,
             CreateQueue(t, p) \/ CloseQueue(t, p) \/ \E j \in Ids : DeleteQueue(t, p, j)
      PROVE  Undisturbed(q, i)
  <2>1. OthersKept(t) /\ UNCHANGED store /\ pc[t] = "idle"
    BY <1>2, WorkerTypes DEF CreateQueue, CloseQueue, DeleteQueue, open_tree, OthersKept
  <2>2. pc'[t] \notin {"scan", "trim"}
    BY <1>2, WorkerTypes DEF CreateQueue, CloseQueue, DeleteQueue
  <2> QED BY <2>1, <2>2, KindOther
<1> QED BY <1>1, <1>2 DEF Request

LEMMA KindInsert ==
  ASSUME TypeInv, Limited, NEW q \in Queues, NEW i \in Ids, NEW t \in Threads, Insert(t)
  PROVE  Undisturbed(q, i) \/ InsertedBy(q, i, t)
<1>1. /\ OthersKept(t) /\ UNCHANGED <<queue, msg, stale, batch>> /\ t \notin stale
      /\ pc[t] = "insert" /\ queue[t] \in Queues /\ msg[t] \in Sent
  BY WorkerTypes DEF Insert, OthersKept, TypeInv, TypeOK, ProcType, SendType
<1>2. pc'[t] = "scan"
  BY <1>1, WorkerTypes, QueueAssumption DEF Insert, Limited
<1>3. /\ \A p \in Queues \ {queue[t]} : store'[p] = store[p]
      /\ store'[queue[t]] = InsertInto(store[queue[t]], msg[t])
  BY <1>1, WorkerTypes DEF Insert
<1>4. t \notin Trimming(q, i)
  BY <1>1 DEF Trimming
<1>5. CASE q # queue[t] \/ msg[t].id # i
  <2>1. t \notin Trimming(q, i)'
    BY <1>1, <1>5 DEF Trimming
  <2>2. Versions(q, i)' \subseteq Versions(q, i)
    BY <1>3, <1>5 DEF Versions, InsertInto
  <2> QED BY <1>1, <1>4, <2>1, <2>2, TrimsKept DEF Undisturbed
<1>6. CASE q = queue[t] /\ msg[t].id = i
  <2>1. t \in Trimming(q, i)'
    BY <1>1, <1>2, <1>6 DEF Trimming
  <2>2. \A u \in Threads \ {t} : u \in Trimming(q, i)' <=> u \in Trimming(q, i)
    BY <1>1 DEF OthersKept, Trimming
  <2>3. Trimming(q, i)' \subseteq Threads /\ Trimming(q, i) \subseteq Threads
    BY DEF Trimming
  <2>4. Trimming(q, i)' = Trimming(q, i) \cup {t}
    BY <2>1, <2>2, <2>3
  <2>5. \A u \in Trimming(q, i) : u # t /\ u \in Threads /\ pc'[u] = pc[u]
    BY <1>1, <1>4, <2>3 DEF OthersKept
  <2>6. Scanned(q, i)' = Scanned(q, i)
    BY <1>2, <2>4, <2>5 DEF Scanned
  <2>7. Versions(q, i)' \subseteq Versions(q, i) \cup {msg[t]}
    BY <1>3, <1>6 DEF Versions, InsertInto
  <2> QED BY <1>1, <1>4, <2>4, <2>6, <2>7 DEF InsertedBy, BatchesKept
<1> QED BY <1>5, <1>6

LEMMA KindScan ==
  ASSUME TypeInv, NEW q \in Queues, NEW i \in Ids, NEW t \in Threads, ScanSurplus(t)
  PROVE  Undisturbed(q, i) \/ ScannedBy(q, i, t)
<1>1. /\ OthersKept(t) /\ UNCHANGED <<queue, msg, stale, store>> /\ t \notin stale
      /\ pc[t] = "scan" /\ pc'[t] = "trim"
      /\ batch'[t] = Surplus(store[queue[t]], msg[t].id, MaxKeyUpdates)
  BY WorkerTypes DEF ScanSurplus, OthersKept
<1>2. Versions(q, i)' = Versions(q, i)
  BY <1>1 DEF Versions
<1>3. CASE q # queue[t] \/ msg[t].id # i
  <2>1. t \notin Trimming(q, i)' /\ t \notin Trimming(q, i)
    BY <1>1, <1>3 DEF Trimming
  <2> QED BY <1>1, <1>2, <2>1, TrimsKept DEF Undisturbed
<1>4. CASE q = queue[t] /\ msg[t].id = i
  <2>1. \A u \in Threads : u \in Trimming(q, i)' <=> u \in Trimming(q, i)
    BY <1>1 DEF OthersKept, Trimming
  <2>2. Trimming(q, i)' \subseteq Threads /\ Trimming(q, i) \subseteq Threads
    BY DEF Trimming
  <2>3. Trimming(q, i)' = Trimming(q, i)
    BY <2>1, <2>2
  <2>4. t \in Trimming(q, i)
    BY <1>1, <1>4 DEF Trimming
  <2>5. \A u \in Trimming(q, i) \ {t} : pc'[u] = pc[u] /\ batch'[u] = batch[u]
    BY <1>1, <2>2 DEF OthersKept
  <2>6. Scanned(q, i)' = Scanned(q, i) \cup {t}
    BY <1>1, <2>3, <2>4, <2>5 DEF Scanned
  <2>7. \A u \in Scanned(q, i) \ {t} : batch'[u] = batch[u]
    BY <2>5 DEF Scanned
  <2> QED BY <1>1, <1>2, <1>4, <2>3, <2>6, <2>7 DEF ScannedBy
<1> QED BY <1>3, <1>4

\* A trim on a dropped tree has an empty batch.
LEMMA KindTrim ==
  ASSUME TypeInv, NEW q \in Queues, NEW i \in Ids, NEW t \in Threads, Trim(t)
  PROVE  IF t \in Trimming(q, i) THEN TrimmedBy(q, i, t) ELSE Undisturbed(q, i)
<1>1. /\ OthersKept(t) /\ UNCHANGED <<queue, msg, stale>>
      /\ pc[t] = "trim" /\ pc'[t] = "broadcast" /\ queue[t] \in Queues
  BY WorkerTypes DEF Trim, OthersKept, TypeInv, TypeOK, ProcType
<1>2. /\ \A p \in Queues \ {queue[t]} : store'[p] = store[p]
      /\ store'[queue[t]] = RemoveKeys(store[queue[t]], batch[t])
  BY <1>1, WorkerTypes DEF Trim
<1>3. t \notin Trimming(q, i)'
  BY <1>1 DEF Trimming
<1>4. CASE t \notin Trimming(q, i)
  <2>1. Versions(q, i)' \subseteq Versions(q, i)
    BY <1>2 DEF Versions, RemoveKeys
  <2> QED BY <1>1, <1>3, <1>4, <2>1, TrimsKept DEF Undisturbed
<1>5. CASE t \in Trimming(q, i)
  <2>1. \A u \in Threads \ {t} : u \in Trimming(q, i)' <=> u \in Trimming(q, i)
    BY <1>1 DEF OthersKept, Trimming
  <2>2. Trimming(q, i)' \subseteq Threads /\ Trimming(q, i) \subseteq Threads
    BY DEF Trimming
  <2>3. Trimming(q, i)' = Trimming(q, i) \ {t}
    BY <1>3, <2>1, <2>2
  <2>4. \A u \in Trimming(q, i) \ {t} : pc'[u] = pc[u] /\ batch'[u] = batch[u]
    BY <1>1, <2>2 DEF OthersKept
  <2>5. Scanned(q, i)' = Scanned(q, i) \ {t} /\ t \in Scanned(q, i)
    BY <1>1, <1>5, <2>3, <2>4 DEF Scanned
  <2>6. \A u \in Scanned(q, i) \ {t} : batch'[u] = batch[u]
    BY <2>4 DEF Scanned
  <2>7. queue[t] = q
    BY <1>5 DEF Trimming
  <2>8. Versions(q, i)' = {m \in Versions(q, i) : KeyOf(m) \notin batch[t]}
    BY <1>2, <2>7 DEF Versions, RemoveKeys
  <2> QED BY <1>5, <2>3, <2>5, <2>6, <2>8 DEF TrimmedBy
<1> QED BY <1>4, <1>5

LEMMA KindDrop ==
  ASSUME TypeInv, NEW q \in Queues, NEW i \in Ids, NEW t \in Threads, DropTree(t)
  PROVE  IF queue[t] = q THEN Emptied(q, i) ELSE Undisturbed(q, i)
<1>1. /\ pc[t] = "drop" /\ pc'[t] = "idle" /\ queue[t] \in Queues
      /\ \A u \in Threads \ {t} :
           pc'[u] = pc[u] /\ queue'[u] = queue[u] /\ msg'[u] = msg[u] /\ batch'[u] = batch[u]
      /\ \A u \in Threads : /\ u \in stale => u \in stale'
                            /\ u \in stale' /\ u \notin stale => queue[u] = queue[t]
  BY WorkerTypes DEF DropTree, Answer, Holders, TypeInv, TypeOK, ProcType
<1>2. /\ \A p \in Queues \ {queue[t]} : store'[p] = store[p]
      /\ store'[queue[t]] = {}
  BY <1>1, WorkerTypes DEF DropTree
<1>3. t \notin Trimming(q, i)' /\ t \notin Trimming(q, i)
  BY <1>1 DEF Trimming
<1>4. Trimming(q, i)' \subseteq Threads /\ Trimming(q, i) \subseteq Threads
  BY DEF Trimming
<1>5. CASE queue[t] = q
  <2>1. Versions(q, i)' = {}
    BY <1>2, <1>5 DEF Versions
  <2>2. \A u \in Threads \ {t} : u \in Trimming(q, i)' => u \in Trimming(q, i)
    BY <1>1 DEF Trimming
  <2> QED BY <1>3, <1>4, <1>5, <2>1, <2>2 DEF Emptied
<1>6. CASE queue[t] # q
  <2>1. \A u \in Threads : u \in Trimming(q, i)' <=> u \in Trimming(q, i)
    BY <1>1, <1>3, <1>6 DEF Trimming
  <2>2. Trimming(q, i)' = Trimming(q, i)
    BY <1>4, <2>1
  <2>3. \A u \in Trimming(q, i) : u # t /\ pc'[u] = pc[u] /\ batch'[u] = batch[u]
    BY <1>1, <1>3, <1>4
  <2>4. Scanned(q, i)' = Scanned(q, i) /\ BatchesKept(q, i)
    BY <2>2, <2>3 DEF Scanned, BatchesKept
  <2>5. Versions(q, i)' = Versions(q, i)
    BY <1>2, <1>6 DEF Versions
  <2> QED BY <1>6, <2>2, <2>4, <2>5 DEF Undisturbed
<1> QED BY <1>5, <1>6

\* Subscriptions read the trees.
LEMMA KindConn ==
  ASSUME TypeInv, NEW q \in Queues, NEW i \in Ids, NEW c \in Conns, Stream(c) \/ Client(c)
  PROVE  Undisturbed(q, i)
<1>1. UNCHANGED <<store, msg, batch>>
  BY DEF Stream, Client, Subscribe, SubscribeOpen, SubscribeRead, SubscribeLock,
         YieldPrev, YieldLive, StreamEnds, ClientGone
<1>2. \A t \in Threads : pc'[t] = pc[t]
  BY QueueAssumption, WorkerTypes
  DEF Stream, Client, Subscribe, SubscribeOpen, SubscribeRead, SubscribeLock,
      Refused, YieldPrev, YieldLive, StreamEnds, ClientGone, HandOut, LongpollTakes,
      ConnectionHandles, DropStream
<1>3. \A t \in Threads : queue'[t] = queue[t] /\ (t \in stale' <=> t \in stale)
  BY QueueAssumption, WorkerTypes
  DEF Stream, Client, Subscribe, SubscribeOpen, SubscribeRead, SubscribeLock,
      YieldPrev, YieldLive, StreamEnds, ClientGone, open_tree
<1>4. Trimming(q, i)' = Trimming(q, i)
  BY <1>1, <1>2, <1>3 DEF Trimming
<1>5. \A t \in Trimming(q, i) : pc'[t] = pc[t]
  BY <1>2 DEF Trimming
<1>6. Scanned(q, i)' = Scanned(q, i)
  BY <1>4, <1>5 DEF Scanned
<1> QED BY <1>1, <1>4, <1>6 DEF Undisturbed, Versions, BatchesKept

LEMMA KindNext ==
  ASSUME TypeInv, Limited, NEW q \in Queues, NEW i \in Ids, [Next]_vars
  PROVE  StepKinds(q, i)
<1>1. CASE UNCHANGED vars
  <2>1. UNCHANGED <<store, pc, queue, msg, batch, stale>>
    BY <1>1 DEF vars
  <2>2. Undisturbed(q, i)
    BY <2>1 DEF Undisturbed, Versions, Trimming, Scanned, BatchesKept
  <2> QED BY <2>2 DEF StepKinds
<1>2. ASSUME NEW t \in Threads, Work(t) PROVE StepKinds(q, i)
  BY <1>2, KindQuietWork, KindInsert, KindScan, KindTrim, KindDrop DEF Work, StepKinds
<1>3. ASSUME NEW t \in Threads, Request(t) PROVE StepKinds(q, i)
  BY <1>3, KindRequest DEF StepKinds
<1>4. ASSUME NEW c \in Conns, Stream(c) \/ Client(c) PROVE StepKinds(q, i)
  BY <1>4, KindConn DEF StepKinds
<1> QED BY <1>1, <1>2, <1>3, <1>4 DEF Next

\* Only inserts add to a tree, and they replace what has the same key.
LEMMA StoreSteps ==
  ASSUME TypeInv, [Next]_vars
  PROVE  \/ \A q \in Queues : store'[q] \subseteq store[q]
         \/ \E t \in Threads : Insert(t)
<1>1. CASE UNCHANGED vars
  BY <1>1 DEF vars
<1>2. ASSUME NEW t \in Threads, Work(t), ~Insert(t)
      PROVE  \A q \in Queues : store'[q] \subseteq store[q]
  BY <1>2, WorkerTypes
  DEF Work, GenerateNextId, OpenTree, ScanSurplus, Trim, SendFails, Broadcast, DeleteScan,
      DeleteApply, DropTree, RemoveKeys
<1>3. ASSUME NEW t \in Threads, Request(t) PROVE UNCHANGED store
  BY <1>3 DEF Request, SendToQueue, CreateQueue, CloseQueue, DeleteQueue
<1>4. ASSUME NEW c \in Conns, Stream(c) \/ Client(c) PROVE UNCHANGED store
  BY <1>4
  DEF Stream, Client, Subscribe, SubscribeOpen, SubscribeRead, SubscribeLock,
      YieldPrev, YieldLive, StreamEnds, ClientGone
<1> QED BY <1>1, <1>2, <1>3, <1>4 DEF Next

LEMMA UniqueNext ==
  ASSUME TypeInv, UniqueKeys, [Next]_vars
  PROVE  UniqueKeys'
<1>1. CASE \A q \in Queues : store'[q] \subseteq store[q]
  BY <1>1 DEF UniqueKeys
<1>2. ASSUME NEW t \in Threads, Insert(t) PROVE UniqueKeys'
  <2>1. \A q \in Queues : store'[q] = store[q] \/ store'[q] = InsertInto(store[q], msg[t])
    BY <1>2, WorkerTypes DEF Insert
  <2> QED BY <2>1 DEF UniqueKeys, InsertInto
<1> QED BY <1>1, <1>2, StoreSteps

-----------------------------------------------------------------------------
\* The inductive invariant of the bound.
BoundInv ==
  /\ UniqueKeys
  /\ Limited => \A q \in Queues, i \in Ids :
       /\ IsFiniteSet(Trimming(q, i))
       /\ ScansBounded(q, i, MaxKeyUpdates - 1)
       /\ AtMost(q, i, {}, MaxKeyUpdates - 1)

LEMMA BoundInit == Init => BoundInv
<1> SUFFICES ASSUME Init PROVE BoundInv
  OBVIOUS
<1>1. UniqueKeys
  BY DEF Init, UniqueKeys
<1>2. ASSUME Limited, NEW q \in Queues, NEW i \in Ids
      PROVE  /\ IsFiniteSet(Trimming(q, i))
             /\ ScansBounded(q, i, MaxKeyUpdates - 1)
             /\ AtMost(q, i, {}, MaxKeyUpdates - 1)
  <2>1. Trimming(q, i) = {} /\ Scanned(q, i) = {} /\ Left(q, i, {}) = {}
    BY DEF Init, Trimming, Scanned, Left, Versions, Procs
  <2>2. Cardinality(Left(q, i, {})) = 0 /\ Cardinality(Trimming(q, i) \ {}) = 0
    BY <2>1, FS_EmptySet
  <2>3. AtMost(q, i, {}, MaxKeyUpdates - 1)
    BY <1>2, <2>2 DEF AtMost, Limited
  <2>4. ScansBounded(q, i, MaxKeyUpdates - 1)
    BY <2>1 DEF ScansBounded
  <2> QED BY <2>1, <2>3, <2>4, FS_EmptySet
<1> QED BY <1>1, <1>2 DEF BoundInv

LEMMA BoundNext ==
  ASSUME TypeInv, BoundInv, [Next]_vars
  PROVE  BoundInv'
<1>1. UniqueKeys /\ UniqueKeys'
  BY UniqueNext DEF BoundInv
<1>2. ASSUME Limited, NEW q \in Queues, NEW i \in Ids
      PROVE  /\ IsFiniteSet(Trimming(q, i)')
             /\ ScansBounded(q, i, MaxKeyUpdates - 1)'
             /\ AtMost(q, i, {}, MaxKeyUpdates - 1)'
  <2> DEFINE n == MaxKeyUpdates - 1
  <2>1. n \in Nat /\ n >= MaxKeyUpdates - 1
    BY <1>2 DEF Limited
  <2>2. IsFiniteSet(Trimming(q, i)) /\ ScansBounded(q, i, n) /\ AtMost(q, i, {}, n)
    BY <1>2 DEF BoundInv
  <2>3. StepKinds(q, i)
    BY <1>2, KindNext
  <2> HIDE DEF n
  <2>4. /\ IsFiniteSet(Trimming(q, i)') /\ ScansBounded(q, i, n)' /\ AtMost(q, i, {}, n)'
    BY <1>1, <1>2, <2>1, <2>2, <2>3, BoundStep
  <2> QED BY <2>4 DEF n
<1>3. Limited' = Limited
  BY DEF Limited
<1> QED BY <1>1, <1>2 DEF BoundInv

\* What the invariant says of an id whose sends have all trimmed.
LEMMA AtMostVersions ==
  ASSUME NEW q \in Queues, NEW i \in Ids, NEW n \in Nat,
         AtMost(q, i, {}, n), Trimming(q, i) = {}
  PROVE  Cardinality(Versions(q, i)) <= n
<1>1. Left(q, i, {}) = Versions(q, i)
  BY DEF Left
<1>2. Cardinality(Trimming(q, i) \ {}) = 0
  BY FS_EmptySet
<1> QED BY <1>1, <1>2 DEF AtMost

\* For any number of workers, queues and ids, any senders' sequences and any
\* nesting of ids: once the sends to an id that inserted a version have
\* trimmed, the tree holds no more than max_key_updates versions of it,
\* however the inserts, scans and batches of send_to_queue interleaved with
\* each other and with deletes and closes.
THEOREM HistoryBounded == Spec => []RetentionBound
<1>1. Init => TypeInv /\ BoundInv
  BY TypeInit, BoundInit
<1>2. TypeInv /\ BoundInv /\ [Next]_vars => (TypeInv /\ BoundInv)'
  BY TypeNext, BoundNext
<1>3. ASSUME TypeInv, BoundInv PROVE RetentionBound
  <2> SUFFICES ASSUME MaxKeyUpdates \notin {0, NoLimit}, NEW q \in Queues, NEW i \in Ids,
                      Trimming(q, i) = {}
               PROVE  Cardinality(Versions(q, i)) <= MaxKeyUpdates
    BY DEF RetentionBound
  <2>1. Limited /\ MaxKeyUpdates - 1 \in Nat
    BY QueueAssumption DEF Limited
  <2>2. AtMost(q, i, {}, MaxKeyUpdates - 1)
    BY <1>3, <2>1 DEF BoundInv
  <2>3. Cardinality(Versions(q, i)) <= MaxKeyUpdates - 1
    BY <2>1, <2>2, AtMostVersions
  <2>4. Cardinality(Versions(q, i)) \in Nat
    BY <1>3, LeftFinite, FS_CardinalityType
  <2> QED BY <2>1, <2>3, <2>4 DEF Limited
<1> QED BY <1>1, <1>2, <1>3, PTL DEF Spec

-----------------------------------------------------------------------------
(* What stays.  A send with its own sequence may overwrite a message that   *)
(* has it, and the trim of an id counts the ids that extend it: the theorem *)
(* is about senders that leave the sequence to the server and ids none of   *)
(* which starts with another.                                               *)
Plain == CustomSeqs = {} /\ \A i \in Ids : Extends[i] = {i}

\* Message m of queue q has the sequence that generate_next_id made for it.
Numbered(g, q, m) ==
  g.uid = m.uid /\ g.key = CounterKey[<<q, m.id>>] /\ g.seq = m.seq

StoreOK ==
  \A q \in Queues : \A m \in store[q] :
    <<q, m>> \in inserted /\ \E g \in generated : Numbered(g, q, m)

NumberedOK ==
  \A t \in Threads : pc[t] \in Sequenced =>
    \E g \in generated : Numbered(g, queue[t], msg[t])

Superseded(q, m) ==
  MaxKeyUpdates # NoLimit /\ Cardinality(NewerThan(q, m)) >= MaxKeyUpdates - 1

\* What was collected for removal was superseded by then.
BatchOK ==
  \A t \in Threads :
    /\ pc[t] \in {"scan", "trim"} => MaxKeyUpdates # NoLimit
    /\ pc[t] = "trim" =>
         \A m \in Sent : KeyOf(m) \in batch[t] => Superseded(queue[t], m)

KeepInv == UniqueKeys /\ StoreOK /\ NumberedOK /\ BatchOK

Kept(a) == a[2] \in store[a[1]] \/ a \in removed \/ Superseded(a[1], a[2])

\* Nothing is ever taken from the record of the past.
LEMMA PastGrows ==
  ASSUME [Next]_vars
  PROVE  inserted \subseteq inserted' /\ removed \subseteq removed' /\ generated \subseteq generated'
<1>1. CASE UNCHANGED vars
  BY <1>1 DEF vars
<1>2. ASSUME NEW t \in Threads, Work(t)
      PROVE  /\ inserted \subseteq inserted' /\ removed \subseteq removed'
             /\ generated \subseteq generated'
  BY <1>2
  DEF Work, GenerateNextId, OpenTree, Insert, ScanSurplus, Trim, SendFails, Broadcast,
      DeleteScan, DeleteApply, DropTree
<1>3. ASSUME NEW t \in Threads, Request(t) PROVE UNCHANGED <<inserted, removed, generated>>
  BY <1>3 DEF Request, SendToQueue, CreateQueue, CloseQueue, DeleteQueue
<1>4. ASSUME NEW c \in Conns, Stream(c) \/ Client(c)
      PROVE  UNCHANGED <<inserted, removed, generated>>
  BY <1>4
  DEF Stream, Client, Subscribe, SubscribeOpen, SubscribeRead, SubscribeLock,
      YieldPrev, YieldLive, StreamEnds, ClientGone
<1> QED BY <1>1, <1>2, <1>3, <1>4 DEF Next

\* A superseded message stays so.
LEMMA SupersededStays ==
  ASSUME TypeInv', inserted \subseteq inserted', NEW q, NEW m, Superseded(q, m)
  PROVE  Superseded(q, m)'
<1>1. NewerThan(q, m) \subseteq NewerThan(q, m)'
  BY DEF NewerThan
<1>2. NewerThan(q, m)' \subseteq 1..U64Max
  BY DEF NewerThan, TypeInv, TypeOK, PastType, Sent
<1>3. IsFiniteSet(1..U64Max)
  BY U64Assumption, FS_Interval
<1>4. IsFiniteSet(NewerThan(q, m)')
  BY <1>2, <1>3, CardSub
<1>5. /\ Cardinality(NewerThan(q, m)) \in Nat /\ Cardinality(NewerThan(q, m)') \in Nat
      /\ Cardinality(NewerThan(q, m)) <= Cardinality(NewerThan(q, m)')
  BY <1>1, <1>4, CardSub
<1>6. MaxKeyUpdates \in Nat /\ Cardinality(NewerThan(q, m)) >= MaxKeyUpdates - 1
  BY QueueAssumption DEF Superseded
<1> QED BY <1>5, <1>6 DEF Superseded

\* A scan collects what is superseded only.
LEMMA SurplusSuperseded ==
  ASSUME TypeInv, UniqueKeys, StoreOK, Plain, NEW q \in Queues, NEW i \in Ids,
         MaxKeyUpdates \in Nat, NEW m \in Sent,
         KeyOf(m) \in Surplus(store[q], i, MaxKeyUpdates)
  PROVE  Cardinality(NewerThan(q, m)) >= MaxKeyUpdates - 1
<1> DEFINE S == scan_prefix(store[q], i)
           After(x) == {y \in S : Precedes(x, y)}
<1>1. PICK z \in S : KeyOf(z) = KeyOf(m) /\ Cardinality(After(z)) >= MaxKeyUpdates - 1
  BY Zenon DEF Surplus
<1>2. \A x \in S : x \in store[q] /\ x.id = i /\ x \in Sent /\ x.seq \in Nat
  BY U64Assumption DEF scan_prefix, Plain, TypeInv, TypeOK, SledType, Sent
<1>3. z.id = i /\ m.id = i /\ m.seq = z.seq
  BY <1>1, <1>2 DEF KeyOf
<1> DEFINE A == After(z)
           N == NewerThan(q, m)
           f == [y \in A |-> y.seq]
<1>4. \A y \in A : y \in S /\ y.seq > z.seq
  BY <1>2, <1>3 DEF Precedes
<1>5. ASSUME NEW y \in A PROVE y.seq \in N
  <2>1. <<q, y>> \in inserted
    BY <1>2, <1>4 DEF StoreOK
  <2>2. <<q, y>>[1] = q /\ <<q, y>>[2] = y
    OBVIOUS
  <2>3. y.id = m.id /\ y.seq > m.seq
    BY <1>2, <1>3, <1>4
  <2> QED BY <2>1, <2>2, <2>3 DEF NewerThan
<1>6. \A x, y \in A : x.seq = y.seq => x = y
  BY <1>2, <1>4 DEF UniqueKeys, KeyOf
<1>7. N \subseteq 1..U64Max
  BY DEF NewerThan, TypeInv, TypeOK, PastType, Sent
<1>8. IsFiniteSet(N)
  <2> HIDE DEF N
  <2>1. IsFiniteSet(1..U64Max)
    BY U64Assumption, FS_Interval
  <2> QED BY <1>7, <2>1, CardSub
<1>9. Cardinality(A) >= MaxKeyUpdates - 1
  BY <1>1
<1> HIDE DEF A, N
<1>10. f \in Injection(A, N)
  BY <1>5, <1>6 DEF Injection, IsInjective
<1> HIDE DEF f
<1>11. IsFiniteSet(A) /\ Cardinality(A) <= Cardinality(N)
  BY <1>8, <1>10, FS_Injection
<1>12. Cardinality(A) \in Nat /\ Cardinality(N) \in Nat
  BY <1>8, <1>11, FS_CardinalityType
<1>13. Cardinality(N) >= MaxKeyUpdates - 1
  BY <1>9, <1>11, <1>12
<1> QED BY <1>13 DEF N

\* An insert overwrites nothing: the same counter and the same sequence are
\* the same send.
LEMMA InsertKeeps ==
  ASSUME TypeInv, SequenceInv, KeepInv, NEW t \in Threads, Insert(t), NEW q \in Queues
  PROVE  store[q] \subseteq store'[q]
<1>1. pc[t] = "insert" /\ queue[t] \in Queues /\ msg[t] \in Sent
  BY WorkerTypes DEF Insert, TypeInv, TypeOK, ProcType, SendType
<1>2. CASE q # queue[t]
  BY <1>1, <1>2, WorkerTypes DEF Insert
<1>3. CASE q = queue[t]
  <2>1. store'[q] = InsertInto(store[q], msg[t])
    BY <1>1, <1>3, WorkerTypes DEF Insert
  <2> SUFFICES ASSUME NEW m \in store[q], KeyOf(m) = KeyOf(msg[t]) PROVE m = msg[t]
    BY <2>1 DEF InsertInto
  <2>2. PICK g \in generated : Numbered(g, q, m)
    BY DEF KeepInv, StoreOK
  <2>3. PICK h \in generated : Numbered(h, q, msg[t])
    BY <1>1, <1>3 DEF KeepInv, NumberedOK
  <2>4. m.id = msg[t].id /\ m.seq = msg[t].seq /\ m \in Sent
    BY WorkerTypes DEF KeyOf
  <2>5. g = h
    BY <2>2, <2>3, <2>4 DEF Numbered, SequenceInv, SequencesDense
  <2>6. m.uid = msg[t].uid
    BY <2>2, <2>3, <2>5 DEF Numbered
  <2> QED BY <1>1, <2>4, <2>6 DEF Sent
<1> QED BY <1>2, <1>3

\* A message leaves its tree by a trim that found it superseded, or by a
\* delete or a close.
LEMMA KeptStep ==
  ASSUME TypeInv, TypeInv', SequenceInv, KeepInv, [Next]_vars,
         NEW a \in Queues \X Sent, Kept(a)
  PROVE  Kept(a)'
<1> DEFINE q == a[1]
           m == a[2]
<1>1. q \in Queues /\ m \in Sent /\ a = <<q, m>>
  OBVIOUS
<1>2. inserted \subseteq inserted' /\ removed \subseteq removed'
  BY PastGrows
<1>3. CASE a \in removed
  BY <1>2, <1>3 DEF Kept
<1>4. CASE Superseded(q, m)
  <2>1. Superseded(q, m)'
    BY <1>2, <1>4, SupersededStays
  <2> QED BY <2>1 DEF Kept
<1>5. CASE m \in store[q]
  <2>0. SUFFICES ASSUME m \notin store'[q] PROVE a \in removed' \/ Superseded(q, m)'
    BY DEF Kept
  <2>1. ASSUME NEW t \in Threads, Work(t) PROVE a \in removed' \/ Superseded(q, m)'
    <3>1. CASE GenerateNextId(t) \/ OpenTree(t) \/ ScanSurplus(t) \/ SendFails(t)
               \/ Broadcast(t) \/ DeleteScan(t)
      <4>1. UNCHANGED store
        BY <3>1 DEF GenerateNextId, OpenTree, ScanSurplus, SendFails, Broadcast, DeleteScan
      <4> QED BY <1>5, <2>0, <4>1
    <3>2. CASE Insert(t)
      BY <1>1, <1>5, <2>0, <3>2, InsertKeeps
    <3>3. CASE Trim(t)
      <4>1. pc[t] = "trim" /\ q = queue[t] /\ KeyOf(m) \in batch[t]
        BY <1>1, <1>5, <2>0, <3>3, WorkerTypes DEF Trim, RemoveKeys
      <4>2. Superseded(q, m)
        BY <1>1, <4>1 DEF KeepInv, BatchOK
      <4> QED BY <1>2, <4>2, SupersededStays
    <3>4. CASE DeleteApply(t)
      <4>1. q = queue[t] /\ KeyOf(m) \in batch[t]
        BY <1>1, <1>5, <2>0, <3>4, WorkerTypes DEF DeleteApply, RemoveKeys
      <4>2. <<q, m>> \in removed'
        BY <1>5, <3>4, <4>1 DEF DeleteApply
      <4> QED BY <1>1, <4>2
    <3>5. CASE DropTree(t)
      <4>1. q = queue[t]
        BY <1>1, <1>5, <2>0, <3>5, WorkerTypes DEF DropTree
      <4>2. <<q, m>> \in removed'
        BY <1>5, <3>5, <4>1 DEF DropTree
      <4> QED BY <1>1, <4>2
    <3> QED BY <2>1, <3>1, <3>2, <3>3, <3>4, <3>5 DEF Work
  <2>2. ASSUME NEW t \in Threads, Request(t) PROVE UNCHANGED store
    BY <2>2 DEF Request, SendToQueue, CreateQueue, CloseQueue, DeleteQueue
  <2>3. ASSUME NEW c \in Conns, Stream(c) \/ Client(c) PROVE UNCHANGED store
    BY <2>3
    DEF Stream, Client, Subscribe, SubscribeOpen, SubscribeRead, SubscribeLock,
        YieldPrev, YieldLive, StreamEnds, ClientGone
  <2>4. CASE UNCHANGED vars
    BY <1>5, <2>0, <2>4 DEF vars
  <2> QED BY <1>5, <2>0, <2>1, <2>2, <2>3, <2>4 DEF Next
<1> QED BY <1>3, <1>4, <1>5 DEF Kept

\* Workers that a step leaves alone: every one but t.
WorkersKept(W) ==
  \A u \in W : /\ pc'[u] = pc[u] /\ queue'[u] = queue[u]
               /\ msg'[u] = msg[u] /\ batch'[u] = batch[u]

\* The invariant holds of them after the step.
LEMMA KeepOthers ==
  ASSUME TypeInv', KeepInv, inserted \subseteq inserted', generated \subseteq generated',
         NEW W \in SUBSET Threads, WorkersKept(W)
  PROVE  \A u \in W :
           /\ pc'[u] \in Sequenced => \E g \in generated' : Numbered(g, queue'[u], msg'[u])
           /\ pc'[u] \in {"scan", "trim"} => MaxKeyUpdates # NoLimit
           /\ pc'[u] = "trim" =>
                \A m \in Sent : KeyOf(m) \in batch'[u] => Superseded(queue[u], m)'
<1> SUFFICES ASSUME NEW u \in W
             PROVE  /\ pc'[u] \in Sequenced => \E g \in generated' : Numbered(g, queue'[u], msg'[u])
                    /\ pc'[u] \in {"scan", "trim"} => MaxKeyUpdates # NoLimit
                    /\ pc'[u] = "trim" =>
                         \A m \in Sent : KeyOf(m) \in batch'[u] => Superseded(queue[u], m)'
  OBVIOUS
<1>1. /\ pc'[u] = pc[u] /\ queue'[u] = queue[u] /\ msg'[u] = msg[u] /\ batch'[u] = batch[u]
      /\ u \in Threads
  BY DEF WorkersKept
<1>2. pc'[u] \in Sequenced => \E g \in generated' : Numbered(g, queue'[u], msg'[u])
  BY <1>1 DEF KeepInv, NumberedOK
<1>3. pc'[u] \in {"scan", "trim"} => MaxKeyUpdates # NoLimit
  BY <1>1 DEF KeepInv, BatchOK
<1>4. ASSUME pc'[u] = "trim", NEW m \in Sent, KeyOf(m) \in batch'[u]
      PROVE  Superseded(queue[u], m)'
  <2>1. PICK q : q = queue[u]
    OBVIOUS
  <2>2. Superseded(q, m)
    BY <1>1, <1>4, <2>1 DEF KeepInv, BatchOK
  <2>3. Superseded(q, m)'
    BY <2>2, SupersededStays
  <2>4. q = queue'[u]
    BY <1>1, <2>1
  <2> QED BY <2>3, <2>4
<1> QED BY <1>2, <1>3, <1>4

LEMMA KeepNext ==
  ASSUME TypeInv, TypeInv', SequenceInv, KeepInv, Plain, [Next]_vars
  PROVE  KeepInv'
<1>0. /\ inserted \subseteq inserted' /\ generated \subseteq generated'
      /\ UniqueKeys /\ StoreOK /\ NumberedOK /\ BatchOK /\ UniqueKeys'
  BY PastGrows, UniqueNext DEF KeepInv
<1>1. StoreOK'
  <2> SUFFICES ASSUME NEW q \in Queues, NEW m \in store'[q]
               PROVE  <<q, m>> \in inserted' /\ \E g \in generated' : Numbered(g, q, m)
    BY DEF StoreOK
  <2>1. CASE m \in store[q]
    BY <1>0, <2>1 DEF StoreOK
  <2>2. CASE m \notin store[q]
    <3>1. PICK t \in Threads : Insert(t)
      BY <2>2, StoreSteps
    <3>2. pc[t] = "insert" /\ queue[t] = q /\ m = msg[t] /\ <<q, m>> \in inserted'
      BY <2>2, <3>1, WorkerTypes DEF Insert, InsertInto
    <3> QED BY <1>0, <3>2 DEF NumberedOK
  <2> QED BY <2>1, <2>2
<1> DEFINE Good(u) ==
             /\ pc'[u] \in Sequenced => \E g \in generated' : Numbered(g, queue'[u], msg'[u])
             /\ pc'[u] \in {"scan", "trim"} => MaxKeyUpdates # NoLimit
             /\ pc'[u] = "trim" =>
                  \A m \in Sent : KeyOf(m) \in batch'[u] => Superseded(queue[u], m)'
<1>2. SUFFICES \A u \in Threads : Good(u)
  <2>1. (\A u \in Threads : Good(u)) => NumberedOK' /\ BatchOK'
    BY DEF NumberedOK, BatchOK
  <2> QED BY <1>0, <1>1, <1>2, <2>1 DEF KeepInv
<1>3. ASSUME NEW W \in SUBSET Threads, WorkersKept(W) PROVE \A u \in W : Good(u)
  BY <1>0, <1>3, KeepOthers
<1>4. ASSUME NEW t \in Threads, WorkersKept(Threads \ {t}), Good(t)
      PROVE  \A u \in Threads : Good(u)
  <2>1. Threads \ {t} \in SUBSET Threads
    OBVIOUS
  <2>2. \A u \in Threads \ {t} : Good(u)
    BY <1>3, <1>4, <2>1
  <2> QED BY <1>4, <2>2
<1>5. ASSUME NEW t \in Threads, Work(t) PROVE \A u \in Threads : Good(u)
  <2>1. WorkersKept(Threads \ {t})
    BY <1>5, WorkerTypes
    DEF Work, GenerateNextId, OpenTree, Insert, ScanSurplus, Trim, SendFails, Broadcast,
        DeleteScan, DeleteApply, DropTree, Answer, WorkersKept
  <2>2. CASE GenerateNextId(t)
    <3> DEFINE k == CounterKey[<<queue[t], msg[t].id>>]
               n == NextSequence(ids[k])
               new == [key |-> k, seq |-> n, uid |-> msg[t].uid]
    <3>1. /\ pc'[t] = AfterSequence /\ queue'[t] = queue[t]
          /\ msg'[t].uid = msg[t].uid /\ msg'[t].id = msg[t].id /\ msg'[t].seq = n
          /\ new \in generated'
      BY <2>2, WorkerTypes DEF GenerateNextId, Draft
    <3>2. Numbered(new, queue'[t], msg'[t])
      BY <3>1 DEF Numbered
    <3>3. pc'[t] \in {"open", "broadcast"}
      BY <3>1 DEF AfterSequence
    <3>4. Good(t)
      BY <3>1, <3>2, <3>3
    <3> QED BY <1>4, <2>1, <3>4
  <2>3. CASE OpenTree(t) \/ Insert(t)
    <3>1. /\ pc[t] \in Sequenced /\ queue'[t] = queue[t] /\ msg'[t] = msg[t]
          /\ pc'[t] # "trim" /\ (pc'[t] = "scan" => MaxKeyUpdates # NoLimit)
      BY <2>3, WorkerTypes DEF OpenTree, Insert
    <3>2. Good(t)
      BY <1>0, <3>1 DEF NumberedOK
    <3> QED BY <1>4, <2>1, <3>2
  <2>4. CASE ScanSurplus(t)
    <3>1. /\ pc[t] = "scan" /\ queue'[t] = queue[t] /\ msg'[t] = msg[t]
          /\ queue[t] \in Queues /\ msg[t].id \in Ids
          /\ batch'[t] = Surplus(store[queue[t]], msg[t].id, MaxKeyUpdates)
          /\ UNCHANGED inserted
      BY <2>4, WorkerTypes
      DEF ScanSurplus, TypeInv, TypeOK, ProcType, SendType, Sent
    <3>2. MaxKeyUpdates # NoLimit /\ MaxKeyUpdates \in Nat
      BY <1>0, <3>1, QueueAssumption DEF BatchOK
    <3>3. ASSUME NEW m \in Sent, KeyOf(m) \in batch'[t] PROVE Superseded(queue[t], m)'
      <4>1. PICK q \in Queues : q = queue[t]
        BY <3>1
      <4>2. PICK i \in Ids : i = msg[t].id
        BY <3>1
      <4>3. KeyOf(m) \in Surplus(store[q], i, MaxKeyUpdates)
        BY <3>1, <3>3, <4>1, <4>2
      <4>4. Cardinality(NewerThan(q, m)) >= MaxKeyUpdates - 1
        BY <1>0, <3>2, <4>3, SurplusSuperseded
      <4>5. Superseded(q, m)
        BY <3>2, <4>4 DEF Superseded
      <4>6. Superseded(q, m)'
        BY <1>0, <4>5, SupersededStays
      <4> QED BY <3>1, <4>1, <4>6
    <3>4. Good(t)
      BY <1>0, <3>1, <3>2, <3>3 DEF NumberedOK
    <3> QED BY <1>4, <2>1, <3>4
  <2>5. CASE Trim(t)
    <3>1. /\ pc[t] = "trim" /\ queue'[t] = queue[t] /\ msg'[t] = msg[t]
          /\ pc'[t] = "broadcast"
      BY <2>5, WorkerTypes DEF Trim
    <3>2. Good(t)
      BY <1>0, <3>1 DEF NumberedOK
    <3> QED BY <1>4, <2>1, <3>2
  <2>6. CASE SendFails(t) \/ Broadcast(t) \/ DeleteScan(t) \/ DeleteApply(t) \/ DropTree(t)
    <3>1. pc'[t] \in {"idle", "d_apply"}
      BY <2>6, WorkerTypes
      DEF SendFails, Broadcast, DeleteScan, DeleteApply, DropTree, Answer
    <3>2. Good(t)
      BY <3>1
    <3> QED BY <1>4, <2>1, <3>2
  <2> QED BY <1>5, <2>2, <2>3, <2>4, <2>5, <2>6 DEF Work
<1>6. ASSUME NEW t \in Threads, Request(t) PROVE \A u \in Threads : Good(u)
  <2>1. WorkersKept(Threads \ {t})
    <3>1. ASSUME NEW q \in Queues, NEW i \in Ids, SendToQueue(t, q, i, 0)
          PROVE  WorkersKept(Threads \ {t})
      BY <3>1, WorkerTypes DEF SendToQueue, WorkersKept
    <3>2. ASSUME NEW q \in Queues, CreateQueue(t, q) \/ CloseQueue(t, q)
          PROVE  WorkersKept(Threads \ {t})
      BY <3>2, WorkerTypes DEF CreateQueue, CloseQueue, WorkersKept
    <3>3. ASSUME NEW q \in Queues, NEW i \in Ids, DeleteQueue(t, q, i)
          PROVE  WorkersKept(Threads \ {t})
      BY <3>3, WorkerTypes DEF DeleteQueue, WorkersKept
    <3> QED BY <1>6, <3>1, <3>2, <3>3 DEF Request, Plain
  <2>2. pc'[t] \notin Sequenced
    <3>1. ASSUME NEW q \in Queues, NEW i \in Ids, SendToQueue(t, q, i, 0)
          PROVE  pc'[t] \in {"idle", "generate"}
      BY <3>1, WorkerTypes DEF SendToQueue
    <3>2. ASSUME NEW q \in Queues, CreateQueue(t, q) \/ CloseQueue(t, q)
          PROVE  pc'[t] \in {"idle", "drop"}
      BY <3>2, WorkerTypes DEF CreateQueue, CloseQueue
    <3>3. ASSUME NEW q \in Queues, NEW i \in Ids, DeleteQueue(t, q, i)
          PROVE  pc'[t] = "d_scan"
      BY <3>3, WorkerTypes DEF DeleteQueue
    <3> QED BY <1>6, <3>1, <3>2, <3>3 DEF Request, Plain
  <2>3. Good(t)
    BY <2>2
  <2> QED BY <1>4, <2>1, <2>3
<1>7. ASSUME NEW c \in Conns, Stream(c) \/ Client(c) PROVE \A u \in Threads : Good(u)
  <2>1. UNCHANGED <<msg, batch>>
    BY <1>7
    DEF Stream, Client, Subscribe, SubscribeOpen, SubscribeRead, SubscribeLock,
        YieldPrev, YieldLive, StreamEnds, ClientGone
  <2>2. \A t \in Threads : pc'[t] = pc[t]
    BY <1>7, QueueAssumption, WorkerTypes
    DEF Stream, Client, Subscribe, SubscribeOpen, SubscribeRead, SubscribeLock,
        Refused, YieldPrev, YieldLive, StreamEnds, ClientGone, HandOut, LongpollTakes,
        ConnectionHandles, DropStream
  <2>3. \A t \in Threads : queue'[t] = queue[t]
    BY <1>7, QueueAssumption, WorkerTypes
    DEF Stream, Client, Subscribe, SubscribeOpen, SubscribeRead, SubscribeLock,
        YieldPrev, YieldLive, StreamEnds, ClientGone
  <2>4. WorkersKept(Threads) /\ Threads \in SUBSET Threads
    BY <2>1, <2>2, <2>3 DEF WorkersKept
  <2> QED BY <1>3, <2>4
<1>8. CASE UNCHANGED vars
  <2>1. WorkersKept(Threads) /\ Threads \in SUBSET Threads
    BY <1>8 DEF vars, WorkersKept
  <2> QED BY <1>3, <2>1
<1> QED BY <1>5, <1>6, <1>7, <1>8 DEF Next

LEMMA KeepInit == Init => KeepInv
<1> SUFFICES ASSUME Init PROVE KeepInv
  OBVIOUS
<1>1. (\A t \in Threads : pc[t] = "idle") /\ (\A q \in Queues : store[q] = {})
  BY DEF Init, Procs
<1> QED BY <1>1 DEF KeepInv, UniqueKeys, StoreOK, NumberedOK, BatchOK, Sequenced

\* A send that stores at all has inserted its message before it broadcasts it.
SentInv ==
  MaxKeyUpdates # 0 =>
    /\ \A t \in Threads :
         pc[t] \in {"scan", "trim", "broadcast"} => <<queue[t], msg[t]>> \in inserted
    /\ acked \subseteq inserted

LEMMA SentNext ==
  ASSUME TypeInv, SentInv, Plain, [Next]_vars
  PROVE  SentInv'
<1> SUFFICES ASSUME MaxKeyUpdates # 0
             PROVE  /\ \A t \in Threads :
                         pc'[t] \in {"scan", "trim", "broadcast"} =>
                           <<queue'[t], msg'[t]>> \in inserted'
                    /\ acked' \subseteq inserted'
  BY DEF SentInv
<1> DEFINE Good(u) == pc'[u] \in {"scan", "trim", "broadcast"} =>
                        <<queue'[u], msg'[u]>> \in inserted'
<1>0. /\ inserted \subseteq inserted' /\ acked \subseteq inserted
      /\ \A t \in Threads :
           pc[t] \in {"scan", "trim", "broadcast"} => <<queue[t], msg[t]>> \in inserted
  BY PastGrows DEF SentInv
<1>1. ASSUME NEW u \in Threads, pc'[u] = pc[u], queue'[u] = queue[u], msg'[u] = msg[u]
      PROVE  Good(u)
  BY <1>0, <1>1
<1>2. ASSUME NEW t \in Threads, Work(t)
      PROVE  (\A u \in Threads : Good(u)) /\ acked' \subseteq inserted'
  <2>1. \A u \in Threads \ {t} : pc'[u] = pc[u] /\ queue'[u] = queue[u] /\ msg'[u] = msg[u]
    BY <1>2, WorkerTypes
    DEF Work, GenerateNextId, OpenTree, Insert, ScanSurplus, Trim, SendFails, Broadcast,
        DeleteScan, DeleteApply, DropTree, Answer
  <2>2. CASE GenerateNextId(t) \/ OpenTree(t) \/ SendFails(t) \/ DeleteScan(t)
             \/ DeleteApply(t) \/ DropTree(t)
    <3>1. pc'[t] \in {"open", "insert", "idle", "d_apply"} /\ UNCHANGED acked
      BY <2>2, WorkerTypes
      DEF GenerateNextId, OpenTree, SendFails, DeleteScan, DeleteApply, DropTree, Answer,
          AfterSequence
    <3> QED BY <1>0, <1>1, <2>1, <3>1
  <2>3. CASE Insert(t)
    <3>1. /\ queue'[t] = queue[t] /\ msg'[t] = msg[t] /\ UNCHANGED acked
          /\ <<queue[t], msg[t]>> \in inserted'
      BY <2>3, WorkerTypes DEF Insert
    <3> QED BY <1>0, <1>1, <2>1, <3>1
  <2>4. CASE ScanSurplus(t) \/ Trim(t)
    <3>1. /\ pc[t] \in {"scan", "trim"} /\ queue'[t] = queue[t] /\ msg'[t] = msg[t]
          /\ UNCHANGED acked
      BY <2>4, WorkerTypes DEF ScanSurplus, Trim
    <3> QED BY <1>0, <1>1, <2>1, <3>1
  <2>5. CASE Broadcast(t)
    <3>1. /\ pc[t] = "broadcast" /\ pc'[t] = "idle"
          /\ acked' = acked \cup {<<queue[t], msg[t]>>}
      BY <2>5, WorkerTypes DEF Broadcast, Answer
    <3> QED BY <1>0, <1>1, <2>1, <3>1
  <2> QED BY <1>2, <2>2, <2>3, <2>4, <2>5 DEF Work
<1>3. ASSUME NEW t \in Threads, Request(t)
      PROVE  (\A u \in Threads : Good(u)) /\ acked' \subseteq inserted'
  <2> DEFINE Others ==
        /\ \A u \in Threads \ {t} :
             pc'[u] = pc[u] /\ queue'[u] = queue[u] /\ msg'[u] = msg[u]
        /\ UNCHANGED acked
  <2>1. Others
    <3>1. ASSUME NEW q \in Queues, NEW i \in Ids, SendToQueue(t, q, i, 0)
          PROVE  Others
      BY <3>1, WorkerTypes DEF SendToQueue
    <3>2. ASSUME NEW q \in Queues, CreateQueue(t, q) \/ CloseQueue(t, q)
          PROVE  Others
      BY <3>2, WorkerTypes DEF CreateQueue, CloseQueue
    <3>3. ASSUME NEW q \in Queues, NEW i \in Ids, DeleteQueue(t, q, i)
          PROVE  Others
      BY <3>3, WorkerTypes DEF DeleteQueue
    <3> QED BY <1>3, <3>1, <3>2, <3>3 DEF Request, Plain
  <2>2. pc'[t] \in {"idle", "generate", "drop", "d_scan"}
    <3>1. ASSUME NEW q \in Queues, NEW i \in Ids, SendToQueue(t, q, i, 0)
          PROVE  pc'[t] \in {"idle", "generate"}
      BY <3>1, WorkerTypes DEF SendToQueue
    <3>2. ASSUME NEW q \in Queues, CreateQueue(t, q) \/ CloseQueue(t, q)
          PROVE  pc'[t] \in {"idle", "drop"}
      BY <3>2, WorkerTypes DEF CreateQueue, CloseQueue
    <3>3. ASSUME NEW q \in Queues, NEW i \in Ids, DeleteQueue(t, q, i)
          PROVE  pc'[t] = "d_scan"
      BY <3>3, WorkerTypes DEF DeleteQueue
    <3> QED BY <1>3, <3>1, <3>2, <3>3 DEF Request, Plain
  <2> QED BY <1>0, <1>1, <2>1, <2>2
<1>4. ASSUME NEW c \in Conns, Stream(c) \/ Client(c)
      PROVE  (\A u \in Threads : Good(u)) /\ acked' \subseteq inserted'
  <2>1. UNCHANGED <<msg, acked>>
    BY <1>4
    DEF Stream, Client, Subscribe, SubscribeOpen, SubscribeRead, SubscribeLock,
        YieldPrev, YieldLive, StreamEnds, ClientGone
  <2>2. \A t \in Threads : pc'[t] = pc[t]
    BY <1>4, QueueAssumption, WorkerTypes
    DEF Stream, Client, Subscribe, SubscribeOpen, SubscribeRead, SubscribeLock,
        Refused, YieldPrev, YieldLive, StreamEnds, ClientGone, HandOut, LongpollTakes,
        ConnectionHandles, DropStream
  <2>3. \A t \in Threads : queue'[t] = queue[t]
    BY <1>4, QueueAssumption, WorkerTypes
    DEF Stream, Client, Subscribe, SubscribeOpen, SubscribeRead, SubscribeLock,
        YieldPrev, YieldLive, StreamEnds, ClientGone
  <2> QED BY <1>0, <1>1, <2>1, <2>2, <2>3
<1>5. CASE UNCHANGED vars
  BY <1>0, <1>1, <1>5 DEF vars
<1> QED BY <1>2, <1>3, <1>4, <1>5 DEF Next

\* Every message ever inserted is accounted for.
AllKept == \A a \in inserted : Kept(a)

LEMMA AllKeptNext ==
  ASSUME TypeInv, TypeInv', SequenceInv, KeepInv, AllKept, [Next]_vars
  PROVE  AllKept'
<1> SUFFICES ASSUME NEW a \in inserted' PROVE Kept(a)'
  BY DEF AllKept
<1>1. CASE a \in inserted
  <2>1. a \in Queues \X Sent /\ Kept(a)
    BY <1>1 DEF AllKept, TypeInv, TypeOK, PastType
  <2> QED BY <2>1, KeptStep
<1>2. CASE a \notin inserted
  <2>1. PICK t \in Threads : Insert(t)
    <3>1. ASSUME NEW t \in Threads, Work(t), ~Insert(t) PROVE UNCHANGED inserted
      BY <3>1
      DEF Work, GenerateNextId, OpenTree, ScanSurplus, Trim, SendFails, Broadcast,
          DeleteScan, DeleteApply, DropTree
    <3>2. ASSUME NEW t \in Threads, Request(t) PROVE UNCHANGED inserted
      BY <3>2 DEF Request, SendToQueue, CreateQueue, CloseQueue, DeleteQueue
    <3>3. ASSUME NEW c \in Conns, Stream(c) \/ Client(c) PROVE UNCHANGED inserted
      BY <3>3
      DEF Stream, Client, Subscribe, SubscribeOpen, SubscribeRead, SubscribeLock,
          YieldPrev, YieldLive, StreamEnds, ClientGone
    <3>4. UNCHANGED vars => UNCHANGED inserted
      BY DEF vars
    <3> QED BY <1>2, <3>1, <3>2, <3>3, <3>4 DEF Next
  <2>2. a = <<queue[t], msg[t]>> /\ queue[t] \in Queues
    BY <1>2, <2>1 DEF Insert, TypeInv, TypeOK, ProcType, Procs
  <2>3. store'[queue[t]] = InsertInto(store[queue[t]], msg[t])
    BY <2>1, <2>2, WorkerTypes DEF Insert
  <2>4. a[2] \in store'[a[1]]
    BY <2>2, <2>3 DEF InsertInto
  <2> QED BY <2>4 DEF Kept
<1> QED BY <1>1, <1>2

\* Where senders leave the sequence to the server and no id starts with
\* another, for any number of workers, queues and ids: a message whose send
\* was answered stays in its tree until a delete or a close takes it or as
\* many newer versions were inserted as the trim of send_to_queue skips, which
\* is max_key_updates - 1; no interleaving of sends overwrites it or trims it
\* earlier than that.
THEOREM AnsweredKept == ASSUME Plain PROVE Spec => []TrimmedOnlyIfSuperseded
<1> DEFINE Inv == TypeInv /\ SequenceInv /\ KeepInv /\ SentInv /\ AllKept
<1>1. Init => Inv
  <2>1. Init => SequenceInv
    BY DEF Init, SequenceInv, UidsOK, SequencesDense, NoMsg
  <2>2. Init => SentInv /\ AllKept
    BY DEF Init, SentInv, AllKept, Procs
  <2> QED BY <2>1, <2>2, TypeInit, KeepInit
<1>2. Inv /\ [Next]_vars => Inv'
  <2> SUFFICES ASSUME Inv, [Next]_vars PROVE Inv'
    OBVIOUS
  <2>1. TypeInv'
    BY TypeNext
  <2>2. SequenceInv' /\ KeepInv' /\ SentInv' /\ AllKept'
    BY <2>1, SequenceNext, KeepNext, SentNext, AllKeptNext
  <2> QED BY <2>1, <2>2
<1>3. Inv => TrimmedOnlyIfSuperseded
  BY DEF SentInv, AllKept, Kept, Superseded, TrimmedOnlyIfSuperseded
<1> HIDE DEF Inv
<1> QED BY <1>1, <1>2, <1>3, PTL DEF Spec
=============================================================================
