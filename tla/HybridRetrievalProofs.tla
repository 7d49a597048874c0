------------------------ MODULE HybridRetrievalProofs ------------------------
(***************************************************************************)
(* Proofs about HybridRetrieval, for any stores, facts and requests.  In   *)
(* this order:                                                             *)
(*   - the lists that Ordering defines: each member once and in the order  *)
(*     of the keys, and what a stable sort or a selection has elements of; *)
(*   - the queries: each row is a walk over stored relationships from the  *)
(*     entity asked for, and an item's chunks are those its path names;    *)
(*   - fusion: scores, ranks and the order of the fused list;              *)
(*   - the stores, under any order of the store calls of index requests,   *)
(*     and the types (Inv);                                                *)
(*   - what a request has gathered (Gathered): true of the stores as they  *)
(*     are if none was written since the request began (quiet), and of     *)
(*     facts that extractions gave rise to in any case;                    *)
(*   - the theorems.                                                       *)
(***************************************************************************)
EXTENDS HybridRetrieval, FiniteSetTheorems, WellFoundedInduction, SequenceTheorems, TLAPS

-----------------------------------------------------------------------------
(* Lists in an order. *)

\* A non-empty set of numbers has a smallest one: the sets of predecessors are
\* well-founded by strict inclusion.
LEMMA SmallestNumber ==
    ASSUME NEW S \in SUBSET Nat, S # {}
    PROVE  \E i \in S : \A j \in S : i <= j
  <1> DEFINE Below == {0..i : i \in S}
  <1>1. Below \subseteq FiniteSubsetsOf(Nat) /\ Below # {}
    <2>1. \A i \in S : IsFiniteSet(0..i)
      BY FS_Interval
    <2>2. \A i \in S : 0..i \in FiniteSubsetsOf(Nat)
      BY <2>1 DEF FiniteSubsetsOf
    <2> QED  BY <2>2
  <1>2. \E I \in Below : \A J \in Below : ~(<<J, I>> \in StrictSubsetOrdering(Nat))
    <2> HIDE DEF Below
    <2>1. IsWellFoundedOn(StrictSubsetOrdering(Nat), FiniteSubsetsOf(Nat))
      BY FS_StrictSubsetOrderingWellFounded
    <2> QED  BY <1>1, <2>1, WFMin, Zenon
  <1>3. PICK i \in S : \A J \in Below : ~(<<J, 0..i>> \in StrictSubsetOrdering(Nat))
    BY <1>2
  <1>4. ASSUME NEW j \in S, j < i PROVE FALSE
    <2>1. 0..j \subseteq 0..i /\ 0..j # 0..i
      BY <1>4
    <2>2. 0..j \in Below
      OBVIOUS
    <2>3. <<0..j, 0..i>> \in StrictSubsetOrdering(Nat)
      BY <2>1 DEF StrictSubsetOrdering
    <2> QED  BY <1>3, <2>2, <2>3
  <1> QED  BY <1>4

\* A bounded one has a largest: the smallest distance to the bound.
LEMMA LargestNumber ==
    ASSUME NEW n \in Nat, NEW S \in SUBSET (0..n), S # {}
    PROVE  \E i \in S : \A j \in S : j <= i
  <1> DEFINE Distances == {n - i : i \in S}
  <1>1. Distances \in SUBSET Nat /\ Distances # {}
    <2>1. \A i \in S : i \in Nat /\ n - i \in Nat
      OBVIOUS
    <2>2. Distances \in SUBSET Nat
      BY <2>1
    <2>3. PICK i \in S : TRUE
      OBVIOUS
    <2>4. n - i \in Distances
      OBVIOUS
    <2> QED  BY <2>2, <2>4
  <1>2. PICK d \in Distances : \A e \in Distances : d <= e
    BY <1>1, SmallestNumber
  <1>3. PICK i \in S : d = n - i
    BY <1>2
  <1>4. ASSUME NEW j \in S PROVE j <= i
    BY <1>2, <1>3
  <1> QED  BY <1>4

-----------------------------------------------------------------------------
(* The order of tuples. *)

\* The order of tuples is a strict total order: three lemmas.
LEMMA LexicographicTransitive ==
    ASSUME NEW n \in Nat, NEW a \in [1..n -> Int], NEW b \in [1..n -> Int], NEW c \in [1..n -> Int],
           Lexicographic(a, b), Lexicographic(b, c)
    PROVE  Lexicographic(a, c)
  <1>1. PICK i \in 1..n : a[i] < b[i] /\ \A k \in 1..(i - 1) : a[k] = b[k]
    BY DEF Lexicographic
  <1>2. PICK j \in 1..n : b[j] < c[j] /\ \A k \in 1..(j - 1) : b[k] = c[k]
    BY DEF Lexicographic
  <1>3. CASE i <= j
    <2>1. a[i] < c[i]
      BY <1>1, <1>2, <1>3
    <2>2. \A k \in 1..(i - 1) : a[k] = c[k]
      BY <1>1, <1>2, <1>3
    <2> QED  BY <2>1, <2>2 DEF Lexicographic
  <1>4. CASE j < i
    <2>1. a[j] < c[j]
      BY <1>1, <1>2, <1>4
    <2>2. \A k \in 1..(j - 1) : a[k] = c[k]
      BY <1>1, <1>2, <1>4
    <2> QED  BY <2>1, <2>2 DEF Lexicographic
  <1> QED  BY <1>3, <1>4

LEMMA LexicographicAsymmetric ==
    ASSUME NEW n \in Nat, NEW a \in [1..n -> Int], NEW b \in [1..n -> Int], Lexicographic(a, b)
    PROVE  ~Lexicographic(b, a) /\ a # b
  <1>1. ~Lexicographic(a, a)
    BY DEF Lexicographic
  <1> QED  BY <1>1, LexicographicTransitive

LEMMA LexicographicTotal ==
    ASSUME NEW n \in Nat, NEW a \in [1..n -> Int], NEW b \in [1..n -> Int], a # b
    PROVE  Lexicographic(a, b) \/ Lexicographic(b, a)
  <1> DEFINE D == {i \in 1..n : a[i] # b[i]}
  <1>1. D \in SUBSET Nat /\ D # {}
    OBVIOUS
  <1>2. PICK i \in D : \A j \in D : i <= j
    BY <1>1, SmallestNumber
  <1>3. \A k \in 1..(i - 1) : a[k] = b[k]
    BY <1>2
  <1>4. a[i] < b[i] \/ b[i] < a[i]
    OBVIOUS
  <1> QED  BY <1>3, <1>4 DEF Lexicographic

\* Numbers, as tuples of one.
LEMMA LexicographicNumbers ==
    ASSUME NEW x \in Int, NEW y \in Int
    PROVE  <<x>> \in [1..1 -> Int] /\ (Lexicographic(<<x>>, <<y>>) <=> x < y)
  <1>1. DOMAIN <<x>> = {1} /\ <<x>>[1] = x /\ <<y>>[1] = y
    OBVIOUS
  <1>2. \A j : j \notin 1..(1 - 1)
    OBVIOUS
  <1>3. Lexicographic(<<x>>, <<y>>) <=> x < y
    BY <1>1, <1>2 DEF Lexicographic
  <1> QED  BY <1>3

-----------------------------------------------------------------------------
(* Lists of sets. *)

\* An interval is finite, and this is its size.
LEMMA UpTo ==
    ASSUME NEW n \in Nat
    PROVE  IsFiniteSet(1..n) /\ Cardinality(1..n) = n
  BY FS_Interval

\* Every member has the place that counts those before it, and no two have the same.
LEMMA OrderedList ==
    ASSUME NEW S, IsFiniteSet(S), NEW n \in Nat, NEW key \in [S -> [1..n -> Int]],
           \A x, y \in S : key[x] = key[y] => x = y
    PROVE  /\ Ordered(S, key) \in [1..Cardinality(S) -> S]
           /\ \A x \in S : \E i \in 1..Cardinality(S) : Ordered(S, key)[i] = x
           /\ \A i, j \in 1..Cardinality(S) :
                i < j => Lexicographic(key[Ordered(S, key)[i]], key[Ordered(S, key)[j]])
  <1> DEFINE Before(x) == {y \in S : Lexicographic(key[y], key[x])}
             N == Cardinality(S)
             rank == [x \in S |-> Cardinality(Before(x))]
  <1>1. N \in Nat
    BY FS_CardinalityType
  <1>2. ASSUME NEW x \in S
        PROVE  IsFiniteSet(Before(x)) /\ rank[x] \in 0..(N - 1)
    <2>1. x \notin Before(x)
      BY LexicographicAsymmetric
    <2>2. IsFiniteSet(Before(x)) /\ Cardinality(Before(x)) <= N /\ Cardinality(Before(x)) # N
      BY <2>1, FS_Subset
    <2>3. Cardinality(Before(x)) \in Nat
      BY <2>2, FS_CardinalityType
    <2> QED  BY <1>1, <2>2, <2>3
  <1>3. ASSUME NEW x \in S, NEW y \in S, Lexicographic(key[x], key[y])
        PROVE  rank[x] < rank[y]
    <2>1. Before(x) \subseteq Before(y)
      <3> SUFFICES ASSUME NEW z \in Before(x) PROVE z \in Before(y)
        OBVIOUS
      <3> QED  BY <1>3, LexicographicTransitive
    <2>2. x \in Before(y) /\ x \notin Before(x)
      BY <1>3, LexicographicAsymmetric
    <2>3. Cardinality(Before(x)) <= Cardinality(Before(y))
          /\ Cardinality(Before(x)) # Cardinality(Before(y))
      BY <1>2, <2>1, <2>2, FS_Subset
    <2>4. Cardinality(Before(x)) \in Nat /\ Cardinality(Before(y)) \in Nat
      BY <1>2, FS_CardinalityType
    <2>5. Cardinality(Before(x)) < Cardinality(Before(y))
      BY <2>3, <2>4
    <2> QED  BY <2>5
  <1>4. \A x, y \in S : x = y \/ rank[x] < rank[y] \/ rank[y] < rank[x]
    <2> SUFFICES ASSUME NEW x \in S, NEW y \in S, x # y
                 PROVE  rank[x] < rank[y] \/ rank[y] < rank[x]
      OBVIOUS
    <2>1. key[x] # key[y]
      OBVIOUS
    <2>2. Lexicographic(key[x], key[y]) \/ Lexicographic(key[y], key[x])
      BY <2>1, LexicographicTotal
    <2> QED  BY <1>3, <2>2
  <1>5. rank \in Surjection(S, 0..(N - 1))
    <2>1. rank \in [S -> 0..(N - 1)]
      BY <1>2
    <2>2. rank \in Injection(S, 0..(N - 1))
      <3> HIDE DEF rank
      <3>1. \A x \in S : rank[x] \in Int
        BY <2>1
      <3>2. \A x, y \in S : rank[x] = rank[y] => x = y
        <4> SUFFICES ASSUME NEW x \in S, NEW y \in S, rank[x] = rank[y] PROVE x = y
          OBVIOUS
        <4>1. ~(rank[x] < rank[y]) /\ ~(rank[y] < rank[x])
          BY <3>1
        <4> QED  BY <1>4, <4>1
      <3> QED  BY <2>1, <3>2 DEF Injection, IsInjective
    <2>3. IsFiniteSet(0..(N - 1)) /\ Cardinality(0..(N - 1)) = N
      BY <1>1, FS_Interval
    <2> QED  BY <2>2, <2>3, FS_Injection
  <1> DEFINE o == Ordered(S, key)
  <1>6. o = [i \in 1..N |-> CHOOSE x \in S : Cardinality(Before(x)) = i - 1]
    BY DEF Ordered
  <1>7. \A i \in 1..N : o[i] \in S /\ rank[o[i]] = i - 1
    <2> SUFFICES ASSUME NEW i \in 1..N PROVE o[i] \in S /\ rank[o[i]] = i - 1
      OBVIOUS
    <2>1. i - 1 \in 0..(N - 1)
      BY <1>1
    <2>2. \E x \in S : rank[x] = i - 1
      <3> HIDE DEF rank
      <3> QED  BY <1>5, <2>1 DEF Surjection
    <2>3. \E x \in S : Cardinality(Before(x)) = i - 1
      BY <2>2
    <2>4. o[i] \in S /\ Cardinality(Before(o[i])) = i - 1
      <3> HIDE DEF Before
      <3> HIDE DEF o
      <3> QED  BY <1>6, <2>3
    <2> HIDE DEF o, Before
    <2> QED  BY <2>4
  <1>8. o \in [1..N -> S]
    <2> HIDE DEF o, rank, N
    <2> QED  BY <1>6, <1>7
  <1>9. \A x \in S : \E i \in 1..N : o[i] = x
    <2> SUFFICES ASSUME NEW x \in S PROVE \E i \in 1..N : o[i] = x
      OBVIOUS
    <2>1. rank[x] \in 0..(N - 1)
      BY <1>2
    <2> HIDE DEF o, rank, N
    <2>2. rank[x] + 1 \in 1..N /\ (rank[x] + 1) - 1 = rank[x]
      BY <1>1, <2>1
    <2>3. rank[o[rank[x] + 1]] = rank[x] /\ o[rank[x] + 1] \in S
      BY <1>7, <2>2
    <2>4. rank[x] \in Int
      BY <1>1, <2>1
    <2>5. ~(rank[o[rank[x] + 1]] < rank[x]) /\ ~(rank[x] < rank[o[rank[x] + 1]])
      BY <2>3, <2>4
    <2>6. o[rank[x] + 1] = x
      BY <1>4, <2>3, <2>5
    <2> QED  BY <2>2, <2>6
  <1>10. \A i, j \in 1..N : i < j => Lexicographic(key[o[i]], key[o[j]])
    <2> SUFFICES ASSUME NEW i \in 1..N, NEW j \in 1..N, i < j
                 PROVE  Lexicographic(key[o[i]], key[o[j]])
      OBVIOUS
    <2> HIDE DEF o, rank, N
    <2>1. o[i] \in S /\ o[j] \in S /\ rank[o[i]] < rank[o[j]]
      BY <1>1, <1>7
    <2>2. ~(rank[o[j]] < rank[o[i]]) /\ rank[o[i]] # rank[o[j]]
      BY <1>1, <1>7
    <2>3. key[o[i]] # key[o[j]]
      BY <2>1, <2>2
    <2>4. Lexicographic(key[o[i]], key[o[j]]) \/ Lexicographic(key[o[j]], key[o[i]])
      BY <2>1, <2>3, LexicographicTotal
    <2> QED  BY <1>3, <2>1, <2>2, <2>4
  <1> QED  BY <1>8, <1>9, <1>10

\* Numbers in ascending order, each of them once.
LEMMA AscendingList ==
    ASSUME NEW S \in SUBSET Nat, IsFiniteSet(S)
    PROVE  /\ Ascending(S) \in [1..Cardinality(S) -> S]
           /\ \A x \in S : \E i \in 1..Cardinality(S) : Ascending(S)[i] = x
           /\ \A i, j \in 1..Cardinality(S) : i < j => Ascending(S)[i] < Ascending(S)[j]
  <1> DEFINE key == [n \in S |-> <<n>>]
  <1>1. key \in [S -> [1..1 -> Int]]
    OBVIOUS
  <1>2. \A x, y \in S : key[x] = key[y] => x = y
    OBVIOUS
  <1>3. \A x, y \in S : Lexicographic(key[x], key[y]) => x < y
    BY LexicographicNumbers
  <1>4. Ascending(S) = Ordered(S, key)
    BY DEF Ascending
  <1> HIDE DEF key
  <1> DEFINE list == Ordered(S, key)  N == Cardinality(S)
  <1>5. /\ list \in [1..N -> S]
        /\ \A x \in S : \E i \in 1..N : list[i] = x
        /\ \A i, j \in 1..N : i < j => Lexicographic(key[list[i]], key[list[j]])
    <2>1. 1 \in Nat
      OBVIOUS
    <2> QED  BY <1>1, <1>2, <2>1, OrderedList
  <1> HIDE DEF list, N
  <1>6. \A i, j \in 1..N : i < j => list[i] < list[j]
    BY <1>3, <1>5
  <1> QED  BY <1>4, <1>5, <1>6 DEF list, N

\* What At selects, by the places it takes the elements from.
LEMMA Selection ==
    ASSUME NEW T, NEW list \in Seq(T), NEW places \in SUBSET (1..Len(list))
    PROVE  \E m \in 0..Len(list) : \E order \in [1..m -> places] :
             /\ \A p \in places : \E i \in 1..m : order[i] = p
             /\ \A i, j \in 1..m : i < j => order[i] < order[j]
             /\ At(list, places) = [i \in 1..m |-> list[order[i]]]
             /\ At(list, places) \in Seq(T)
  <1> DEFINE m == Cardinality(places)  order == Ascending(places)
  <1>1. IsFiniteSet(places) /\ m \in 0..Len(list)
    <2>1. Len(list) \in Nat
      OBVIOUS
    <2>2. IsFiniteSet(1..Len(list)) /\ Cardinality(1..Len(list)) = Len(list)
      BY <2>1, UpTo
    <2>3. IsFiniteSet(places) /\ Cardinality(places) <= Len(list)
      BY <2>2, FS_Subset
    <2> QED  BY <2>1, <2>3, FS_CardinalityType
  <1>2. /\ order \in [1..m -> places]
        /\ \A p \in places : \E i \in 1..m : order[i] = p
        /\ \A i, j \in 1..m : i < j => order[i] < order[j]
    BY <1>1, AscendingList
  <1>3. At(list, places) = [i \in 1..m |-> list[order[i]]]
    BY <1>2 DEF At
  <1>4. [i \in 1..m |-> list[order[i]]] \in Seq(T)
    <2> HIDE DEF m, order
    <2>1. \A i \in 1..m : order[i] \in 1..Len(list)
      BY <1>2
    <2>2. m \in Nat /\ \A i \in 1..m : list[order[i]] \in T
      BY <1>1, <2>1
    <2> QED  BY <2>2
  <1> HIDE DEF m, order
  <1> QED  BY <1>1, <1>2, <1>3, <1>4

\* What is picked of a list: its members of S, each of them.
LEMMA PickedList ==
    ASSUME NEW T, NEW list \in Seq(T), NEW S
    PROVE  /\ Picked(list, S) \in Seq(T) /\ Len(Picked(list, S)) <= Len(list)
           /\ \A i \in 1..Len(Picked(list, S)) :
                Picked(list, S)[i] \in S /\ \E k \in 1..Len(list) : list[k] = Picked(list, S)[i]
           /\ \A k \in 1..Len(list) :
                list[k] \in S => \E i \in 1..Len(Picked(list, S)) : Picked(list, S)[i] = list[k]
  <1> DEFINE places == {k \in 1..Len(list) : list[k] \in S}
  <1>1. Picked(list, S) = At(list, places)
    <2>1. places = {k \in DOMAIN list : list[k] \in S}
      OBVIOUS
    <2> QED  BY <2>1 DEF Picked
  <1>2. PICK m \in 0..Len(list) : \E order \in [1..m -> places] :
             /\ \A p \in places : \E i \in 1..m : order[i] = p
             /\ \A i, j \in 1..m : i < j => order[i] < order[j]
             /\ At(list, places) = [i \in 1..m |-> list[order[i]]]
             /\ At(list, places) \in Seq(T)
    BY Selection
  <1>3. PICK order \in [1..m -> places] :
             /\ \A p \in places : \E i \in 1..m : order[i] = p
             /\ At(list, places) = [i \in 1..m |-> list[order[i]]]
             /\ At(list, places) \in Seq(T)
    BY <1>2
  <1> DEFINE picked == At(list, places)
  <1>4. Len(picked) = m /\ picked \in Seq(T)
    BY <1>3
  <1>5. \A i \in 1..m : picked[i] \in S /\ \E k \in 1..Len(list) : list[k] = picked[i]
    BY <1>3
  <1>6. \A k \in 1..Len(list) : list[k] \in S => \E i \in 1..m : picked[i] = list[k]
    <2> SUFFICES ASSUME NEW k \in 1..Len(list), list[k] \in S PROVE \E i \in 1..m : picked[i] = list[k]
      OBVIOUS
    <2>1. PICK i \in 1..m : order[i] = k
      BY <1>3
    <2> QED  BY <1>3, <2>1
  <1> HIDE DEF picked, places
  <1> QED  BY <1>1, <1>4, <1>5, <1>6 DEF picked

\* All elements are picked exactly if the list stays as it is.
LEMMA PickedAll ==
    ASSUME NEW T, NEW list \in Seq(T), NEW S
    PROVE  Picked(list, S) = list <=> \A k \in 1..Len(list) : list[k] \in S
  <1>1. ASSUME Picked(list, S) = list, NEW k \in 1..Len(list) PROVE list[k] \in S
    BY <1>1, PickedList
  <1>2. ASSUME \A k \in 1..Len(list) : list[k] \in S PROVE Picked(list, S) = list
    <2> DEFINE n == Len(list)  key == [i \in 1..n |-> <<i>>]
               Before(x) == {y \in 1..n : Lexicographic(key[y], key[x])}
               order == Ascending(1..n)
    <2>1. n \in Nat
      OBVIOUS
    <2>2. \A x \in 1..n : Cardinality(Before(x)) = x - 1
      <3> SUFFICES ASSUME NEW x \in 1..n PROVE Cardinality(Before(x)) = x - 1
        OBVIOUS
      <3>0. \A y \in 1..n : key[y] = <<y>> /\ y \in Int
        OBVIOUS
      <3>1. \A y \in 1..n : Lexicographic(key[y], key[x]) <=> y < x
        <4> HIDE DEF key
        <4> QED  BY <3>0, LexicographicNumbers
      <3>2. Before(x) = 1..(x - 1)
        BY <3>1
      <3>3. x - 1 \in Nat
        OBVIOUS
      <3>4. Cardinality(1..(x - 1)) = x - 1
        BY <3>3, UpTo
      <3> HIDE DEF Before
      <3> QED  BY <3>2, <3>4
    <2>3. Cardinality(1..n) = n
      <3> HIDE DEF n
      <3> QED  BY <2>1, UpTo
    <2>4. order = [i \in 1..n |-> CHOOSE x \in 1..n : Cardinality(Before(x)) = i - 1]
      <3>1. order = Ordered(1..n, key)
        BY DEF Ascending
      <3> HIDE DEF key
      <3>2. Ordered(1..n, key) = [i \in 1..Cardinality(1..n) |->
                                    CHOOSE x \in 1..n : Cardinality(Before(x)) = i - 1]
        BY DEF Ordered
      <3> HIDE DEF order, Before
      <3> QED  BY <2>3, <3>1, <3>2
    <2>5. \A i \in 1..n : order[i] = i
      <3> SUFFICES ASSUME NEW i \in 1..n PROVE order[i] = i
        OBVIOUS
      <3> HIDE DEF Before, order, n
      <3>1. \E x \in 1..n : Cardinality(Before(x)) = i - 1
        BY <2>2
      <3>2. order[i] \in 1..n /\ Cardinality(Before(order[i])) = i - 1
        BY <2>4, <3>1
      <3> QED  BY <2>1, <2>2, <3>2
    <2>6. {k \in DOMAIN list : list[k] \in S} = 1..n
      BY <1>2
    <2>7. Picked(list, S) = [i \in DOMAIN order |-> list[order[i]]]
      BY <2>6 DEF Picked, At
    <2>8. DOMAIN order = 1..n
      BY <2>4
    <2> HIDE DEF order
    <2> QED  BY <2>5, <2>7, <2>8
  <1> QED  BY <1>1, <1>2

\* The elements of a list, each of them once.
LEMMA OnceList ==
    ASSUME NEW T, NEW list \in Seq(T)
    PROVE  /\ Once(list) \in Seq(T) /\ Len(Once(list)) <= Len(list)
           /\ \A i \in 1..Len(Once(list)) : \E k \in 1..Len(list) : list[k] = Once(list)[i]
           /\ \A k \in 1..Len(list) : \E i \in 1..Len(Once(list)) : Once(list)[i] = list[k]
           /\ \A i, j \in 1..Len(Once(list)) : Once(list)[i] = Once(list)[j] => i = j
  <1> DEFINE places == {i \in 1..Len(list) : \A j \in 1..(i - 1) : list[j] # list[i]}
  <1>1. Once(list) = At(list, places)
    <2>1. DOMAIN list = 1..Len(list)
      OBVIOUS
    <2>2. Once(list) = At(list, {i \in DOMAIN list : \A j \in 1..(i - 1) : list[j] # list[i]})
      BY DEF Once
    <2> QED  BY <2>1, <2>2
  <1>2. PICK m \in 0..Len(list) : \E order \in [1..m -> places] :
             /\ \A p \in places : \E i \in 1..m : order[i] = p
             /\ \A i, j \in 1..m : i < j => order[i] < order[j]
             /\ At(list, places) = [i \in 1..m |-> list[order[i]]]
             /\ At(list, places) \in Seq(T)
    BY Selection
  <1>3. PICK order \in [1..m -> places] :
             /\ \A p \in places : \E i \in 1..m : order[i] = p
             /\ \A i, j \in 1..m : i < j => order[i] < order[j]
             /\ At(list, places) = [i \in 1..m |-> list[order[i]]]
             /\ At(list, places) \in Seq(T)
    BY <1>2
  <1> DEFINE once == At(list, places)
  <1>4. Len(once) = m /\ once \in Seq(T)
    <2>1. m \in Nat /\ once \in Seq(T) /\ DOMAIN once = 1..m
      BY <1>3
    <2> HIDE DEF once
    <2> QED  BY <2>1
  <1>5. \A i \in 1..m : \E k \in 1..Len(list) : list[k] = once[i]
    BY <1>3
  <1>6. \A k \in 1..Len(list) : \E i \in 1..m : once[i] = list[k]
    <2> SUFFICES ASSUME NEW k \in 1..Len(list) PROVE \E i \in 1..m : once[i] = list[k]
      OBVIOUS
    <2> DEFINE same == {j \in 1..Len(list) : list[j] = list[k]}
    <2>1. PICK f \in same : \A j \in same : f <= j
      <3>1. same \in SUBSET Nat /\ k \in same
        OBVIOUS
      <3> QED  BY <3>1, SmallestNumber
    <2>2. f \in places
      BY <2>1
    <2>3. PICK i \in 1..m : order[i] = f
      BY <1>3, <2>2
    <2> QED  BY <1>3, <2>1, <2>3
  <1>7. \A i, j \in 1..m : once[i] = once[j] => i = j
    <2>1. ASSUME NEW i \in 1..m, NEW j \in 1..m, i < j PROVE once[i] # once[j]
      <3>1. order[i] \in places /\ order[j] \in places /\ order[i] < order[j]
        BY <1>3, <2>1
      <3>2. order[i] \in 1..(order[j] - 1)
        BY <3>1
      <3>3. list[order[i]] # list[order[j]]
        BY <3>1, <3>2
      <3> QED  BY <1>3, <3>3
    <2> SUFFICES ASSUME NEW i \in 1..m, NEW j \in 1..m, once[i] = once[j] PROVE i = j
      OBVIOUS
    <2> HIDE DEF once, places
    <2>2. ~(i < j) /\ ~(j < i)
      BY <2>1
    <2> QED  BY <2>2
  <1> HIDE DEF once, places
  <1> QED  BY <1>1, <1>4, <1>5, <1>6, <1>7 DEF once

\* A sorted list is a permutation of the list in which no later key comes first.
LEMMA SortedList ==
    ASSUME NEW T, NEW list \in Seq(T), NEW n \in Nat, NEW key \in [1..Len(list) -> [1..n -> Int]]
    PROVE  \E order \in [1..Len(list) -> 1..Len(list)] :
             /\ \A p \in 1..Len(list) : \E i \in 1..Len(list) : order[i] = p
             /\ \A i, j \in 1..Len(list) : order[i] = order[j] => i = j
             /\ \A i, j \in 1..Len(list) : i < j => ~Lexicographic(key[order[j]], key[order[i]])
             /\ Sorted(list, key) = [i \in 1..Len(list) |-> list[order[i]]]
             /\ Sorted(list, key) \in Seq(T)
  <1> DEFINE N == Len(list)
             placed == [i \in 1..N |-> Append(key[i], i)]
             order == Ordered(1..N, placed)
  <1>1. \A i \in 1..N : /\ placed[i] \in [1..(n + 1) -> Int] /\ placed[i][n + 1] = i
                        /\ \A k \in 1..n : placed[i][k] = key[i][k]
    <2> SUFFICES ASSUME NEW i \in 1..N
                 PROVE  /\ placed[i] \in [1..(n + 1) -> Int] /\ placed[i][n + 1] = i
                        /\ \A k \in 1..n : placed[i][k] = key[i][k]
      OBVIOUS
    <2>1. key[i] \in Seq(Int) /\ Len(key[i]) = n
      OBVIOUS
    <2>2. placed[i] = Append(key[i], i) /\ i \in Int
      OBVIOUS
    <2> DEFINE a == key[i]
    <2> HIDE DEF placed, a
    <2>3. Append(a, i) \in Seq(Int) /\ Len(Append(a, i)) = n + 1 /\ Append(a, i)[n + 1] = i
          /\ \A k \in 1..n : Append(a, i)[k] = a[k]
      BY <2>1, <2>2, AppendProperties DEF a
    <2>4. placed[i] \in [1..(n + 1) -> Int]
      <3> DEFINE b == Append(a, i)
      <3>1. b \in Seq(Int) /\ Len(b) = n + 1
        BY <2>3
      <3> HIDE DEF b
      <3>2. b \in [1..(n + 1) -> Int]
        BY <3>1, LenProperties
      <3> QED  BY <2>2, <3>2 DEF a, b
    <2> QED  BY <2>2, <2>3, <2>4 DEF a
  <1>2. placed \in [1..N -> [1..(n + 1) -> Int]]
    BY <1>1
  <1>3. IsFiniteSet(1..N) /\ Cardinality(1..N) = N
    BY UpTo
  <1>4. \A i, j \in 1..N : placed[i] = placed[j] => i = j
    <2> HIDE DEF placed
    <2> QED  BY <1>1
  <1>5. /\ order \in [1..N -> 1..N]
        /\ \A p \in 1..N : \E i \in 1..N : order[i] = p
        /\ \A i, j \in 1..N : i < j => Lexicographic(placed[order[i]], placed[order[j]])
    <2> HIDE DEF placed
    <2>1. n + 1 \in Nat
      OBVIOUS
    <2> HIDE DEF N
    <2>2. /\ Ordered(1..N, placed) \in [1..Cardinality(1..N) -> 1..N]
          /\ \A p \in 1..N : \E i \in 1..Cardinality(1..N) : Ordered(1..N, placed)[i] = p
          /\ \A i, j \in 1..Cardinality(1..N) : i < j =>
               Lexicographic(placed[Ordered(1..N, placed)[i]], placed[Ordered(1..N, placed)[j]])
      BY <1>2, <1>3, <1>4, <2>1, OrderedList
    <2> QED  BY <1>3, <2>2
  <1>6. \A i, j \in 1..N : order[i] = order[j] => i = j
    <2>1. ASSUME NEW i \in 1..N, NEW j \in 1..N, i < j PROVE order[i] # order[j]
      <3> HIDE DEF placed, order, N
      <3>1. Lexicographic(placed[order[i]], placed[order[j]])
        BY <1>5, <2>1
      <3>2. order[i] \in 1..N /\ order[j] \in 1..N
        BY <1>5, <2>1
      <3>3. n + 1 \in Nat /\ placed[order[i]] \in [1..(n + 1) -> Int]
            /\ placed[order[j]] \in [1..(n + 1) -> Int]
        BY <1>2, <3>2
      <3> QED  BY <3>1, <3>3, LexicographicAsymmetric
    <2> SUFFICES ASSUME NEW i \in 1..N, NEW j \in 1..N, order[i] = order[j] PROVE i = j
      OBVIOUS
    <2> HIDE DEF order
    <2>2. ~(i < j) /\ ~(j < i)
      BY <2>1
    <2> QED  BY <2>2
  <1>7. \A i, j \in 1..N : i < j => ~Lexicographic(key[order[j]], key[order[i]])
    <2> SUFFICES ASSUME NEW i \in 1..N, NEW j \in 1..N, i < j,
                        Lexicographic(key[order[j]], key[order[i]])
                 PROVE  FALSE
      OBVIOUS
    <2> HIDE DEF order, placed
    <2> DEFINE a == order[i]  b == order[j]
    <2>1. a \in 1..N /\ b \in 1..N /\ Lexicographic(placed[a], placed[b])
      BY <1>5
    <2>2. PICK k \in 1..n : key[b][k] < key[a][k] /\ \A l \in 1..(k - 1) : key[b][l] = key[a][l]
      <3>1. DOMAIN key[b] = 1..n
        BY <2>1
      <3> QED  BY <3>1 DEF Lexicographic
    <2>3. k \in 1..(n + 1) /\ placed[b][k] < placed[a][k]
          /\ \A l \in 1..(k - 1) : placed[b][l] = placed[a][l]
      <3>1. \A l \in 1..n : placed[a][l] = key[a][l] /\ placed[b][l] = key[b][l]
        BY <1>1, <2>1
      <3>2. \A l \in 1..(k - 1) : l \in 1..n
        OBVIOUS
      <3> HIDE DEF a, b
      <3> QED  BY <2>2, <3>1, <3>2
    <2>4. Lexicographic(placed[b], placed[a])
      <3>1. DOMAIN placed[b] = 1..(n + 1)
        BY <1>1, <2>1
      <3> QED  BY <2>3, <3>1 DEF Lexicographic
    <2>5. n + 1 \in Nat
      OBVIOUS
    <2> HIDE DEF a, b
    <2> QED  BY <1>2, <2>1, <2>4, <2>5, LexicographicAsymmetric
  <1>8. Sorted(list, key) = [i \in 1..N |-> list[order[i]]]
    <2>0. DOMAIN list = 1..N
      OBVIOUS
    <2>1. Sorted(list, key) = [i \in DOMAIN order |-> list[order[i]]]
      BY <2>0 DEF Sorted
    <2> HIDE DEF order
    <2> QED  BY <1>5, <2>1
  <1>9. [i \in 1..N |-> list[order[i]]] \in Seq(T)
    <2> HIDE DEF order
    <2> QED  BY <1>5
  <1> HIDE DEF order, placed
  <1> QED  BY <1>5, <1>6, <1>7, <1>8, <1>9

-----------------------------------------------------------------------------
(* The queries. *)

Ends(e) == {e.source, e.target}

\* A path of one or two of the relationships, from a node.
Walk(E, n, p) ==
    \/ \E e \in E : \E b \in Ends(e) : {n, b} = Ends(e) /\ p = Path(<<n, b>>, <<e>>)
    \/ \E e, f \in E : \E b \in Ends(e), c \in Ends(f) :
         {n, b} = Ends(e) /\ {b, c} = Ends(f) /\ p = Path(<<n, b, c>>, <<e, f>>)

\* MERGE on the id of the relationship.
Simple(E) == \A e, f \in E : RelationshipId(e) = RelationshipId(f) => e = f

\* From one node to another, along the edge or against it.
Leads(e, a, b, way) ==
    IF way = "along" THEN e.source = a /\ e.target = b ELSE e.source = b /\ e.target = a

\* Nodes can be ordered by their id.
LEMMA NodesAreNumbers == \A x \in Entity : x \in Int
  <1> SUFFICES ASSUME NEW x \in Entity PROVE x \in Int
    OBVIOUS
  <1> QED  BY NumbersAssumption

\* The first elements of a list, up to a limit.
LEMMA LimitedList ==
    ASSUME NEW T, NEW list \in Seq(T), NEW limit \in Nat
    PROVE  /\ Limited(list, limit) \in Seq(T)
           /\ Len(Limited(list, limit)) = IF Len(list) < limit THEN Len(list) ELSE limit
           /\ \A i \in 1..Len(Limited(list, limit)) : i \in 1..Len(list) /\ Limited(list, limit)[i] = list[i]
           /\ Len(list) <= limit => Limited(list, limit) = list
  <1> DEFINE n == IF Len(list) < limit THEN Len(list) ELSE limit
  <1>1. n \in 0..Len(list)
    OBVIOUS
  <1>2. Limited(list, limit) = SubSeq(list, 1, n)
    BY DEF Limited
  <1>3. /\ SubSeq(list, 1, n) \in Seq(T) /\ Len(SubSeq(list, 1, n)) = n
        /\ \A i \in 1..n : SubSeq(list, 1, n)[i] = list[i]
    <2> HIDE DEF n
    <2>1. 1 \in 1..(Len(list) + 1) /\ n \in (1 - 1)..Len(list)
      BY <1>1
    <2>2. \A i \in 1..n : SubSeq(list, 1, n)[i] = list[1 + i - 1]
      BY <1>1, <2>1, SubSeqProperties
    <2>3. SubSeq(list, 1, n) \in Seq(T) /\ Len(SubSeq(list, 1, n)) = n
      BY <1>1, <2>1, SubSeqProperties
    <2> QED  BY <1>1, <2>2, <2>3
  <1>4. Len(list) <= limit => SubSeq(list, 1, n) = list
    <2>1. Len(list) <= limit => n = Len(list)
      OBVIOUS
    <2> HIDE DEF n
    <2> QED  BY <1>3, <2>1
  <1> QED  BY <1>1, <1>2, <1>3, <1>4

\* Rows in an order, up to a limit, are a list of rows.
LEMMA QueryList ==
    ASSUME NEW rows, IsFiniteSet(rows), NEW n \in Nat, NEW key \in [rows -> [1..n -> Int]],
           \A p, q \in rows : key[p] = key[q] => p = q, NEW limit \in Nat
    PROVE  /\ Limited(Ordered(rows, key), limit) \in Seq(rows)
           /\ Len(Limited(Ordered(rows, key), limit)) <= limit
  <1> DEFINE list == Ordered(rows, key)
  <1>1. list \in [1..Cardinality(rows) -> rows]
    BY OrderedList
  <1>2. list \in Seq(rows)
    <2>1. Cardinality(rows) \in Nat
      BY FS_CardinalityType
    <2> HIDE DEF list
    <2> QED  BY <1>1, <2>1
  <1> HIDE DEF list
  <1>3. Limited(list, limit) \in Seq(rows) /\ Len(Limited(list, limit)) <= limit
    BY <1>2, LimitedList
  <1> QED  BY <1>3 DEF list

\* _relationship_to_record gives a relationship its own endpoints.
LEMMA BetweenItsEnds ==
    ASSUME NEW e \in Edge
    PROVE  Between(e, e.source, e.target) = e
  BY DEF Between, Edge

\* A row of one or of two relationships of given types, along or against them.
OneStep(p, E, n, type, way) ==
    \E e \in E, b \in Entity :
      e.type = type /\ Leads(e, n, b, way) /\ p = Path(<<n, b>>, <<e>>)

TwoSteps(p, E, n, one, out, two, on) ==
    \E e, f \in E, b, c \in Entity :
      /\ e.type = one /\ Leads(e, n, b, out) /\ f.type = two /\ Leads(f, b, c, on)
      /\ p = Path(<<n, b, c>>, <<e, f>>)

OneStepEach(rows, E, n, type, way) == \A p \in rows : OneStep(p, E, n, type, way)

TwoStepsEach(rows, E, n, one, out, two, on) ==
    \A p \in rows : TwoSteps(p, E, n, one, out, two, on)

\* The rows of a query for paths of one edge; their sort keys tell them apart.
LEMMA OneStepRows ==
    ASSUME NEW E \in SUBSET Edge, IsFiniteSet(E), Simple(E), NEW n, NEW type, NEW way,
           NEW rows, OneStepEach(rows, E, n, type, way)
    PROVE  /\ IsFiniteSet(rows)
           /\ \A p \in rows : Walk(E, n, p)
           /\ \A p \in rows : ByEnd(p) \in [1..1 -> Int] /\ ByConfidence(p) \in [1..2 -> Int]
           /\ \A p, q \in rows : ByEnd(p) = ByEnd(q) => p = q
           /\ \A p, q \in rows : ByConfidence(p) = ByConfidence(q) => p = q
  <1>1. \A p \in rows : p.edges[1] \in E /\ p.nodes[2] \in Entity /\ p.edges[1].type = type
                        /\ Leads(p.edges[1], n, p.nodes[2], way)
                        /\ p = Path(<<n, p.nodes[2]>>, <<p.edges[1]>>)
    BY DEF Path, OneStepEach, OneStep
  <1>2. \A p, q \in rows : p.nodes[2] = q.nodes[2] => p = q
    <2> SUFFICES ASSUME NEW p \in rows, NEW q \in rows, p.nodes[2] = q.nodes[2] PROVE p = q
      OBVIOUS
    <2>1. RelationshipId(p.edges[1]) = RelationshipId(q.edges[1])
      BY <1>1 DEF RelationshipId, Leads
    <2>2. p.edges[1] = q.edges[1]
      BY <1>1, <2>1 DEF Simple
    <2> QED  BY <1>1, <2>2
  <1>3. \A p, q \in rows : p.edges[1] = q.edges[1] => p = q
    <2> SUFFICES ASSUME NEW p \in rows, NEW q \in rows, p.edges[1] = q.edges[1] PROVE p = q
      OBVIOUS
    <2>1. Leads(p.edges[1], n, p.nodes[2], way) /\ Leads(p.edges[1], n, q.nodes[2], way)
      BY <1>1
    <2>2. p.nodes[2] = q.nodes[2]
      BY <2>1 DEF Leads
    <2> QED  BY <1>2, <2>2
  <1>4. IsFiniteSet(rows)
    <2> DEFINE f == [p \in rows |-> p.edges[1]]
    <2>1. f \in Injection(rows, E)
      BY <1>1, <1>3 DEF Injection, IsInjective
    <2> QED  BY <2>1, FS_Injection
  <1>5. \A p \in rows : Walk(E, n, p)
    <2> SUFFICES ASSUME NEW p \in rows PROVE Walk(E, n, p)
      OBVIOUS
    <2> DEFINE e == p.edges[1]  b == p.nodes[2]
    <2>1. e \in E /\ b \in Ends(e) /\ {n, b} = Ends(e) /\ p = Path(<<n, b>>, <<e>>)
      BY <1>1 DEF Ends, Leads
    <2> QED  BY <2>1 DEF Walk
  <1>6. \A p \in rows : p.nodes[2] \in Int /\ MaxConfidence - p.edges[1].confidence \in Int
    <2> SUFFICES ASSUME NEW p \in rows
                 PROVE  p.nodes[2] \in Int /\ MaxConfidence - p.edges[1].confidence \in Int
      OBVIOUS
    <2>1. p.nodes[2] \in Entity /\ p.edges[1] \in Edge
      BY <1>1
    <2>2. p.edges[1].confidence \in 0..MaxConfidence
      BY <2>1 DEF Edge
    <2>3. MaxConfidence \in Int /\ p.edges[1].confidence \in Int
      BY <2>2, NumbersAssumption
    <2> QED  BY <2>1, <2>3, NodesAreNumbers
  <1>7. \A p \in rows : ByEnd(p) \in [1..1 -> Int] /\ ByConfidence(p) \in [1..2 -> Int]
    BY <1>6 DEF ByEnd, ByConfidence
  <1>8. \A p, q \in rows : (ByEnd(p) = ByEnd(q) \/ ByConfidence(p) = ByConfidence(q)) => p.nodes[2] = q.nodes[2]
    BY DEF ByEnd, ByConfidence
  <1> QED  BY <1>2, <1>4, <1>5, <1>7, <1>8

\* The rows of a query for paths of two edges; their sort keys tell them apart.
LEMMA TwoStepRows ==
    ASSUME NEW E \in SUBSET Edge, IsFiniteSet(E), Simple(E), NEW n, NEW one, NEW two,
           NEW out, NEW on, NEW rows,
           TwoStepsEach(rows, E, n, one, out, two, on)
    PROVE  /\ IsFiniteSet(rows)
           /\ \A p \in rows : Walk(E, n, p)
           /\ \A p \in rows : ByMiddle(p) \in [1..2 -> Int] /\ ByLast(p) \in [1..2 -> Int]
           /\ \A p, q \in rows : ByMiddle(p) = ByMiddle(q) => p = q
           /\ \A p, q \in rows : ByLast(p) = ByLast(q) => p = q
  <1>1. \A p \in rows : /\ p.edges[1] \in E /\ p.edges[2] \in E
                        /\ p.nodes[2] \in Entity /\ p.nodes[3] \in Entity
                        /\ p.edges[1].type = one /\ Leads(p.edges[1], n, p.nodes[2], out)
                        /\ p.edges[2].type = two /\ Leads(p.edges[2], p.nodes[2], p.nodes[3], on)
                        /\ p = Path(<<n, p.nodes[2], p.nodes[3]>>, <<p.edges[1], p.edges[2]>>)
    BY DEF Path, TwoStepsEach, TwoSteps
  <1>2. \A p, q \in rows : p.nodes[2] = q.nodes[2] /\ p.nodes[3] = q.nodes[3] => p = q
    <2> SUFFICES ASSUME NEW p \in rows, NEW q \in rows, p.nodes[2] = q.nodes[2], p.nodes[3] = q.nodes[3]
                 PROVE p = q
      OBVIOUS
    <2>1. RelationshipId(p.edges[1]) = RelationshipId(q.edges[1])
      BY <1>1 DEF RelationshipId, Leads
    <2>2. RelationshipId(p.edges[2]) = RelationshipId(q.edges[2])
      BY <1>1 DEF RelationshipId, Leads
    <2>3. p.edges[1] = q.edges[1] /\ p.edges[2] = q.edges[2]
      BY <1>1, <2>1, <2>2 DEF Simple
    <2> QED  BY <1>1, <2>3
  <1>3. \A p, q \in rows : p.edges[1] = q.edges[1] /\ p.edges[2] = q.edges[2] => p = q
    <2> SUFFICES ASSUME NEW p \in rows, NEW q \in rows,
                        p.edges[1] = q.edges[1], p.edges[2] = q.edges[2]
                 PROVE  p = q
      OBVIOUS
    <2>1. Leads(p.edges[1], n, p.nodes[2], out) /\ Leads(p.edges[1], n, q.nodes[2], out)
      BY <1>1
    <2>2. p.nodes[2] = q.nodes[2]
      BY <2>1 DEF Leads
    <2>3. Leads(p.edges[2], p.nodes[2], p.nodes[3], on) /\ Leads(p.edges[2], p.nodes[2], q.nodes[3], on)
      BY <1>1, <2>2
    <2>4. p.nodes[3] = q.nodes[3]
      BY <2>3 DEF Leads
    <2> QED  BY <1>2, <2>2, <2>4
  <1>4. IsFiniteSet(rows)
    <2> DEFINE f == [p \in rows |-> <<p.edges[1], p.edges[2]>>]
    <2>1. f \in Injection(rows, E \X E)
      BY <1>1, <1>3 DEF Injection, IsInjective
    <2>2. IsFiniteSet(E \X E)
      BY FS_Product
    <2> QED  BY <2>1, <2>2, FS_Injection
  <1>5. \A p \in rows : Walk(E, n, p)
    <2> SUFFICES ASSUME NEW p \in rows PROVE Walk(E, n, p)
      OBVIOUS
    <2> DEFINE e == p.edges[1]  f == p.edges[2]  b == p.nodes[2]  c == p.nodes[3]
    <2>1. e \in E /\ f \in E /\ b \in Ends(e) /\ c \in Ends(f)
          /\ {n, b} = Ends(e) /\ {b, c} = Ends(f) /\ p = Path(<<n, b, c>>, <<e, f>>)
      BY <1>1 DEF Ends, Leads
    <2> QED  BY <2>1 DEF Walk
  <1>6. \A p \in rows : p.nodes[2] \in Int /\ p.nodes[3] \in Int
    <2>1. \A p \in rows : p.nodes[2] \in Entity /\ p.nodes[3] \in Entity
      BY <1>1
    <2> QED  BY <2>1, NodesAreNumbers
  <1>7. \A p \in rows : ByMiddle(p) \in [1..2 -> Int] /\ ByLast(p) \in [1..2 -> Int]
    BY <1>6 DEF ByMiddle, ByLast
  <1>8. \A p, q \in rows : (ByMiddle(p) = ByMiddle(q) \/ ByLast(p) = ByLast(q))
                             => p.nodes[2] = q.nodes[2] /\ p.nodes[3] = q.nodes[3]
    BY DEF ByMiddle, ByLast
  <1> QED  BY <1>2, <1>4, <1>5, <1>7, <1>8

Walks(E, n) == {p \in [nodes : Seq(Entity), edges : Seq(E)] : Walk(E, n, p)}

\* A walk is one of the walks from its start.
LEMMA WalksTyped ==
    ASSUME NEW E \in SUBSET Edge, NEW n \in Entity, NEW p, Walk(E, n, p)
    PROVE  p \in Walks(E, n)
  <1>1. CASE \E e \in E : \E b \in Ends(e) : {n, b} = Ends(e) /\ p = Path(<<n, b>>, <<e>>)
    <2>1. PICK e \in E : \E b \in Ends(e) : {n, b} = Ends(e) /\ p = Path(<<n, b>>, <<e>>)
      BY <1>1
    <2>2. PICK b \in Ends(e) : p = Path(<<n, b>>, <<e>>)
      BY <2>1
    <2>3. b \in Entity
      BY DEF Ends, Edge
    <2>4. <<n, b>> \in Seq(Entity) /\ <<e>> \in Seq(E)
      BY <2>3
    <2> QED  BY <2>2, <2>4 DEF Walks, Path
  <1>2. CASE \E e, f \in E : \E b \in Ends(e), c \in Ends(f) :
               {n, b} = Ends(e) /\ {b, c} = Ends(f) /\ p = Path(<<n, b, c>>, <<e, f>>)
    <2>1. PICK e, f \in E : \E b \in Ends(e), c \in Ends(f) : p = Path(<<n, b, c>>, <<e, f>>)
      BY <1>2
    <2>2. PICK b \in Ends(e), c \in Ends(f) : p = Path(<<n, b, c>>, <<e, f>>)
      BY <2>1
    <2>3. b \in Entity /\ c \in Entity
      BY DEF Ends, Edge
    <2>4. <<n, b, c>> \in Seq(Entity) /\ <<e, f>> \in Seq(E)
      BY <2>3
    <2> QED  BY <2>2, <2>4 DEF Walks, Path
  <1> QED  BY <1>1, <1>2 DEF Walk

\* What every query returns.
PathList(list, E, n, limit) == list \in Seq(Walks(E, n)) /\ Len(list) <= limit

\* What a query returns is a list of walks, no longer than its limit.
LEMMA RowsListed ==
    ASSUME NEW E \in SUBSET Edge, NEW n \in Entity, NEW limit \in Nat, NEW rows, IsFiniteSet(rows),
           \A p \in rows : Walk(E, n, p),
           NEW k \in Nat, NEW key \in [rows -> [1..k -> Int]], \A p, q \in rows : key[p] = key[q] => p = q
    PROVE  PathList(Limited(Ordered(rows, key), limit), E, n, limit)
  <1> DEFINE list == Limited(Ordered(rows, key), limit)
  <1>1. list \in Seq(rows) /\ Len(list) <= limit
    BY QueryList
  <1>2. rows \subseteq Walks(E, n)
    BY WalksTyped
  <1> HIDE DEF list
  <1>3. list \in Seq(Walks(E, n))
    BY <1>1, <1>2
  <1> QED  BY <1>1, <1>3 DEF PathList, list

\* So it is for each query of _execute_operation: one lemma for each.
LEMMA DirectPathsListed ==
    ASSUME NEW E \in SUBSET Edge, IsFiniteSet(E), Simple(E), NEW n \in Entity, NEW limit \in Nat,
           NEW type, NEW direction, NEW end
    PROVE  PathList(DirectPaths(E, n, type, direction, end, limit), E, n, limit)
  <1>1. CASE direction = "outgoing"
    <2> DEFINE rows == {Path(<<n, e.target>>, <<Between(e, n, e.target)>>) :
                          e \in {f \in Outgoing(E, n, type) : OfType(f.target, end)}}
               key == [p \in rows |-> ByConfidence(p)]
    <2>1. OneStepEach(rows, E, n, type, "along")
      <3> SUFFICES ASSUME NEW p \in rows PROVE OneStep(p, E, n, type, "along")
        BY DEF OneStepEach
      <3>1. PICK e \in Outgoing(E, n, type) : p = Path(<<n, e.target>>, <<Between(e, n, e.target)>>)
        OBVIOUS
      <3>2. e \in E /\ e.type = type /\ Leads(e, n, e.target, "along") /\ Between(e, n, e.target) = e
        BY BetweenItsEnds DEF Outgoing, Leads
      <3>3. e.target \in Entity
        BY <3>2 DEF Edge
      <3> QED  BY <3>1, <3>2, <3>3 DEF OneStep
    <2>4. DirectPaths(E, n, type, direction, end, limit) = Limited(Ordered(rows, key), limit)
      BY <1>1 DEF DirectPaths, Query
    <2> HIDE DEF rows
    <2>2. /\ IsFiniteSet(rows) /\ \A p \in rows : Walk(E, n, p)
          /\ \A p \in rows : ByConfidence(p) \in [1..2 -> Int]
          /\ \A p, q \in rows : ByConfidence(p) = ByConfidence(q) => p = q
      BY <2>1, OneStepRows
    <2>3. key \in [rows -> [1..2 -> Int]] /\ \A p, q \in rows : key[p] = key[q] => p = q
      BY <2>2
    <2> HIDE DEF key
    <2>5. PathList(Limited(Ordered(rows, key), limit), E, n, limit)
      <3>1. 2 \in Nat
        OBVIOUS
      <3> QED  BY <2>2, <2>3, <3>1, RowsListed
    <2> QED  BY <2>4, <2>5
  <1>2. CASE direction # "outgoing"
    <2> DEFINE rows == {Path(<<n, e.source>>, <<Between(e, e.source, n)>>) :
                          e \in {f \in Incoming(E, n, type) : OfType(f.source, end)}}
               key == [p \in rows |-> ByConfidence(p)]
    <2>1. OneStepEach(rows, E, n, type, "against")
      <3> SUFFICES ASSUME NEW p \in rows PROVE OneStep(p, E, n, type, "against")
        BY DEF OneStepEach
      <3>1. PICK e \in Incoming(E, n, type) : p = Path(<<n, e.source>>, <<Between(e, e.source, n)>>)
        OBVIOUS
      <3>2. e \in E /\ e.type = type /\ Leads(e, n, e.source, "against") /\ Between(e, e.source, n) = e
        BY BetweenItsEnds DEF Incoming, Leads
      <3>3. e.source \in Entity
        BY <3>2 DEF Edge
      <3> QED  BY <3>1, <3>2, <3>3 DEF OneStep
    <2>4. DirectPaths(E, n, type, direction, end, limit) = Limited(Ordered(rows, key), limit)
      BY <1>2 DEF DirectPaths, Query
    <2> HIDE DEF rows
    <2>2. /\ IsFiniteSet(rows) /\ \A p \in rows : Walk(E, n, p)
          /\ \A p \in rows : ByConfidence(p) \in [1..2 -> Int]
          /\ \A p, q \in rows : ByConfidence(p) = ByConfidence(q) => p = q
      BY <2>1, OneStepRows
    <2>3. key \in [rows -> [1..2 -> Int]] /\ \A p, q \in rows : key[p] = key[q] => p = q
      BY <2>2
    <2> HIDE DEF key
    <2>5. PathList(Limited(Ordered(rows, key), limit), E, n, limit)
      <3>1. 2 \in Nat
        OBVIOUS
      <3> QED  BY <2>2, <2>3, <3>1, RowsListed
    <2> QED  BY <2>4, <2>5
  <1> QED  BY <1>1, <1>2

LEMMA SharedPathsListed ==
    ASSUME NEW E \in SUBSET Edge, IsFiniteSet(E), Simple(E), NEW n \in Entity, NEW limit \in Nat, NEW type, NEW shared
    PROVE  PathList(SharedPaths(E, n, type, shared, limit), E, n, limit)
  <1> DEFINE Joined(e, f) == /\ e.source = n /\ OfType(n, "paper")
                             /\ e.type = type /\ f.type = type
                             /\ f.target = e.target /\ OfType(e.target, shared)
                             /\ f.source # n /\ OfType(f.source, "paper")
             pairs == {ef \in E \X E : ef[1] # ef[2] /\ Joined(ef[1], ef[2])}
             rows == {Path(<<n, ef[1].target, ef[2].source>>, <<Between(ef[1], n, ef[1].target), Between(ef[2], ef[2].source, ef[1].target)>>) : ef \in pairs}
             key == [p \in rows |-> ByMiddle(p)]
  <1>1. TwoStepsEach(rows, E, n, type, "along", type, "against")
    <2> SUFFICES ASSUME NEW p \in rows
                 PROVE  TwoSteps(p, E, n, type, "along", type, "against")
      BY DEF TwoStepsEach
    <2>0. PICK ef \in pairs : p = Path(<<n, ef[1].target, ef[2].source>>, <<Between(ef[1], n, ef[1].target), Between(ef[2], ef[2].source, ef[1].target)>>)
      OBVIOUS
    <2> DEFINE e == ef[1]  f == ef[2]
    <2>1. e \in E /\ f \in E /\ Joined(e, f)
      OBVIOUS
    <2>2. p = Path(<<n, e.target, f.source>>, <<Between(e, n, e.target), Between(f, f.source, e.target)>>)
      BY <2>0
    <2> HIDE DEF e, f
    <2>3. e.target \in Entity /\ f.source \in Entity
      BY <2>1 DEF Edge
    <2>4. Between(e, n, e.target) = e /\ Between(f, f.source, e.target) = f
      BY <2>1, BetweenItsEnds
    <2>5. /\ e.type = type /\ Leads(e, n, e.target, "along")
          /\ f.type = type /\ Leads(f, e.target, f.source, "against")
      BY <2>1 DEF Leads
    <2>6. p = Path(<<n, e.target, f.source>>, <<e, f>>)
      BY <2>2, <2>4
    <2> QED  BY <2>1, <2>3, <2>5, <2>6 DEF TwoSteps
  <1>4. SharedPaths(E, n, type, shared, limit) = Limited(Ordered(rows, key), limit)
    BY DEF SharedPaths, Query, Pairs
  <1> HIDE DEF rows
  <1>2. /\ IsFiniteSet(rows) /\ \A p \in rows : Walk(E, n, p)
        /\ \A p \in rows : ByMiddle(p) \in [1..2 -> Int]
        /\ \A p, q \in rows : ByMiddle(p) = ByMiddle(q) => p = q
    BY <1>1, TwoStepRows
  <1>3. key \in [rows -> [1..2 -> Int]] /\ \A p, q \in rows : key[p] = key[q] => p = q
    BY <1>2
  <1> HIDE DEF key
  <1>5. PathList(Limited(Ordered(rows, key), limit), E, n, limit)
    <2>1. 2 \in Nat
      OBVIOUS
    <2> QED  BY <1>2, <1>3, <2>1, RowsListed
  <1> QED  BY <1>4, <1>5

LEMMA CitingPathsListed ==
    ASSUME NEW E \in SUBSET Edge, IsFiniteSet(E), Simple(E), NEW n \in Entity, NEW limit \in Nat, NEW type, NEW end
    PROVE  PathList(CitingPaths(E, n, type, end, limit), E, n, limit)
  <1> DEFINE Joined(e, f) == /\ e.type = "cites" /\ e.target = n /\ OfType(n, "paper")
                             /\ f.source = e.source /\ f.type = type /\ OfType(f.target, end)
             pairs == {ef \in E \X E : ef[1] # ef[2] /\ Joined(ef[1], ef[2])}
             rows == {Path(<<n, ef[1].source, ef[2].target>>, <<Between(ef[1], ef[1].source, n), Between(ef[2], ef[1].source, ef[2].target)>>) : ef \in pairs}
             key == [p \in rows |-> ByLast(p)]
  <1>1. TwoStepsEach(rows, E, n, "cites", "against", type, "along")
    <2> SUFFICES ASSUME NEW p \in rows
                 PROVE  TwoSteps(p, E, n, "cites", "against", type, "along")
      BY DEF TwoStepsEach
    <2>0. PICK ef \in pairs : p = Path(<<n, ef[1].source, ef[2].target>>, <<Between(ef[1], ef[1].source, n), Between(ef[2], ef[1].source, ef[2].target)>>)
      OBVIOUS
    <2> DEFINE e == ef[1]  f == ef[2]
    <2>1. e \in E /\ f \in E /\ Joined(e, f)
      OBVIOUS
    <2>2. p = Path(<<n, e.source, f.target>>, <<Between(e, e.source, n), Between(f, e.source, f.target)>>)
      BY <2>0
    <2> HIDE DEF e, f
    <2>3. e.source \in Entity /\ f.target \in Entity
      BY <2>1 DEF Edge
    <2>4. Between(e, e.source, n) = e /\ Between(f, e.source, f.target) = f
      BY <2>1, BetweenItsEnds
    <2>5. /\ e.type = "cites" /\ Leads(e, n, e.source, "against")
          /\ f.type = type /\ Leads(f, e.source, f.target, "along")
      BY <2>1 DEF Leads
    <2>6. p = Path(<<n, e.source, f.target>>, <<e, f>>)
      BY <2>2, <2>4
    <2> QED  BY <2>1, <2>3, <2>5, <2>6 DEF TwoSteps
  <1>4. CitingPaths(E, n, type, end, limit) = Limited(Ordered(rows, key), limit)
    BY DEF CitingPaths, Query, Pairs
  <1> HIDE DEF rows
  <1>2. /\ IsFiniteSet(rows) /\ \A p \in rows : Walk(E, n, p)
        /\ \A p \in rows : ByLast(p) \in [1..2 -> Int]
        /\ \A p, q \in rows : ByLast(p) = ByLast(q) => p = q
    BY <1>1, TwoStepRows
  <1>3. key \in [rows -> [1..2 -> Int]] /\ \A p, q \in rows : key[p] = key[q] => p = q
    BY <1>2
  <1> HIDE DEF key
  <1>5. PathList(Limited(Ordered(rows, key), limit), E, n, limit)
    <2>1. 2 \in Nat
      OBVIOUS
    <2> QED  BY <1>2, <1>3, <2>1, RowsListed
  <1> QED  BY <1>4, <1>5

LEMMA EntityPaperEntityPathsListed ==
    ASSUME NEW E \in SUBSET Edge, IsFiniteSet(E), Simple(E), NEW n \in Entity, NEW limit \in Nat,
           NEW incoming, NEW outgoing, NEW end
    PROVE  PathList(EntityPaperEntityPaths(E, n, incoming, outgoing, end, limit), E, n, limit)
  <1> DEFINE Joined(e, f) == /\ e.type = incoming /\ e.target = n /\ OfType(e.source, "paper")
                             /\ f.source = e.source /\ f.type = outgoing /\ OfType(f.target, end)
             pairs == {ef \in E \X E : ef[1] # ef[2] /\ Joined(ef[1], ef[2])}
             rows == {Path(<<n, ef[1].source, ef[2].target>>, <<Between(ef[1], ef[1].source, n), Between(ef[2], ef[1].source, ef[2].target)>>) : ef \in pairs}
             key == [p \in rows |-> ByLast(p)]
  <1>1. TwoStepsEach(rows, E, n, incoming, "against", outgoing, "along")
    <2> SUFFICES ASSUME NEW p \in rows
                 PROVE  TwoSteps(p, E, n, incoming, "against", outgoing, "along")
      BY DEF TwoStepsEach
    <2>0. PICK ef \in pairs : p = Path(<<n, ef[1].source, ef[2].target>>, <<Between(ef[1], ef[1].source, n), Between(ef[2], ef[1].source, ef[2].target)>>)
      OBVIOUS
    <2> DEFINE e == ef[1]  f == ef[2]
    <2>1. e \in E /\ f \in E /\ Joined(e, f)
      OBVIOUS
    <2>2. p = Path(<<n, e.source, f.target>>, <<Between(e, e.source, n), Between(f, e.source, f.target)>>)
      BY <2>0
    <2> HIDE DEF e, f
    <2>3. e.source \in Entity /\ f.target \in Entity
      BY <2>1 DEF Edge
    <2>4. Between(e, e.source, n) = e /\ Between(f, e.source, f.target) = f
      BY <2>1, BetweenItsEnds
    <2>5. /\ e.type = incoming /\ Leads(e, n, e.source, "against")
          /\ f.type = outgoing /\ Leads(f, e.source, f.target, "along")
      BY <2>1 DEF Leads
    <2>6. p = Path(<<n, e.source, f.target>>, <<e, f>>)
      BY <2>2, <2>4
    <2> QED  BY <2>1, <2>3, <2>5, <2>6 DEF TwoSteps
  <1>4. EntityPaperEntityPaths(E, n, incoming, outgoing, end, limit) = Limited(Ordered(rows, key), limit)
    BY DEF EntityPaperEntityPaths, Query, Pairs
  <1> HIDE DEF rows
  <1>2. /\ IsFiniteSet(rows) /\ \A p \in rows : Walk(E, n, p)
        /\ \A p \in rows : ByLast(p) \in [1..2 -> Int]
        /\ \A p, q \in rows : ByLast(p) = ByLast(q) => p = q
    BY <1>1, TwoStepRows
  <1>3. key \in [rows -> [1..2 -> Int]] /\ \A p, q \in rows : key[p] = key[q] => p = q
    BY <1>2
  <1> HIDE DEF key
  <1>5. PathList(Limited(Ordered(rows, key), limit), E, n, limit)
    <2>1. 2 \in Nat
      OBVIOUS
    <2> QED  BY <1>2, <1>3, <2>1, RowsListed
  <1> QED  BY <1>4, <1>5

LEMMA CitedOnceListed ==
    ASSUME NEW E \in SUBSET Edge, IsFiniteSet(E), Simple(E), NEW n \in Entity, NEW limit \in Nat
    PROVE  PathList(CitedPaths(E, n, 1, limit), E, n, limit)
  <1> DEFINE rows == {Path(<<n, e.target>>, <<Between(e, n, e.target)>>) : e \in Outgoing(E, n, "cites")}
             key == [p \in rows |-> ByEnd(p)]
  <1>1. OneStepEach(rows, E, n, "cites", "along")
    <2> SUFFICES ASSUME NEW p \in rows PROVE OneStep(p, E, n, "cites", "along")
      BY DEF OneStepEach
    <2>1. PICK e \in Outgoing(E, n, "cites") : p = Path(<<n, e.target>>, <<Between(e, n, e.target)>>)
      OBVIOUS
    <2>2. e \in E /\ e.type = "cites" /\ Leads(e, n, e.target, "along") /\ Between(e, n, e.target) = e
      BY BetweenItsEnds DEF Outgoing, Leads
    <2>3. e.target \in Entity
      BY <2>2 DEF Edge
    <2> QED  BY <2>1, <2>2, <2>3 DEF OneStep
  <1>4. CitedPaths(E, n, 1, limit) = Limited(Ordered(rows, key), limit)
    BY DEF CitedPaths, Query
  <1> HIDE DEF rows
  <1>2. /\ IsFiniteSet(rows) /\ \A p \in rows : Walk(E, n, p)
        /\ \A p \in rows : ByEnd(p) \in [1..1 -> Int]
        /\ \A p, q \in rows : ByEnd(p) = ByEnd(q) => p = q
    BY <1>1, OneStepRows
  <1>3. key \in [rows -> [1..1 -> Int]] /\ \A p, q \in rows : key[p] = key[q] => p = q
    BY <1>2
  <1> HIDE DEF key
  <1>5. PathList(Limited(Ordered(rows, key), limit), E, n, limit)
    <2>1. 1 \in Nat
      OBVIOUS
    <2> QED  BY <1>2, <1>3, <2>1, RowsListed
  <1> QED  BY <1>4, <1>5

LEMMA CitedByOnceListed ==
    ASSUME NEW E \in SUBSET Edge, IsFiniteSet(E), Simple(E), NEW n \in Entity, NEW limit \in Nat
    PROVE  PathList(CitedByPaths(E, n, 1, limit), E, n, limit)
  <1> DEFINE rows == {Path(<<n, e.source>>, <<Between(e, e.source, n)>>) : e \in Incoming(E, n, "cites")}
             key == [p \in rows |-> ByEnd(p)]
  <1>1. OneStepEach(rows, E, n, "cites", "against")
    <2> SUFFICES ASSUME NEW p \in rows PROVE OneStep(p, E, n, "cites", "against")
      BY DEF OneStepEach
    <2>1. PICK e \in Incoming(E, n, "cites") : p = Path(<<n, e.source>>, <<Between(e, e.source, n)>>)
      OBVIOUS
    <2>2. e \in E /\ e.type = "cites" /\ Leads(e, n, e.source, "against") /\ Between(e, e.source, n) = e
      BY BetweenItsEnds DEF Incoming, Leads
    <2>3. e.source \in Entity
      BY <2>2 DEF Edge
    <2> QED  BY <2>1, <2>2, <2>3 DEF OneStep
  <1>4. CitedByPaths(E, n, 1, limit) = Limited(Ordered(rows, key), limit)
    BY DEF CitedByPaths, Query
  <1> HIDE DEF rows
  <1>2. /\ IsFiniteSet(rows) /\ \A p \in rows : Walk(E, n, p)
        /\ \A p \in rows : ByEnd(p) \in [1..1 -> Int]
        /\ \A p, q \in rows : ByEnd(p) = ByEnd(q) => p = q
    BY <1>1, OneStepRows
  <1>3. key \in [rows -> [1..1 -> Int]] /\ \A p, q \in rows : key[p] = key[q] => p = q
    BY <1>2
  <1> HIDE DEF key
  <1>5. PathList(Limited(Ordered(rows, key), limit), E, n, limit)
    <2>1. 1 \in Nat
      OBVIOUS
    <2> QED  BY <1>2, <1>3, <2>1, RowsListed
  <1> QED  BY <1>4, <1>5

LEMMA CitedTwiceListed ==
    ASSUME NEW E \in SUBSET Edge, IsFiniteSet(E), Simple(E), NEW n \in Entity, NEW limit \in Nat, NEW depth, depth # 1
    PROVE  PathList(CitedPaths(E, n, depth, limit), E, n, limit)
  <1> DEFINE Joined(e, f) == /\ e.source = n /\ e.type = "cites"
                             /\ f.source = e.target /\ f.type = "cites"
             pairs == {ef \in E \X E : ef[1] # ef[2] /\ Joined(ef[1], ef[2])}
             rows == {Path(<<n, ef[1].target, ef[2].target>>, <<Between(ef[1], n, ef[1].target), Between(ef[2], ef[1].target, ef[2].target)>>) : ef \in pairs}
             key == [p \in rows |-> ByMiddle(p)]
  <1>1. TwoStepsEach(rows, E, n, "cites", "along", "cites", "along")
    <2> SUFFICES ASSUME NEW p \in rows
                 PROVE  TwoSteps(p, E, n, "cites", "along", "cites", "along")
      BY DEF TwoStepsEach
    <2>0. PICK ef \in pairs : p = Path(<<n, ef[1].target, ef[2].target>>, <<Between(ef[1], n, ef[1].target), Between(ef[2], ef[1].target, ef[2].target)>>)
      OBVIOUS
    <2> DEFINE e == ef[1]  f == ef[2]
    <2>1. e \in E /\ f \in E /\ Joined(e, f)
      OBVIOUS
    <2>2. p = Path(<<n, e.target, f.target>>, <<Between(e, n, e.target), Between(f, e.target, f.target)>>)
      BY <2>0
    <2> HIDE DEF e, f
    <2>3. e.target \in Entity /\ f.target \in Entity
      BY <2>1 DEF Edge
    <2>4. Between(e, n, e.target) = e /\ Between(f, e.target, f.target) = f
      BY <2>1, BetweenItsEnds
    <2>5. /\ e.type = "cites" /\ Leads(e, n, e.target, "along")
          /\ f.type = "cites" /\ Leads(f, e.target, f.target, "along")
      BY <2>1 DEF Leads
    <2>6. p = Path(<<n, e.target, f.target>>, <<e, f>>)
      BY <2>2, <2>4
    <2> QED  BY <2>1, <2>3, <2>5, <2>6 DEF TwoSteps
  <1>4. CitedPaths(E, n, depth, limit) = Limited(Ordered(rows, key), limit)
    BY DEF CitedPaths, Query, Pairs
  <1> HIDE DEF rows
  <1>2. /\ IsFiniteSet(rows) /\ \A p \in rows : Walk(E, n, p)
        /\ \A p \in rows : ByMiddle(p) \in [1..2 -> Int]
        /\ \A p, q \in rows : ByMiddle(p) = ByMiddle(q) => p = q
    BY <1>1, TwoStepRows
  <1>3. key \in [rows -> [1..2 -> Int]] /\ \A p, q \in rows : key[p] = key[q] => p = q
    BY <1>2
  <1> HIDE DEF key
  <1>5. PathList(Limited(Ordered(rows, key), limit), E, n, limit)
    <2>1. 2 \in Nat
      OBVIOUS
    <2> QED  BY <1>2, <1>3, <2>1, RowsListed
  <1> QED  BY <1>4, <1>5

LEMMA CitedByTwiceListed ==
    ASSUME NEW E \in SUBSET Edge, IsFiniteSet(E), Simple(E), NEW n \in Entity, NEW limit \in Nat, NEW depth, depth # 1
    PROVE  PathList(CitedByPaths(E, n, depth, limit), E, n, limit)
  <1> DEFINE Joined(e, f) == /\ e.target = n /\ e.type = "cites"
                             /\ f.target = e.source /\ f.type = "cites"
             pairs == {ef \in E \X E : ef[1] # ef[2] /\ Joined(ef[1], ef[2])}
             rows == {Path(<<n, ef[1].source, ef[2].source>>, <<Between(ef[1], ef[1].source, n), Between(ef[2], ef[2].source, ef[1].source)>>) : ef \in pairs}
             key == [p \in rows |-> ByMiddle(p)]
  <1>1. TwoStepsEach(rows, E, n, "cites", "against", "cites", "against")
    <2> SUFFICES ASSUME NEW p \in rows
                 PROVE  TwoSteps(p, E, n, "cites", "against", "cites", "against")
      BY DEF TwoStepsEach
    <2>0. PICK ef \in pairs : p = Path(<<n, ef[1].source, ef[2].source>>, <<Between(ef[1], ef[1].source, n), Between(ef[2], ef[2].source, ef[1].source)>>)
      OBVIOUS
    <2> DEFINE e == ef[1]  f == ef[2]
    <2>1. e \in E /\ f \in E /\ Joined(e, f)
      OBVIOUS
    <2>2. p = Path(<<n, e.source, f.source>>, <<Between(e, e.source, n), Between(f, f.source, e.source)>>)
      BY <2>0
    <2> HIDE DEF e, f
    <2>3. e.source \in Entity /\ f.source \in Entity
      BY <2>1 DEF Edge
    <2>4. Between(e, e.source, n) = e /\ Between(f, f.source, e.source) = f
      BY <2>1, BetweenItsEnds
    <2>5. /\ e.type = "cites" /\ Leads(e, n, e.source, "against")
          /\ f.type = "cites" /\ Leads(f, e.source, f.source, "against")
      BY <2>1 DEF Leads
    <2>6. p = Path(<<n, e.source, f.source>>, <<e, f>>)
      BY <2>2, <2>4
    <2> QED  BY <2>1, <2>3, <2>5, <2>6 DEF TwoSteps
  <1>4. CitedByPaths(E, n, depth, limit) = Limited(Ordered(rows, key), limit)
    BY DEF CitedByPaths, Query, Pairs
  <1> HIDE DEF rows
  <1>2. /\ IsFiniteSet(rows) /\ \A p \in rows : Walk(E, n, p)
        /\ \A p \in rows : ByMiddle(p) \in [1..2 -> Int]
        /\ \A p, q \in rows : ByMiddle(p) = ByMiddle(q) => p = q
    BY <1>1, TwoStepRows
  <1>3. key \in [rows -> [1..2 -> Int]] /\ \A p, q \in rows : key[p] = key[q] => p = q
    BY <1>2
  <1> HIDE DEF key
  <1>5. PathList(Limited(Ordered(rows, key), limit), E, n, limit)
    <2>1. 2 \in Nat
      OBVIOUS
    <2> QED  BY <1>2, <1>3, <2>1, RowsListed
  <1> QED  BY <1>4, <1>5

\* Whatever the operation, its paths are walks over stored edges (_execute_operation).
LEMMA PathsListed ==
    ASSUME NEW E \in SUBSET Edge, IsFiniteSet(E), Simple(E), NEW n \in Entity, NEW limit \in Nat,
           NEW op \in Operation, NEW depth
    PROVE  PathList(Paths(E, op, n, depth, limit), E, n, limit)
  <1>1. CASE op \in DOMAIN Direct
    <2>1. Paths(E, op, n, depth, limit)
            = DirectPaths(E, n, Direct[op][1], Direct[op][2], Direct[op][3], limit)
      BY <1>1 DEF Paths, Direct
    <2> QED  BY <2>1, DirectPathsListed
  <1>2. CASE op = "shared_datasets"
    <2>1. Paths(E, op, n, depth, limit) = SharedPaths(E, n, "evaluated_on", "dataset", limit)
      BY <1>2 DEF Paths, Direct
    <2> QED  BY <2>1, SharedPathsListed
  <1>3. CASE op = "shared_methods"
    <2>1. Paths(E, op, n, depth, limit) = SharedPaths(E, n, "uses_method", "method", limit)
      BY <1>3 DEF Paths, Direct
    <2> QED  BY <2>1, SharedPathsListed
  <1>4. CASE op = "datasets_from_citing_papers"
    <2>1. Paths(E, op, n, depth, limit) = CitingPaths(E, n, "evaluated_on", "dataset", limit)
      BY <1>4 DEF Paths, Direct
    <2> QED  BY <2>1, CitingPathsListed
  <1>5. CASE op = "methods_for_dataset"
    <2>1. Paths(E, op, n, depth, limit)
            = EntityPaperEntityPaths(E, n, "evaluated_on", "uses_method", "method", limit)
      BY <1>5 DEF Paths, Direct
    <2> QED  BY <2>1, EntityPaperEntityPathsListed
  <1>6. CASE op = "citation_neighborhood"
    <2>1. Paths(E, op, n, depth, limit) = CitedPaths(E, n, depth, limit)
      BY <1>6 DEF Paths, Direct
    <2> QED  BY <2>1, CitedOnceListed, CitedTwiceListed
  <1> QED  BY <1>1, <1>2, <1>3, <1>4, <1>5, <1>6 DEF Operation

\* So are those of the second query of a neighbourhood (QueryIncoming).
LEMMA IncomingListed ==
    ASSUME NEW E \in SUBSET Edge, IsFiniteSet(E), Simple(E), NEW n \in Entity, NEW limit \in Nat, NEW depth
    PROVE  PathList(CitedByPaths(E, n, depth, limit), E, n, limit)
  BY CitedByOnceListed, CitedByTwiceListed

-----------------------------------------------------------------------------
(* The evidence. *)

\* One list, flattened.
LEMMA FlattenOne ==
    ASSUME NEW s
    PROVE  FlattenSeq(<<s>>) = s
  <1> DEFINE Step(f) == [i \in 1..1 |-> IF i = 1 THEN <<s>>[i] ELSE f[i - 1] \o <<s>>[i]]
             flatten == CHOOSE f : f = Step(f)
  <1>1. FlattenSeq(<<s>>) = flatten[1]
    BY DEF FlattenSeq
  <1>2. \E f : f = Step(f)
    <2> DEFINE g == [i \in 1..1 |-> s]
    <2>1. g = Step(g)
      OBVIOUS
    <2> QED  BY <2>1
  <1>3. flatten = Step(flatten)
    <2> HIDE DEF Step
    <2> QED  BY <1>2
  <1>4. flatten[1] = s
    <2> HIDE DEF flatten
    <2> QED  BY <1>3
  <1> QED  BY <1>1, <1>4

\* Two lists, flattened.
LEMMA FlattenTwo ==
    ASSUME NEW s, NEW t
    PROVE  FlattenSeq(<<s, t>>) = s \o t
  <1> DEFINE Step(f) == [i \in 1..2 |-> IF i = 1 THEN <<s, t>>[i] ELSE f[i - 1] \o <<s, t>>[i]]
             flatten == CHOOSE f : f = Step(f)
  <1>1. FlattenSeq(<<s, t>>) = flatten[2]
    BY DEF FlattenSeq
  <1>2. \E f : f = Step(f)
    <2> DEFINE g == [i \in 1..2 |-> IF i = 1 THEN s ELSE s \o t]
    <2>1. g = Step(g)
      OBVIOUS
    <2> QED  BY <2>1
  <1>3. flatten = Step(flatten)
    <2> HIDE DEF Step
    <2> QED  BY <1>2
  <1>4. flatten[1] = s /\ flatten[2] = flatten[1] \o t
    <2>1. Step(flatten)[1] = s
      OBVIOUS
    <2>2. Step(flatten)[2] = flatten[2 - 1] \o <<s, t>>[2]
      <3> HIDE DEF flatten
      <3>1. 2 \in 1..2 /\ 2 # 1
        OBVIOUS
      <3> QED  BY <3>1, Zenon
    <2>3. 2 - 1 = 1 /\ <<s, t>>[2] = t
      OBVIOUS
    <2> HIDE DEF flatten, Step
    <2> QED  BY <1>3, <2>1, <2>2, <2>3
  <1> QED  BY <1>1, <1>4

\* The chunks that a relationship, that the relationships of a path name.
Names(e) == e.supporting \cup ({e.primary} \ {None})

NamedBy(path) == UNION {Names(path.edges[i]) : i \in DOMAIN path.edges}

\* A path has one or two edges.
LEMMA WalkEdges ==
    ASSUME NEW E \in SUBSET Edge, NEW n, NEW p, Walk(E, n, p)
    PROVE  \/ \E e \in E : p.edges = <<e>>
           \/ \E e, f \in E : p.edges = <<e, f>>
  <1>1. CASE \E e \in E : \E b \in Ends(e) : {n, b} = Ends(e) /\ p = Path(<<n, b>>, <<e>>)
    BY <1>1 DEF Path
  <1>2. CASE \E e, f \in E : \E b \in Ends(e), c \in Ends(f) :
               {n, b} = Ends(e) /\ {b, c} = Ends(f) /\ p = Path(<<n, b, c>>, <<e, f>>)
    BY <1>2 DEF Path
  <1> QED  BY <1>1, <1>2 DEF Walk

\* The chunks of an edge are those it names.
LEMMA ChunksOfNamed ==
    ASSUME NEW e \in Edge, IsFiniteSet(Chunk)
    PROVE  ChunksOf(e) \in Seq(Names(e)) /\ Names(e) \subseteq Chunk
  <1>1. e.supporting \subseteq Chunk /\ e.primary \in Chunk \cup {None}
    BY DEF Edge
  <1> DEFINE others == e.supporting \ {e.primary}
  <1>2. others \in SUBSET Nat /\ IsFiniteSet(others)
    <2>1. others \in SUBSET Chunk
      BY <1>1
    <2> QED  BY <2>1, NumbersAssumption, FS_Subset
  <1>3. Ascending(others) \in Seq(others)
    <2>1. Ascending(others) \in [1..Cardinality(others) -> others] /\ Cardinality(others) \in Nat
      BY <1>2, AscendingList, FS_CardinalityType
    <2> HIDE DEF others
    <2> QED  BY <2>1
  <1>4. Ascending(others) \in Seq(Names(e))
    <2>1. others \subseteq Names(e)
      BY DEF Names
    <2> HIDE DEF others
    <2> QED  BY <1>3, <2>1
  <1> DEFINE first == IF e.primary = None THEN <<>> ELSE <<e.primary>>
  <1>5. first \in Seq(Names(e))
    <2>1. CASE e.primary = None
      BY <2>1
    <2>2. CASE e.primary # None
      <3>1. e.primary \in Names(e)
        BY <2>2 DEF Names
      <3> QED  BY <2>2, <3>1
    <2> QED  BY <2>1, <2>2
  <1>6. ChunksOf(e) = first \o Ascending(others)
    BY DEF ChunksOf
  <1> HIDE DEF first, others
  <1>7. first \o Ascending(others) \in Seq(Names(e))
    BY <1>4, <1>5, ConcatProperties
  <1>8. Names(e) \subseteq Chunk
    BY <1>1 DEF Names
  <1> QED  BY <1>6, <1>7, <1>8

\* The source chunks of a path are those its edges name (_ordered_source_chunk_ids).
LEMMA SourceChunksNamed ==
    ASSUME NEW E \in SUBSET Edge, NEW n, NEW p, Walk(E, n, p), IsFiniteSet(Chunk)
    PROVE  SourceChunks(p) \in Seq(NamedBy(p)) /\ NamedBy(p) \subseteq Chunk
  <1> DEFINE lists == [i \in DOMAIN p.edges |-> ChunksOf(p.edges[i])]
  <1>1. ASSUME FlattenSeq(lists) \in Seq(NamedBy(p))
        PROVE  SourceChunks(p) \in Seq(NamedBy(p))
    <2>1. SourceChunks(p) = Once(FlattenSeq(lists))
      BY DEF SourceChunks
    <2> HIDE DEF lists
    <2> QED  BY <1>1, <2>1, OnceList
  <1>2. CASE \E e \in E : p.edges = <<e>>
    <2>1. PICK e \in E : p.edges = <<e>>
      BY <1>2
    <2>2. NamedBy(p) = Names(e)
      BY <2>1 DEF NamedBy
    <2>3. lists = <<ChunksOf(e)>>
      BY <2>1
    <2>4. FlattenSeq(lists) = ChunksOf(e)
      BY <2>3, FlattenOne
    <2>5. ChunksOf(e) \in Seq(Names(e)) /\ Names(e) \subseteq Chunk
      BY ChunksOfNamed
    <2> QED  BY <1>1, <2>2, <2>4, <2>5
  <1>3. CASE \E e, f \in E : p.edges = <<e, f>>
    <2>1. PICK e \in E, f \in E : p.edges = <<e, f>>
      BY <1>3
    <2>2. NamedBy(p) = Names(e) \cup Names(f)
      BY <2>1 DEF NamedBy
    <2>3. lists = <<ChunksOf(e), ChunksOf(f)>>
      BY <2>1
    <2>4. FlattenSeq(lists) = ChunksOf(e) \o ChunksOf(f)
      BY <2>3, FlattenTwo
    <2>5. /\ ChunksOf(e) \in Seq(Names(e)) /\ Names(e) \subseteq Chunk
          /\ ChunksOf(f) \in Seq(Names(f)) /\ Names(f) \subseteq Chunk
      BY ChunksOfNamed
    <2>6. ChunksOf(e) \in Seq(NamedBy(p)) /\ ChunksOf(f) \in Seq(NamedBy(p))
      BY <2>2, <2>5
    <2>7. ChunksOf(e) \o ChunksOf(f) \in Seq(NamedBy(p))
      BY <2>6, ConcatProperties
    <2> QED  BY <1>1, <2>2, <2>4, <2>5, <2>7
  <1> QED  BY <1>2, <1>3, WalkEdges

\* Some relationship of the path that names the chunk decides the version expected.
LEMMA VersionExpected ==
    ASSUME NEW E \in SUBSET Edge, NEW n, NEW p, Walk(E, n, p), IsFiniteSet(Chunk), NEW c \in NamedBy(p)
    PROVE  \E i \in DOMAIN p.edges :
             /\ c \in Names(p.edges[i]) /\ p.edges[i] \in E
             /\ ExpectedVersion(p, c) = p.edges[i].version
  <1> DEFINE naming == {i \in DOMAIN p.edges : c \in p.edges[i].supporting \cup {p.edges[i].primary}}
             last == CHOOSE i \in naming : \A j \in naming : j <= i
  <1>1. ExpectedVersion(p, c) = p.edges[last].version
    BY DEF ExpectedVersion
  <1>2. DOMAIN p.edges \in SUBSET (0..2) /\ \A i \in DOMAIN p.edges : p.edges[i] \in E
    BY WalkEdges
  <1>3. naming # {}
    BY DEF NamedBy, Names
  <1>4. naming \in SUBSET (0..2)
    BY <1>2
  <1>5. \E i \in naming : \A j \in naming : j <= i
    <2> HIDE DEF naming
    <2>1. 2 \in Nat
      OBVIOUS
    <2> QED  BY <1>3, <1>4, <2>1, LargestNumber
  <1>6. last \in naming
    <2> HIDE DEF naming
    <2> QED  BY <1>5
  <1>7. c # None
    BY SourceChunksNamed, NoneAssumption
  <1>8. last \in DOMAIN p.edges /\ c \in Names(p.edges[last])
    <2> HIDE DEF last
    <2> QED  BY <1>6, <1>7 DEF Names
  <1> HIDE DEF last
  <1> QED  BY <1>1, <1>2, <1>8

\* The confidence of a path is a number.
LEMMA ConfidenceTyped ==
    ASSUME NEW E \in SUBSET Edge, NEW n, NEW p, Walk(E, n, p)
    PROVE  PathConfidence(p) \in Int
  <1> DEFINE all == {p.edges[i].confidence : i \in DOMAIN p.edges}
  <1>1. \A i \in DOMAIN p.edges : p.edges[i] \in Edge
    BY WalkEdges
  <1>2. 1 \in DOMAIN p.edges
    <2>1. ASSUME NEW e, p.edges = <<e>> PROVE 1 \in DOMAIN p.edges
      BY <2>1
    <2>2. ASSUME NEW e, NEW f, p.edges = <<e, f>> PROVE 1 \in DOMAIN p.edges
      BY <2>2
    <2> QED  BY <2>1, <2>2, WalkEdges
  <1>3. all \in SUBSET Nat /\ all # {}
    <2>1. \A i \in DOMAIN p.edges : p.edges[i].confidence \in 0..MaxConfidence
      BY <1>1 DEF Edge
    <2>2. \A i \in DOMAIN p.edges : p.edges[i].confidence \in Nat
      BY <2>1, NumbersAssumption
    <2> QED  BY <1>2, <2>2
  <1>4. PathConfidence(p) = CHOOSE c \in all : \A d \in all : c <= d
    BY DEF PathConfidence
  <1> HIDE DEF all
  <1>5. \E c \in all : \A d \in all : c <= d
    BY <1>3, SmallestNumber
  <1>6. (CHOOSE c \in all : \A d \in all : c <= d) \in all
    BY <1>5
  <1>7. PathConfidence(p) \in Nat
    BY <1>3, <1>4, <1>6
  <1> QED  BY <1>7

\* Evidence can be ordered by its key.
LEMMA EvidenceKeyTyped ==
    ASSUME NEW E \in SUBSET Edge, NEW n, NEW p, Walk(E, n, p), NEW op,
           PathDigest(PathEvidence(op, p).id) \in Int
    PROVE  EvidenceKey(PathEvidence(op, p)) \in [1..3 -> Int]
  <1> DEFINE item == PathEvidence(op, p)
  <1>1. item.path = p
    BY DEF PathEvidence
  <1>2. Len(p.edges) \in Int
    BY WalkEdges
  <1>3. MaxConfidence - PathConfidence(p) \in Int
    BY ConfidenceTyped, NumbersAssumption
  <1>4. EvidenceKey(item) = <<Len(p.edges), MaxConfidence - PathConfidence(p), PathDigest(item.id)>>
    BY <1>1 DEF EvidenceKey
  <1> HIDE DEF item
  <1> QED  BY <1>2, <1>3, <1>4 DEF item

EvidenceOf(E, n, op) == {PathEvidence(op, p) : p \in Walks(E, n)}

\* The ids of the evidence are numbers to compare.
Digested(E, n, op) == \A p \in Walks(E, n) : PathDigest(PathEvidence(op, p).id) \in Int

\* Every path gives one item of evidence.
LEMMA EvidenceList ==
    ASSUME NEW E \in SUBSET Edge, NEW n, NEW op, NEW paths \in Seq(Walks(E, n)), Digested(E, n, op)
    PROVE  /\ GraphEvidence(op, paths) \in Seq(EvidenceOf(E, n, op))
           /\ Len(GraphEvidence(op, paths)) = Len(paths)
  <1> DEFINE items == {PathEvidence(op, p) : p \in Walks(E, n)}
             evidence == [i \in DOMAIN paths |-> PathEvidence(op, paths[i])]
             key == [i \in DOMAIN evidence |-> EvidenceKey(evidence[i])]
  <1>1. evidence \in Seq(items) /\ Len(evidence) = Len(paths)
    OBVIOUS
  <1>2. \A x \in items : EvidenceKey(x) \in [1..3 -> Int]
    <2> SUFFICES ASSUME NEW p \in Walks(E, n) PROVE EvidenceKey(PathEvidence(op, p)) \in [1..3 -> Int]
      OBVIOUS
    <2>1. Walk(E, n, p)
      BY DEF Walks
    <2>2. PathDigest(PathEvidence(op, p).id) \in Int
      BY DEF Digested
    <2> QED  BY <2>1, <2>2, EvidenceKeyTyped
  <1>3. GraphEvidence(op, paths) = Sorted(evidence, key)
    BY DEF GraphEvidence
  <1> HIDE DEF items, evidence
  <1>4. key \in [1..Len(evidence) -> [1..3 -> Int]]
    BY <1>1, <1>2
  <1> HIDE DEF key
  <1>5. 3 \in Nat
    OBVIOUS
  <1>6. PICK order \in [1..Len(evidence) -> 1..Len(evidence)] :
          /\ \A p \in 1..Len(evidence) : \E i \in 1..Len(evidence) : order[i] = p
          /\ \A i, j \in 1..Len(evidence) : order[i] = order[j] => i = j
          /\ \A i, j \in 1..Len(evidence) : i < j => ~Lexicographic(key[order[j]], key[order[i]])
          /\ Sorted(evidence, key) = [i \in 1..Len(evidence) |-> evidence[order[i]]]
          /\ Sorted(evidence, key) \in Seq(items)
    BY <1>1, <1>4, <1>5, SortedList
  <1>7. Sorted(evidence, key) \in Seq(items) /\ Len(Sorted(evidence, key)) = Len(evidence)
    <2>1. Len(evidence) \in Nat
      BY <1>1
    <2>2. DOMAIN Sorted(evidence, key) = 1..Len(evidence)
      BY <1>6
    <2> QED  BY <1>6, <2>1, <2>2
  <1> QED  BY <1>1, <1>3, <1>7 DEF items, EvidenceOf

-----------------------------------------------------------------------------
(* Reciprocal rank fusion. *)

\* A rank has a weight: Scale is divisible by RrfK and the rank.
LEMMA WeightTyped ==
    ASSUME NEW r \in 1..MaxRank
    PROVE  Weight(r) \in Nat \ {0} /\ Weight(r) <= Scale /\ Scale = (RrfK + r) * Weight(r)
  <1> DEFINE d == RrfK + r
  <1>1. d \in Nat \ {0}
    BY RrfAssumption
  <1>2. Scale \in Nat \ {0} /\ Scale % d = 0
    BY ScaleAssumption
  <1>3. Weight(r) = Scale \div d
    BY DEF Weight
  <1> HIDE DEF d
  <1>4. Scale \div d \in Int /\ Scale = d * (Scale \div d)
    BY <1>1, <1>2
  <1>5. \A q \in Int : Scale = d * q => q \in Nat \ {0} /\ q <= Scale
    BY <1>1, <1>2
  <1> QED  BY <1>3, <1>4, <1>5 DEF d

\* A better rank is worth more.
LEMMA WeightFalls ==
    ASSUME NEW r \in 1..MaxRank, NEW q \in 1..MaxRank, r < q
    PROVE  Weight(q) < Weight(r)
  <1> DEFINE a == RrfK + r  b == RrfK + q  x == Weight(r)  y == Weight(q)
  <1>1. a \in Nat \ {0} /\ b \in Nat \ {0} /\ a < b
    BY RrfAssumption
  <1>2. x \in Nat \ {0} /\ y \in Nat \ {0} /\ a * x = b * y
    BY WeightTyped
  <1> HIDE DEF a, b, x, y
  <1>3. SUFFICES ASSUME x <= y PROVE FALSE
    BY <1>2 DEF x, y
  <1>4. a * x <= a * y
    BY <1>1, <1>2, <1>3
  <1>5. a * y < b * y
    BY <1>1, <1>2
  <1> QED  BY <1>1, <1>2, <1>4, <1>5

-----------------------------------------------------------------------------
(* The weights of the ranks of an id, added up in any order. *)

SumOf(ranks) == FoldSet(LAMBDA r, acc : Weight(r) + acc, 0, ranks)

Chosen(s) == CHOOSE x \in s : TRUE

Added(f, S) == f = [s \in SUBSET S |-> IF s = {} THEN 0 ELSE Weight(Chosen(s)) + f[s \ {Chosen(s)}]]

\* SumOf, with the function it folds.
LEMMA SumIsFold ==
    ASSUME NEW S
    PROVE  SumOf(S) = (CHOOSE f : Added(f, S))[S]
  BY DEF SumOf, FoldSet, MapThenFoldSet, Added, Chosen

\* The member of a set that the fold takes next.
LEMMA ChosenIn == \A s : s # {} => Chosen(s) \in s
  BY DEF Chosen

\* The area of a bar of every rank: the sum, without the recursion.
LEMMA SumExists ==
    ASSUME NEW S \in SUBSET (1..MaxRank)
    PROVE  \E f : Added(f, S)
  <1> DEFINE Area(s) == {p \in S \X (1..Scale) : p[1] \in s /\ p[2] <= Weight(p[1])}
             f == [s \in SUBSET S |-> Cardinality(Area(s))]
  <1>1. MaxRank \in Nat /\ Scale \in Nat
    BY RrfAssumption, ScaleAssumption
  <1>2. IsFiniteSet(S) /\ IsFiniteSet(1..Scale)
    BY <1>1, UpTo, FS_Subset
  <1>3. IsFiniteSet(S \X (1..Scale))
    BY <1>2, FS_Product
  <1>4. ASSUME NEW s PROVE IsFiniteSet(Area(s))
    <2>1. Area(s) \in SUBSET (S \X (1..Scale))
      OBVIOUS
    <2> HIDE DEF Area
    <2> QED  BY <1>3, <2>1, FS_Subset
  <1>5. f[{}] = 0
    <2>1. Area({}) = {}
      OBVIOUS
    <2>2. f[{}] = Cardinality(Area({}))
      OBVIOUS
    <2> HIDE DEF Area, f
    <2> QED  BY <2>1, <2>2, FS_EmptySet
  <1>6. ASSUME NEW s \in SUBSET S, s # {}
        PROVE  f[s] = Weight(Chosen(s)) + f[s \ {Chosen(s)}]
    <2> DEFINE x == Chosen(s)  bar == {x} \X (1..Weight(x))
    <2>1. x \in s /\ x \in 1..MaxRank
      BY <1>6, ChosenIn
    <2>2. Weight(x) \in Nat /\ Weight(x) <= Scale
      BY <2>1, WeightTyped
    <2>3. Area(s) = Area(s \ {x}) \cup bar /\ (Area(s \ {x}) \cap bar) = {}
      <3>1. \A p \in Area(s) : p \in Area(s \ {x}) \/ p \in bar
        OBVIOUS
      <3>2. \A p \in bar : p \in Area(s) /\ p \notin Area(s \ {x})
        <4> SUFFICES ASSUME NEW k \in 1..Weight(x)
                     PROVE  <<x, k>> \in Area(s) /\ <<x, k>> \notin Area(s \ {x})
          OBVIOUS
        <4>1. k \in 1..Scale /\ k <= Weight(x)
          BY <1>1, <2>2
        <4> HIDE DEF x
        <4> QED  BY <2>1, <4>1
      <3>3. Area(s \ {x}) \subseteq Area(s)
        OBVIOUS
      <3> HIDE DEF Area, bar
      <3> QED  BY <3>1, <3>2, <3>3
    <2>4. IsFiniteSet(bar) /\ Cardinality(bar) = Weight(x)
      <3>1. IsFiniteSet(1..Weight(x)) /\ Cardinality(1..Weight(x)) = Weight(x)
        BY <2>2, UpTo
      <3>2. IsFiniteSet({x}) /\ Cardinality({x}) = 1
        BY FS_Singleton
      <3> HIDE DEF x
      <3>3. IsFiniteSet(bar) /\ Cardinality(bar) = Cardinality({x}) * Cardinality(1..Weight(x))
        BY <3>1, <3>2, FS_Product
      <3> HIDE DEF bar
      <3> QED  BY <2>2, <3>1, <3>2, <3>3
    <2>5. f[s] = Cardinality(Area(s)) /\ f[s \ {x}] = Cardinality(Area(s \ {x}))
      OBVIOUS
    <2>6. IsFiniteSet(Area(s \ {x})) /\ Cardinality(Area(s \ {x})) \in Nat
      BY <1>4, FS_CardinalityType
    <2> HIDE DEF Area, f, bar
    <2>7. Cardinality(Area(s \ {x}) \cup bar)
            = Cardinality(Area(s \ {x})) + Cardinality(bar) - Cardinality(Area(s \ {x}) \cap bar)
      BY <2>4, <2>6, FS_Union
    <2>8. Cardinality(Area(s \ {x}) \cap bar) = 0
      BY <2>3, FS_EmptySet
    <2> HIDE DEF x
    <2>9. f[s] = Weight(x) + f[s \ {x}]
      BY <2>2, <2>3, <2>4, <2>5, <2>6, <2>7, <2>8
    <2> QED  BY <2>9 DEF x
  <1>7. f = [s \in SUBSET S |-> f[s]]
    OBVIOUS
  <1>8. \A s \in SUBSET S : f[s] = IF s = {} THEN 0 ELSE Weight(Chosen(s)) + f[s \ {Chosen(s)}]
    <2> HIDE DEF f
    <2> QED  BY <1>5, <1>6
  <1> HIDE DEF f
  <1>9. f = [s \in SUBSET S |-> IF s = {} THEN 0 ELSE Weight(Chosen(s)) + f[s \ {Chosen(s)}]]
    BY <1>7, <1>8
  <1> QED  BY <1>9 DEF Added

\* The sum, one member after the other.
LEMMA SumSteps ==
    ASSUME NEW S \in SUBSET (1..MaxRank)
    PROVE  \E f : /\ SumOf(S) = f[S] /\ f[{}] = 0
                  /\ \A s \in SUBSET S : s # {} => f[s] = Weight(Chosen(s)) + f[s \ {Chosen(s)}]
  <1> DEFINE f == CHOOSE g : Added(g, S)
  <1>1. Added(f, S)
    BY SumExists
  <1>2. SumOf(S) = f[S]
    BY SumIsFold
  <1> HIDE DEF f
  <1>3. \A s \in SUBSET S : f[s] = IF s = {} THEN 0 ELSE Weight(Chosen(s)) + f[s \ {Chosen(s)}]
    BY <1>1 DEF Added
  <1> QED  BY <1>2, <1>3

\* The sum of weights is a number.
LEMMA SumTyped ==
    ASSUME NEW S \in SUBSET (1..MaxRank)
    PROVE  SumOf(S) \in Nat
  <1>1. PICK f : /\ SumOf(S) = f[S] /\ f[{}] = 0
                 /\ \A s \in SUBSET S : s # {} => f[s] = Weight(Chosen(s)) + f[s \ {Chosen(s)}]
    BY SumSteps
  <1>2. IsFiniteSet(S)
    <2>1. MaxRank \in Nat
      BY RrfAssumption
    <2> QED  BY <2>1, UpTo, FS_Subset
  <1>3. \A s \in SUBSET S : IsFiniteSet(s) /\ Cardinality(s) \in Nat
    BY <1>2, FS_Subset, FS_CardinalityType
  <1> DEFINE wrong == {Cardinality(s) : s \in {t \in SUBSET S : f[t] \notin Nat}}
  <1>4. SUFFICES ASSUME f[S] \notin Nat PROVE FALSE
    BY <1>1
  <1>5. wrong \in SUBSET Nat /\ wrong # {}
    BY <1>3, <1>4
  <1>6. PICK n \in wrong : \A m \in wrong : n <= m
    <2> HIDE DEF wrong
    <2> QED  BY <1>5, SmallestNumber
  <1>7. PICK s \in SUBSET S : f[s] \notin Nat /\ Cardinality(s) = n
    BY <1>6
  <1>8. s # {}
    <2>1. f[{}] \in Nat
      BY <1>1
    <2> QED  BY <1>7, <2>1
  <1> DEFINE x == Chosen(s)  t == s \ {x}
  <1>9. x \in s /\ x \in 1..MaxRank
    BY <1>8, ChosenIn
  <1>10. Cardinality(t) = n - 1 /\ t \in SUBSET S
    BY <1>3, <1>7, <1>9, FS_RemoveElement
  <1>11. f[t] \in Nat
    <2>1. ASSUME f[t] \notin Nat PROVE n <= n - 1
      <3>1. Cardinality(t) \in wrong
        BY <1>10, <2>1
      <3> QED  BY <1>6, <1>10, <3>1
    <2>2. n \in Nat
      BY <1>3, <1>7
    <2> QED  BY <2>1, <2>2
  <1>12. f[s] = Weight(x) + f[t]
    BY <1>1, <1>8
  <1>13. Weight(x) \in Nat
    BY <1>9, WeightTyped
  <1> HIDE DEF x, t
  <1> QED  BY <1>7, <1>11, <1>12, <1>13

\* The sum of no weights.
LEMMA SumOfNone == SumOf({}) = 0
  <1>1. {} \in SUBSET (1..MaxRank)
    OBVIOUS
  <1> QED  BY <1>1, SumSteps

\* The sum of one weight.
LEMMA SumOfOne ==
    ASSUME NEW r \in 1..MaxRank
    PROVE  SumOf({r}) = Weight(r)
  <1>1. PICK f : /\ SumOf({r}) = f[{r}] /\ f[{}] = 0
                 /\ \A s \in SUBSET {r} : s # {} => f[s] = Weight(Chosen(s)) + f[s \ {Chosen(s)}]
    <2>1. {r} \in SUBSET (1..MaxRank)
      OBVIOUS
    <2> QED  BY <2>1, SumSteps
  <1>2. Chosen({r}) = r
    BY ChosenIn
  <1>3. f[{r}] = Weight(r) + f[{r} \ {r}]
    BY <1>1, <1>2
  <1>4. ({r} \ {r}) = {}
    OBVIOUS
  <1>5. Weight(r) \in Nat
    BY WeightTyped
  <1>6. SumOf({r}) = f[{r}] /\ f[{}] = 0
    BY <1>1
  <1>7. f[{r}] = Weight(r) + 0
    BY <1>3, <1>4, <1>6
  <1> QED  BY <1>5, <1>6, <1>7

-----------------------------------------------------------------------------
(* The ranks of an id in a list. *)

\* The ranks of an id in a list.
LEMMA RanksTyped ==
    ASSUME NEW X, NEW list \in Seq(X), Len(list) <= MaxRank, NEW id
    PROVE  /\ RanksOf(list, id) \in SUBSET (1..Len(list)) /\ RanksOf(list, id) \in SUBSET (1..MaxRank)
           /\ RanksOf(list, id) # {} <=> id \in Ids(list)
  <1>1. DOMAIN list = 1..Len(list) /\ Len(list) \in Nat
    BY LenProperties
  <1>2. RanksOf(list, id) \in SUBSET (1..Len(list))
    BY <1>1 DEF RanksOf
  <1>3. \A i \in 1..Len(list) : i \in 1..MaxRank
    BY <1>1, RrfAssumption
  <1>4. RanksOf(list, id) # {} <=> id \in Ids(list)
    BY DEF RanksOf, Ids
  <1> QED  BY <1>2, <1>3, <1>4

\* A score is the sum of what each branch gives.
LEMMA ScoreTyped ==
    ASSUME NEW X, NEW v \in Seq(X), Len(v) <= MaxRank, NEW g \in Seq(X), Len(g) <= MaxRank, NEW id
    PROVE  /\ Score(v, g, id) = SumOf(RanksOf(v, id)) + SumOf(RanksOf(g, id))
           /\ SumOf(RanksOf(v, id)) \in Nat /\ SumOf(RanksOf(g, id)) \in Nat
  <1>1. RanksOf(v, id) \in SUBSET (1..MaxRank) /\ RanksOf(g, id) \in SUBSET (1..MaxRank)
    BY RanksTyped
  <1>2. SumOf(RanksOf(v, id)) \in Nat /\ SumOf(RanksOf(g, id)) \in Nat
    BY <1>1, SumTyped
  <1>3. Score(v, g, id) = SumOf(RanksOf(v, id)) + SumOf(RanksOf(g, id))
    BY DEF Score, SumOf
  <1> QED  BY <1>2, <1>3

\* The rank a branch gives is a rank.
LEMMA BranchRankTyped ==
    ASSUME NEW X, NEW list \in Seq(X), Len(list) <= MaxRank, NEW id, RanksOf(list, id) # {}
    PROVE  BranchRank(list, id) \in 1..MaxRank
  <1> DEFINE ranks == RanksOf(list, id)
  <1>1. ranks \in SUBSET (1..MaxRank) /\ ranks # {}
    BY RanksTyped
  <1>2. BranchRank(list, id) = CHOOSE r \in ranks : \A q \in ranks : q <= r
    BY DEF BranchRank
  <1> HIDE DEF ranks
  <1>3. MaxRank \in Nat
    BY RrfAssumption
  <1>4. ranks \in SUBSET (0..MaxRank)
    BY <1>1, <1>3
  <1>5. \E r \in ranks : \A q \in ranks : q <= r
    BY <1>1, <1>3, <1>4, LargestNumber
  <1>6. (CHOOSE r \in ranks : \A q \in ranks : q <= r) \in ranks
    BY <1>5
  <1> QED  BY <1>1, <1>2, <1>6

\* The best rank is a number.
LEMMA BestRankTyped ==
    ASSUME NEW X, NEW v \in Seq(X), Len(v) <= MaxRank, NEW g \in Seq(X), Len(g) <= MaxRank, NEW id
    PROVE  BestRank(v, g, id) \in Nat
  <1> DEFINE ranks == {BranchRank(list, id) : list \in {l \in {v, g} : RanksOf(l, id) # {}}}
  <1>1. BestRank(v, g, id) = IF ranks = {} THEN NoRank ELSE CHOOSE r \in ranks : \A q \in ranks : r <= q
    BY DEF BestRank
  <1>2. ranks \in SUBSET Nat
    <2>1. \A list \in {v, g} : RanksOf(list, id) # {} => BranchRank(list, id) \in 1..MaxRank
      BY BranchRankTyped
    <2>2. \A r \in 1..MaxRank : r \in Nat
      OBVIOUS
    <2> QED  BY <2>1, <2>2
  <1> HIDE DEF ranks
  <1>3. CASE ranks = {}
    BY <1>1, <1>3 DEF NoRank
  <1>4. CASE ranks # {}
    <2>1. \E r \in ranks : \A q \in ranks : r <= q
      BY <1>2, <1>4, SmallestNumber
    <2>2. (CHOOSE r \in ranks : \A q \in ranks : r <= q) \in ranks
      BY <2>1
    <2>3. BestRank(v, g, id) \in ranks
      BY <1>1, <1>4, <2>2
    <2> QED  BY <1>2, <2>3
  <1> QED  BY <1>3, <1>4

-----------------------------------------------------------------------------
(* The registry. *)

\* The three lists, one after the other.
LEMMA ListsJoined ==
    ASSUME NEW X, NEW v \in Seq(X), NEW g \in Seq(X), NEW s \in Seq(X)
    PROVE  /\ (v \o g) \o s \in Seq(X)
           /\ Len((v \o g) \o s) = Len(v) + Len(g) + Len(s)
           /\ \A i \in 1..Len(v) : ((v \o g) \o s)[i] = v[i]
           /\ \A i \in 1..Len(g) : ((v \o g) \o s)[Len(v) + i] = g[i]
           /\ \A i \in 1..Len(s) : ((v \o g) \o s)[Len(v) + Len(g) + i] = s[i]
  <1> DEFINE l == Len(v)  m == Len(g)  n == Len(s)  vg == v \o g
  <1>1. l \in Nat /\ m \in Nat /\ n \in Nat
    BY LenProperties
  <1>2. /\ vg \in Seq(X) /\ Len(vg) = l + m
        /\ \A i \in 1..(l + m) : vg[i] = IF i <= l THEN v[i] ELSE g[i - l]
    BY ConcatProperties
  <1> HIDE DEF vg
  <1>3. /\ vg \o s \in Seq(X) /\ Len(vg \o s) = Len(vg) + n
        /\ \A i \in 1..(Len(vg) + n) : (vg \o s)[i] = IF i <= Len(vg) THEN vg[i] ELSE s[i - Len(vg)]
    <2>1. vg \in Seq(X)
      BY <1>2
    <2> QED  BY <2>1, ConcatProperties
  <1> DEFINE all == vg \o s
  <1>4. /\ all \in Seq(X) /\ Len(all) = l + m + n
        /\ \A i \in 1..(l + m + n) : all[i] = IF i <= l + m THEN vg[i] ELSE s[i - (l + m)]
    BY <1>2, <1>3
  <1> HIDE DEF all, l, m, n
  <1>5. \A i \in 1..l : all[i] = v[i]
    BY <1>1, <1>2, <1>4
  <1>6. ASSUME NEW i \in 1..m PROVE all[l + i] = g[i]
    <2>1. l + i \in 1..(l + m) /\ l + i \in 1..(l + m + n) /\ ~(l + i <= l) /\ (l + i) - l = i
      BY <1>1
    <2> QED  BY <1>2, <1>4, <2>1
  <1>7. ASSUME NEW i \in 1..n PROVE all[l + m + i] = s[i]
    <2>1. l + m + i \in 1..(l + m + n) /\ ~(l + m + i <= l + m) /\ (l + m + i) - (l + m) = i
      BY <1>1
    <2> QED  BY <1>4, <2>1
  <1> QED  BY <1>4, <1>5, <1>6, <1>7 DEF all, vg, l, m, n

\* The first copy of an id: from the vector branch if it has the id, then from the graph.
LEMMA RegisteredFirst ==
    ASSUME NEW X, NEW v \in Seq(X), NEW g \in Seq(X), NEW s \in Seq(X),
           NEW id \in Ids((v \o g) \o s)
    PROVE  /\ Registered(v, g, s, id).id = id
           /\ Registered(v, g, s, id) \in X
           /\ id \in Ids(v) => \E i \in 1..Len(v) : Registered(v, g, s, id) = v[i]
           /\ id \notin Ids(v) => \/ \E i \in 1..Len(g) : Registered(v, g, s, id) = g[i]
                                  \/ \E i \in 1..Len(s) : Registered(v, g, s, id) = s[i]
  <1> DEFINE l == Len(v)  m == Len(g)  n == Len(s)  all == (v \o g) \o s
             ranks == RanksOf(all, id)
             first == CHOOSE i \in ranks : \A j \in ranks : i <= j
  <1>1. l \in Nat /\ m \in Nat /\ n \in Nat
    <2> HIDE DEF all, ranks, first
    <2> QED  BY LenProperties
  <1>2. /\ all \in Seq(X) /\ Len(all) = l + m + n
        /\ \A i \in 1..l : all[i] = v[i]
        /\ \A i \in 1..m : all[l + i] = g[i]
        /\ \A i \in 1..n : all[l + m + i] = s[i]
    <2> HIDE DEF l, m, n, all, ranks, first
    <2>1. /\ (v \o g) \o s \in Seq(X)
          /\ Len((v \o g) \o s) = Len(v) + Len(g) + Len(s)
          /\ \A i \in 1..Len(v) : ((v \o g) \o s)[i] = v[i]
          /\ \A i \in 1..Len(g) : ((v \o g) \o s)[Len(v) + i] = g[i]
          /\ \A i \in 1..Len(s) : ((v \o g) \o s)[Len(v) + Len(g) + i] = s[i]
      BY ListsJoined
    <2> QED  BY <2>1 DEF l, m, n, all
  <1>3. Registered(v, g, s, id) = all[first]
    <2> HIDE DEF l, m, n
    <2> QED  BY DEF Registered
  <1>4. ranks \in SUBSET Nat /\ ranks # {}
    <2>1. DOMAIN all = 1..(l + m + n)
      BY <1>2, LenProperties
    <2> HIDE DEF all
    <2> QED  BY <2>1 DEF RanksOf, Ids, all
  <1>5. first \in ranks /\ \A j \in ranks : first <= j
    <2> HIDE DEF ranks
    <2>1. \E i \in ranks : \A j \in ranks : i <= j
      BY <1>4, SmallestNumber
    <2> QED  BY <2>1
  <1> HIDE DEF first
  <1>6. first \in 1..(l + m + n) /\ all[first].id = id
    <2>1. DOMAIN all = 1..(l + m + n)
      BY <1>2, LenProperties
    <2> HIDE DEF all
    <2> QED  BY <1>5, <2>1 DEF RanksOf
  <1>7. all[first] \in X
    <2> HIDE DEF all
    <2> QED  BY <1>2, <1>6, ElementOfSeq
  <1>8. ASSUME NEW i \in 1..l, v[i].id = id PROVE first \in 1..l /\ all[first] = v[first]
    <2>1. DOMAIN all = 1..(l + m + n)
      BY <1>2, LenProperties
    <2>2. i \in 1..(l + m + n) /\ all[i].id = id
      BY <1>1, <1>2, <1>8
    <2>3. i \in ranks
      <3> HIDE DEF all
      <3> QED  BY <2>1, <2>2 DEF RanksOf
    <2>4. first <= i
      BY <1>5, <2>3
    <2>5. first \in 1..l
      <3> HIDE DEF all, ranks, l, m, n
      <3> QED  BY <1>1, <1>6, <2>4, <1>8
    <2> QED  BY <1>2, <2>5
  <1>9. id \in Ids(v) => \E i \in 1..l : all[first] = v[i]
    <2> SUFFICES ASSUME id \in Ids(v) PROVE \E i \in 1..l : all[first] = v[i]
      OBVIOUS
    <2>1. PICK i \in 1..l : v[i].id = id
      BY LenProperties DEF Ids
    <2> HIDE DEF all, l
    <2> QED  BY <1>8, <2>1
  <1>10. id \notin Ids(v) => \/ \E i \in 1..m : all[first] = g[i]
                             \/ \E i \in 1..n : all[first] = s[i]
    <2> SUFFICES ASSUME id \notin Ids(v)
                 PROVE  \/ \E i \in 1..m : all[first] = g[i]
                        \/ \E i \in 1..n : all[first] = s[i]
      OBVIOUS
    <2>1. first \notin 1..l
      <3>1. DOMAIN v = 1..l
        BY LenProperties
      <3> SUFFICES ASSUME first \in 1..l PROVE FALSE
        OBVIOUS
      <3>2. v[first].id = id
        BY <1>2, <1>6
      <3> HIDE DEF all, l
      <3> QED  BY <3>1, <3>2 DEF Ids
    <2> HIDE DEF all, l, m, n
    <2>2. CASE first <= l + m
      <3> DEFINE i == first - l
      <3>1. i \in 1..m /\ first = l + i
        BY <1>1, <1>6, <2>1, <2>2
      <3> HIDE DEF i
      <3> QED  BY <1>2, <3>1
    <2>3. CASE ~(first <= l + m)
      <3> DEFINE i == first - (l + m)
      <3>1. i \in 1..n /\ first = l + m + i
        BY <1>1, <1>6, <2>1, <2>3
      <3> HIDE DEF i
      <3> QED  BY <1>2, <3>1
    <2> QED  BY <2>2, <2>3
  <1> QED  BY <1>3, <1>6, <1>7, <1>9, <1>10

\* The ids of joined lists.
LEMMA JoinedIds ==
    ASSUME NEW X, NEW v \in Seq(X), NEW g \in Seq(X), NEW s \in Seq(X)
    PROVE  Ids((v \o g) \o s) = Ids(v) \cup Ids(g) \cup Ids(s)
  <1> DEFINE l == Len(v)  m == Len(g)  n == Len(s)  all == (v \o g) \o s
  <1>1. l \in Nat /\ m \in Nat /\ n \in Nat /\ DOMAIN v = 1..l /\ DOMAIN g = 1..m /\ DOMAIN s = 1..n
    BY LenProperties
  <1>2. /\ all \in Seq(X) /\ Len(all) = l + m + n
        /\ \A i \in 1..l : all[i] = v[i]
        /\ \A i \in 1..m : all[l + i] = g[i]
        /\ \A i \in 1..n : all[l + m + i] = s[i]
    BY ListsJoined
  <1>3. DOMAIN all = 1..(l + m + n)
    BY <1>2, LenProperties
  <1> HIDE DEF all, l, m, n
  <1>4. ASSUME NEW i \in DOMAIN v PROVE \E k \in DOMAIN all : all[k] = v[i]
    <2>1. i \in DOMAIN all
      BY <1>1, <1>3
    <2> QED  BY <1>1, <1>2, <2>1
  <1>5. ASSUME NEW i \in DOMAIN g PROVE \E k \in DOMAIN all : all[k] = g[i]
    <2>1. l + i \in DOMAIN all
      BY <1>1, <1>3
    <2> QED  BY <1>1, <1>2, <2>1
  <1>6. ASSUME NEW i \in DOMAIN s PROVE \E k \in DOMAIN all : all[k] = s[i]
    <2>1. l + m + i \in DOMAIN all
      BY <1>1, <1>3
    <2> QED  BY <1>1, <1>2, <2>1
  <1>7. ASSUME NEW k \in DOMAIN all
        PROVE  \/ \E i \in DOMAIN v : all[k] = v[i]
               \/ \E i \in DOMAIN g : all[k] = g[i]
               \/ \E i \in DOMAIN s : all[k] = s[i]
    <2>1. CASE k <= l
      BY <1>1, <1>2, <1>3, <2>1
    <2>2. CASE l < k /\ k <= l + m
      <3> DEFINE i == k - l
      <3>1. i \in DOMAIN g /\ k = l + i
        BY <1>1, <1>3, <2>2
      <3> HIDE DEF i
      <3> QED  BY <1>1, <1>2, <3>1
    <2>3. CASE l + m < k
      <3> DEFINE i == k - (l + m)
      <3>1. i \in DOMAIN s /\ k = l + m + i
        BY <1>1, <1>3, <2>3
      <3> HIDE DEF i
      <3> QED  BY <1>1, <1>2, <3>1
    <2>4. k \in Nat
      BY <1>3
    <2> QED  BY <1>1, <2>1, <2>2, <2>3, <2>4
  <1>8. \A id : id \in Ids(all) <=> id \in Ids(v) \/ id \in Ids(g) \/ id \in Ids(s)
    BY <1>4, <1>5, <1>6, <1>7 DEF Ids
  <1> QED  BY <1>8 DEF all

-----------------------------------------------------------------------------
(* The fused list. *)

\* Fused evidence can be ordered by its key.
LEMMA SortKeyTyped ==
    ASSUME NEW X, NEW v \in Seq(X), Len(v) <= MaxRank, NEW g \in Seq(X), Len(g) <= MaxRank,
           NEW s \in Seq(X), \A x \in X : Digest(x.id) \in Int, NEW id \in Ids((v \o g) \o s)
    PROVE  SortKey(Fused(v, g, s, id)) \in [1..3 -> Int]
  <1> DEFINE f == Fused(v, g, s, id)
  <1>1. f.item = Registered(v, g, s, id) /\ f.score = Score(v, g, id) /\ f.best = BestRank(v, g, id)
    BY DEF Fused
  <1>2. Digest(f.item.id) \in Int
    BY <1>1, RegisteredFirst
  <1>3. f.best \in Int
    BY <1>1, BestRankTyped
  <1>4. 0 - f.score \in Int
    BY <1>1, ScoreTyped
  <1> HIDE DEF f
  <1>5. SortKey(f) = <<0 - f.score, f.best, Digest(f.item.id)>>
    BY DEF SortKey
  <1>6. SortKey(f) \in [1..3 -> Int]
    BY <1>2, <1>3, <1>4, <1>5
  <1> QED  BY <1>6 DEF f

\* What fuse() lists: every id once, as _register first had it, in the final order.
RankingOf(R, v, g, s) ==
    /\ R \in Seq({Fused(v, g, s, id) : id \in Ids((v \o g) \o s)})
    /\ \A i \in 1..Len(R) : /\ R[i].item.id \in Ids((v \o g) \o s)
                            /\ R[i] = Fused(v, g, s, R[i].item.id)
    /\ \A id \in Ids((v \o g) \o s) : \E i \in 1..Len(R) : R[i].item.id = id
    /\ \A i, j \in 1..Len(R) : R[i].item.id = R[j].item.id => i = j
    /\ \A i, j \in 1..Len(R) : i < j => ~Lexicographic(SortKey(R[j]), SortKey(R[i]))

\* The ranking has every id once, in the order of the keys.
LEMMA RankingList ==
    ASSUME NEW X, NEW v \in Seq(X), Len(v) <= MaxRank, NEW g \in Seq(X), Len(g) <= MaxRank,
           NEW s \in Seq(X), \A x \in X : Digest(x.id) \in Int
    PROVE  RankingOf(Ranking(v, g, s), v, g, s)
  <1> DEFINE all == (v \o g) \o s
             T == Ids(all)
             ids == [i \in DOMAIN all |-> all[i].id]
             registry == Once(ids)
             F == {Fused(v, g, s, id) : id \in T}
             fused == [i \in DOMAIN registry |-> Fused(v, g, s, registry[i])]
             key == [i \in DOMAIN fused |-> SortKey(fused[i])]
  <1>1. Ranking(v, g, s) = Sorted(fused, key)
    BY DEF Ranking
  <1>2. DOMAIN all = 1..Len(all) /\ Len(all) \in Nat
    BY ListsJoined, LenProperties
  <1>3. ids \in Seq(T) /\ Len(ids) = Len(all) /\ \A i \in 1..Len(all) : ids[i] = all[i].id
    <2> HIDE DEF all
    <2> QED  BY <1>2 DEF Ids
  <1>4. /\ registry \in Seq(T)
        /\ \A k \in 1..Len(ids) : \E i \in 1..Len(registry) : registry[i] = ids[k]
        /\ \A i, j \in 1..Len(registry) : registry[i] = registry[j] => i = j
    <2> HIDE DEF ids, T
    <2> QED  BY <1>3, OnceList
  <1>5. \A id \in T : \E i \in 1..Len(registry) : registry[i] = id
    <2> SUFFICES ASSUME NEW id \in T PROVE \E i \in 1..Len(registry) : registry[i] = id
      OBVIOUS
    <2>1. PICK k \in 1..Len(all) : all[k].id = id
      BY <1>2 DEF Ids
    <2> HIDE DEF registry, ids, T, all
    <2> QED  BY <1>3, <1>4, <2>1
  <1>6. DOMAIN registry = 1..Len(registry) /\ Len(registry) \in Nat
    <2> HIDE DEF registry, T
    <2> QED  BY <1>4, LenProperties
  <1>7. /\ fused \in Seq(F) /\ Len(fused) = Len(registry)
        /\ \A i \in 1..Len(registry) : fused[i] = Fused(v, g, s, registry[i])
    <2> HIDE DEF registry, T
    <2>1. \A i \in 1..Len(registry) : registry[i] \in T
      BY <1>4, <1>6
    <2> QED  BY <1>6, <2>1
  <1>8. \A id \in T : /\ SortKey(Fused(v, g, s, id)) \in [1..3 -> Int]
                      /\ Fused(v, g, s, id).item.id = id
    <2> SUFFICES ASSUME NEW id \in T
                 PROVE  /\ SortKey(Fused(v, g, s, id)) \in [1..3 -> Int]
                        /\ Fused(v, g, s, id).item.id = id
      OBVIOUS
    <2>1. SortKey(Fused(v, g, s, id)) \in [1..3 -> Int]
      BY SortKeyTyped
    <2>2. Fused(v, g, s, id).item = Registered(v, g, s, id)
      BY DEF Fused
    <2>3. Registered(v, g, s, id).id = id
      BY RegisteredFirst
    <2> QED  BY <2>1, <2>2, <2>3
  <1>9. \A i \in 1..Len(registry) : registry[i] \in T
    <2> HIDE DEF registry, T
    <2> QED  BY <1>4, <1>6
  <1> HIDE DEF registry, T, F
  <1>10. DOMAIN fused = 1..Len(registry)
    BY <1>6
  <1>11. /\ key \in [1..Len(fused) -> [1..3 -> Int]]
         /\ \A i \in 1..Len(fused) : key[i] = SortKey(fused[i])
    <2> HIDE DEF fused
    <2> QED  BY <1>7, <1>8, <1>9, <1>10
  <1> HIDE DEF fused, key
  <1>12. 3 \in Nat
    OBVIOUS
  <1>13. PICK order \in [1..Len(fused) -> 1..Len(fused)] :
             /\ \A p \in 1..Len(fused) : \E i \in 1..Len(fused) : order[i] = p
             /\ \A i, j \in 1..Len(fused) : order[i] = order[j] => i = j
             /\ \A i, j \in 1..Len(fused) : i < j => ~Lexicographic(key[order[j]], key[order[i]])
             /\ Sorted(fused, key) = [i \in 1..Len(fused) |-> fused[order[i]]]
             /\ Sorted(fused, key) \in Seq(F)
    BY <1>7, <1>11, <1>12, SortedList
  <1> DEFINE R == Sorted(fused, key)  N == Len(registry)
  <1>14. /\ R \in Seq(F) /\ Len(R) = N /\ N \in Nat
         /\ \A i \in 1..N : order[i] \in 1..N /\ R[i] = fused[order[i]]
    <2>1. R = [i \in 1..Len(fused) |-> fused[order[i]]] /\ R \in Seq(F) /\ Len(fused) = N /\ N \in Nat
      BY <1>6, <1>7, <1>13
    <2>2. \A i \in 1..N : order[i] \in 1..N
      BY <1>7, <1>13
    <2> HIDE DEF R, N
    <2>3. DOMAIN R = 1..N /\ \A i \in 1..N : R[i] = fused[order[i]]
      BY <2>1
    <2>4. Len(R) = N
      BY <2>1, <2>3, LenProperties
    <2> QED  BY <2>1, <2>2, <2>3, <2>4
  <1> HIDE DEF R
  <1>15. \A i \in 1..N : /\ R[i] = Fused(v, g, s, registry[order[i]])
                         /\ R[i].item.id = registry[order[i]] /\ registry[order[i]] \in T
    BY <1>7, <1>8, <1>9, <1>14
  <1>16. \A id \in T : \E i \in 1..N : R[i].item.id = id
    <2> SUFFICES ASSUME NEW id \in T PROVE \E i \in 1..N : R[i].item.id = id
      OBVIOUS
    <2>1. PICK k \in 1..N : registry[k] = id
      BY <1>5
    <2>2. PICK i \in 1..N : order[i] = k
      BY <1>7, <1>13
    <2> QED  BY <1>15, <2>1, <2>2
  <1>17. \A i, j \in 1..N : R[i].item.id = R[j].item.id => i = j
    BY <1>4, <1>7, <1>13, <1>14, <1>15
  <1>18. \A i, j \in 1..N : i < j => ~Lexicographic(SortKey(R[j]), SortKey(R[i]))
    <2> SUFFICES ASSUME NEW i \in 1..N, NEW j \in 1..N, i < j
                 PROVE  ~Lexicographic(SortKey(R[j]), SortKey(R[i]))
      OBVIOUS
    <2>1. ~Lexicographic(key[order[j]], key[order[i]])
      BY <1>7, <1>13
    <2>2. R[i] = fused[order[i]] /\ R[j] = fused[order[j]] /\ order[i] \in 1..N /\ order[j] \in 1..N
      BY <1>14
    <2>3. key[order[i]] = SortKey(fused[order[i]]) /\ key[order[j]] = SortKey(fused[order[j]])
      BY <1>7, <1>11, <2>2
    <2> QED  BY <2>1, <2>2, <2>3
  <1>19. /\ R \in Seq({Fused(v, g, s, id) : id \in T})
         /\ \A i \in 1..Len(R) : R[i].item.id \in T /\ R[i] = Fused(v, g, s, R[i].item.id)
    BY <1>14, <1>15 DEF F
  <1>20. RankingOf(R, v, g, s)
    BY <1>14, <1>16, <1>17, <1>18, <1>19 DEF RankingOf, T
  <1> QED  BY <1>1, <1>20 DEF R

\* An answer is the head of the list.
LEMMA FuseList ==
    ASSUME NEW v, NEW g, NEW s, NEW R, R = Ranking(v, g, s), RankingOf(R, v, g, s), NEW k \in Nat
    PROVE  /\ DOMAIN Fuse(v, g, s, k) = 1..Len(Fuse(v, g, s, k))
           /\ Len(Fuse(v, g, s, k)) = IF Len(R) < k THEN Len(R) ELSE k
           /\ \A i \in 1..Len(Fuse(v, g, s, k)) : i \in 1..Len(R) /\ Fuse(v, g, s, k)[i] = R[i]
  <1> DEFINE F == {Fused(v, g, s, id) : id \in Ids((v \o g) \o s)}
             n == IF Len(R) < k THEN Len(R) ELSE k
  <1>1. Fuse(v, g, s, k) = SubSeq(R, 1, n)
    BY DEF Fuse
  <1>2. R \in Seq(F)
    BY DEF RankingOf
  <1> HIDE DEF F
  <1>3. Len(R) \in Nat /\ \A i \in 1..Len(R) : R[i] \in F
    BY <1>2, LenProperties, ElementOfSeq
  <1>4. n \in 0..Len(R)
    BY <1>3
  <1> HIDE DEF n
  <1>5. \A i \in 1..n : i \in 1..Len(R) /\ R[i] \in F
    BY <1>3, <1>4
  <1>6. /\ SubSeq(R, 1, n) \in Seq(F)
        /\ Len(SubSeq(R, 1, n)) = IF 1 <= n THEN n - 1 + 1 ELSE 0
        /\ \A i \in 1..(n - 1 + 1) : SubSeq(R, 1, n)[i] = R[1 + i - 1]
    BY <1>4, <1>5, SubSeqProperties
  <1>7. Len(SubSeq(R, 1, n)) = n /\ \A i \in 1..n : SubSeq(R, 1, n)[i] = R[i]
    BY <1>4, <1>6
  <1>8. DOMAIN SubSeq(R, 1, n) = 1..n
    BY <1>6, <1>7, LenProperties
  <1> QED  BY <1>1, <1>4, <1>5, <1>7, <1>8 DEF n

-----------------------------------------------------------------------------
(* The stores and the types. *)

Fields == DOMAIN Idle

\* What index requests change.
StoresOK ==
    /\ point \in [Chunk -> Generation \cup {None}]
    /\ nodes \subseteq Entity
    /\ edges \subseteq Facts
    /\ \A e \in edges : {e.source, e.target} \subseteq nodes
    /\ \A e, f \in edges : RelationshipId(e) = RelationshipId(f) => e = f

\* What a retrieval changes; a record with any contents of its lists.
RequestOK(q) ==
    /\ q = [f \in Fields |-> q[f]]
    /\ q.pc \in PC /\ q.call \in Call \cup {None} /\ q.start \in Entity \cup {None}
    /\ q.error \in Error \cup {None}

Inv == StoresOK /\ RequestOK(req)

\* No retrieval runs.
LEMMA IdleOK == RequestOK(Idle)
  BY DEF RequestOK, Idle, Fields, PC

\* The invariant holds at first.
LEMMA Initial == Init => Inv
  <1> SUFFICES ASSUME Init PROVE Inv
    OBVIOUS
  <1>1. StoresOK
    BY StoresAssumption DEF Init, StoresOK
  <1> QED  BY <1>1, IdleOK DEF Init, Inv

-----------------------------------------------------------------------------
(* The request. *)

\* Lists and the flag may take any value.
LEMMA ListsFree ==
    ASSUME NEW q, RequestOK(q), NEW f \in Fields \ {"pc", "call", "start", "error"}, NEW x
    PROVE  RequestOK([q EXCEPT ![f] = x])
  BY DEF RequestOK, Fields, Idle

\* A retrieval stays a legal state when one field changes.
LEMMA PcMoves ==
    ASSUME NEW q, RequestOK(q), NEW pc \in PC
    PROVE  RequestOK([q EXCEPT !.pc = pc])
  BY DEF RequestOK, Fields, Idle

LEMMA ErrorMoves ==
    ASSUME NEW q, RequestOK(q), NEW error \in Error \cup {None}
    PROVE  RequestOK([q EXCEPT !.error = error])
  BY DEF RequestOK, Fields, Idle

LEMMA CallMoves ==
    ASSUME NEW q, RequestOK(q), NEW call \in Call
    PROVE  RequestOK([q EXCEPT !.call = call])
  BY DEF RequestOK, Fields, Idle

LEMMA StartMoves ==
    ASSUME NEW q, RequestOK(q), NEW start \in Entity
    PROVE  RequestOK([q EXCEPT !.start = start])
  BY DEF RequestOK, Fields, Idle

\* A retrieval that changes one field after the other.
LEMMA FailKeeps ==
    ASSUME RequestOK(req), NEW error \in Error, Fail(error)
    PROVE  RequestOK(req')
  <1>1. RequestOK([req EXCEPT !.pc = "failed"])
    BY PcMoves DEF PC
  <1>2. RequestOK([[req EXCEPT !.pc = "failed"] EXCEPT !.error = error])
    BY <1>1, ErrorMoves
  <1> QED  BY <1>2 DEF Fail

\* Each action keeps the invariant: one lemma for each, after the steps they share.
LEMMA GotoKeeps ==
    ASSUME RequestOK(req), NEW pc \in PC, Goto(pc)
    PROVE  RequestOK(req')
  BY PcMoves DEF Goto

LEMMA StartQueries ==
    ASSUME RequestOK(req), NEW n \in Entity, req' = [req EXCEPT !.start = n, !.pc = "query"]
    PROVE  RequestOK(req')
  <1> DEFINE q == [req EXCEPT !.start = n]
  <1>1. req' = [q EXCEPT !.pc = "query"]
    OBVIOUS
  <1>2. RequestOK(q)
    BY StartMoves
  <1> HIDE DEF q
  <1> QED  BY <1>1, <1>2, PcMoves DEF PC

LEMMA BeginKeeps == ASSUME Inv, Begin PROVE RequestOK(req')
  <1>1. PICK c \in Call :
          req' = [req EXCEPT !.call = c,
                             !.pc = CASE Refused(c) -> "failed"
                                      [] Vectors(c) /\ ~Refused(c) -> "vector"
                                      [] OTHER -> "resolve",
                             !.error = IF Refused(c) THEN "invalid" ELSE None]
    BY DEF Begin
  <1> DEFINE pc == CASE Refused(c) -> "failed"
                     [] Vectors(c) /\ ~Refused(c) -> "vector"
                     [] OTHER -> "resolve"
             error == IF Refused(c) THEN "invalid" ELSE None
             q == [req EXCEPT !.call = c]
             r == [q EXCEPT !.pc = pc]
  <1>2. pc \in PC /\ error \in Error \cup {None}
    <2>1. CASE Refused(c)
      BY <2>1 DEF PC, Error
    <2>2. CASE ~Refused(c) /\ Vectors(c)
      BY <2>2 DEF PC, Error
    <2>3. CASE ~Refused(c) /\ ~Vectors(c)
      BY <2>3 DEF PC, Error
    <2> QED  BY <2>1, <2>2, <2>3
  <1>3. req' = [r EXCEPT !.error = error]
    BY <1>1
  <1> HIDE DEF pc, error
  <1>4. RequestOK(q)
    BY CallMoves DEF Inv
  <1> HIDE DEF q
  <1>5. RequestOK(r)
    BY <1>2, <1>4, PcMoves
  <1> HIDE DEF r
  <1> QED  BY <1>2, <1>3, <1>5, ErrorMoves

LEMMA SearchVectorsKeeps == ASSUME Inv, SearchVectors PROVE RequestOK(req')
  <1>1. CASE Fail("invalid")
    BY <1>1, FailKeeps DEF Inv, Error
  <1>2. ASSUME NEW topK, NEW hits \in Hits(req.call.filter, topK),
               req' = [req EXCEPT !.vector = [i \in DOMAIN hits |-> Text(hits[i], TRUE)],
                                  !.pc = CASE req.call.endpoint = "vector" -> "done"
                                           [] Graphs(req.call) -> "resolve"
                                           [] OTHER -> "fuse"]
        PROVE  RequestOK(req')
    <2> DEFINE vector == [i \in DOMAIN hits |-> Text(hits[i], TRUE)]
               pc == CASE req.call.endpoint = "vector" -> "done"
                       [] Graphs(req.call) -> "resolve"
                       [] OTHER -> "fuse"
               q == [req EXCEPT !.vector = vector]
    <2>1. req' = [q EXCEPT !.pc = pc]
      BY <1>2
    <2>2. pc \in PC
      <3>1. CASE req.call.endpoint = "vector"
        BY <3>1 DEF PC, Graphs
      <3>2. CASE req.call.endpoint # "vector" /\ Graphs(req.call)
        BY <3>2 DEF PC
      <3>3. CASE req.call.endpoint # "vector" /\ ~Graphs(req.call)
        BY <3>3 DEF PC
      <3> QED  BY <3>1, <3>2, <3>3
    <2> HIDE DEF pc, vector
    <2>3. RequestOK(q)
      BY ListsFree DEF Inv, Fields, Idle
    <2> HIDE DEF q
    <2> QED  BY <2>1, <2>2, <2>3, PcMoves
  <1> QED  BY <1>1, <1>2 DEF SearchVectors

LEMMA ResolveEntityKeeps == ASSUME Inv, ResolveEntity PROVE RequestOK(req')
  <1>1. CASE Fail("invalid") \/ Fail("not_found")
    BY <1>1, FailKeeps DEF Inv, Error
  <1>2. CASE Goto("find")
    BY <1>2, GotoKeeps DEF Inv, PC
  <1>3. ASSUME NEW id \in nodes, req' = [req EXCEPT !.start = id, !.pc = "query"]
        PROVE  RequestOK(req')
    BY <1>3, StartQueries DEF Inv, StoresOK
  <1> QED  BY <1>1, <1>2, <1>3 DEF ResolveEntity

LEMMA FindEntityKeeps == ASSUME Inv, FindEntity PROVE RequestOK(req')
  <1>1. CASE Fail("not_found") \/ Fail("ambiguous")
    BY <1>1, FailKeeps DEF Inv, Error
  <1>2. ASSUME NEW n \in NamedNodes(nodes, req.call.name, req.call.type),
               req' = [req EXCEPT !.start = n, !.pc = "query"]
        PROVE  RequestOK(req')
    BY <1>2, StartQueries DEF Inv, StoresOK, NamedNodes
  <1> QED  BY <1>1, <1>2 DEF FindEntity

LEMMA FoundKeeps == ASSUME RequestOK(req), NEW paths, Found(paths) PROVE RequestOK(req')
  <1> DEFINE evidence == GraphEvidence(req.call.op, paths)
             todo == IF req.call.endpoint = "graph" THEN <<>> ELSE evidence
             graph == IF req.call.endpoint = "graph" THEN evidence ELSE <<>>
             pc == IF req.call.endpoint = "graph" THEN "done" ELSE "bridge"
             q == [req EXCEPT !.paths = paths]
             r == [q EXCEPT !.todo = todo]
             s == [r EXCEPT !.graph = graph]
  <1>1. req' = [s EXCEPT !.pc = pc]
    BY DEF Found
  <1>2. pc \in PC
    BY DEF PC
  <1> HIDE DEF evidence, todo, graph, pc
  <1>3. RequestOK(q)
    BY ListsFree DEF Fields, Idle
  <1> HIDE DEF q
  <1>4. RequestOK(r)
    BY <1>3, ListsFree DEF Fields, Idle
  <1> HIDE DEF r
  <1>5. RequestOK(s)
    BY <1>4, ListsFree DEF Fields, Idle
  <1> HIDE DEF s
  <1> QED  BY <1>1, <1>2, <1>5, PcMoves

LEMMA QueryPathsKeeps == ASSUME Inv, QueryPaths PROVE RequestOK(req')
  <1> DEFINE paths == Paths(edges, req.call.op, req.start, Depth, Limit)
  <1>1. CASE Fail("invalid")
    BY <1>1, FailKeeps DEF Inv, Error
  <1>2. CASE Found(paths)
    BY <1>2, FoundKeeps DEF Inv
  <1>3. CASE req' = [req EXCEPT !.paths = paths, !.pc = "incoming"]
    <2> DEFINE q == [req EXCEPT !.paths = paths]
    <2>1. req' = [q EXCEPT !.pc = "incoming"]
      BY <1>3
    <2> HIDE DEF paths
    <2>2. RequestOK(q)
      BY ListsFree DEF Inv, Fields, Idle
    <2> HIDE DEF q
    <2> QED  BY <2>1, <2>2, PcMoves DEF PC
  <1> QED  BY <1>1, <1>2, <1>3 DEF QueryPaths

LEMMA QueryIncomingKeeps == ASSUME Inv, QueryIncoming PROVE RequestOK(req')
  BY FoundKeeps DEF Inv, QueryIncoming

LEMMA BridgeItemKeeps == ASSUME Inv, BridgeItem PROVE RequestOK(req')
  <1>1. CASE Fail("identity_mismatch")
    BY <1>1, FailKeeps DEF Inv, Error
  <1>2. ASSUME NEW todo, NEW graph, NEW support,
               req' = [req EXCEPT !.todo = todo, !.graph = graph, !.support = support]
        PROVE  RequestOK(req')
    <2> DEFINE q == [req EXCEPT !.todo = todo]
               r == [q EXCEPT !.graph = graph]
    <2>1. req' = [r EXCEPT !.support = support]
      BY <1>2
    <2>2. RequestOK(q)
      BY ListsFree DEF Inv, Fields, Idle
    <2> HIDE DEF q
    <2>3. RequestOK(r)
      BY <2>2, ListsFree DEF Fields, Idle
    <2> HIDE DEF r
    <2> QED  BY <2>1, <2>3, ListsFree DEF Fields, Idle
  <1> DEFINE item == Head(req.todo)
             wanted == Limited(item.chunks, MaxSupportingChunks)
             texts == Picked(wanted, Stored)
             todo == Tail(req.todo)
             graph == Append(req.graph, Bridged(item, wanted))
             support == req.support \o [i \in DOMAIN texts |-> Text(texts[i], FALSE)]
  <1>3. Fail("identity_mismatch")
          \/ req' = [req EXCEPT !.todo = todo, !.graph = graph, !.support = support]
    BY DEF BridgeItem
  <1> HIDE DEF todo, graph, support
  <1> QED  BY <1>1, <1>2, <1>3

LEMMA FuseBranchesKeeps == ASSUME Inv, FuseBranches PROVE RequestOK(req')
  <1> DEFINE answer == Fuse(req.vector, req.graph, req.support, TopK(req.call))
             q == [req EXCEPT !.answer = answer]
  <1>1. req' = [q EXCEPT !.pc = "done"]
    BY DEF FuseBranches
  <1> HIDE DEF answer
  <1>2. RequestOK(q)
    BY ListsFree DEF Inv, Fields, Idle
  <1> HIDE DEF q
  <1> QED  BY <1>1, <1>2, PcMoves DEF PC

LEMMA RetrieveKeeps == ASSUME Inv, Retrieve PROVE Inv'
  <1>1. ASSUME StoreFails PROVE RequestOK(req')
    BY <1>1, FailKeeps DEF Inv, StoreFails, Error
  <1>2. ASSUME Reply PROVE RequestOK(req')
    BY <1>2, IdleOK DEF Reply
  <1>3. RequestOK(req')
    BY <1>1, <1>2, BeginKeeps, SearchVectorsKeeps, ResolveEntityKeeps, FindEntityKeeps,
       QueryPathsKeeps, QueryIncomingKeeps, BridgeItemKeeps, FuseBranchesKeeps DEF Retrieve
  <1>4. UNCHANGED stores
    BY DEF Retrieve, Begin, SearchVectors, ResolveEntity, FindEntity, QueryPaths,
       QueryIncoming, BridgeItem, FuseBranches, StoreFails, Reply
  <1>5. StoresOK'
    BY <1>4 DEF Inv, StoresOK, stores
  <1> QED  BY <1>3, <1>5 DEF Inv

-----------------------------------------------------------------------------
(* The stores. *)

\* The request only learns that it is no longer alone.
LEMMA WriteKeeps == ASSUME Inv, Write PROVE RequestOK(req')
  BY ListsFree DEF Inv, Write, Fields, Idle

LEMMA UpsertPointKeeps ==
    ASSUME Inv, NEW c \in Chunk, NEW g \in Generation, UpsertPoint(c, g) PROVE Inv'
  BY WriteKeeps DEF Inv, StoresOK, UpsertPoint

LEMMA DeletePointsKeeps ==
    ASSUME Inv, NEW v, NEW g, DeletePoints(v, g) PROVE Inv'
  BY WriteKeeps DEF Inv, StoresOK, DeletePoints

\* No node is ever deleted: the endpoints of an edge stay.
LEMMA UpsertEntityKeeps ==
    ASSUME Inv, NEW n \in Entity, UpsertEntity(n) PROVE Inv'
  BY WriteKeeps DEF Inv, StoresOK, UpsertEntity

\* MERGE replaces the one edge that has the id.
LEMMA UpsertRelationshipKeeps ==
    ASSUME Inv, NEW f \in Facts, UpsertRelationship(f) PROVE Inv'
  <1>1. RequestOK(req') /\ {f.source, f.target} \subseteq nodes /\ UNCHANGED <<point, nodes>>
        /\ edges' = {e \in edges : RelationshipId(e) # RelationshipId(f)} \cup {f}
    BY WriteKeeps DEF UpsertRelationship
  <1>2. edges' \subseteq Facts
    BY <1>1 DEF Inv, StoresOK
  <1>3. \A e \in edges' : {e.source, e.target} \subseteq nodes'
    BY <1>1 DEF Inv, StoresOK
  <1>4. \A e, d \in edges' : RelationshipId(e) = RelationshipId(d) => e = d
    BY <1>1 DEF Inv, StoresOK
  <1> QED  BY <1>1, <1>2, <1>3, <1>4 DEF Inv, StoresOK

LEMMA DeleteRelationshipsKeeps ==
    ASSUME Inv, NEW v, NEW g, DeleteRelationships(v, g) PROVE Inv'
  BY WriteKeeps DEF Inv, StoresOK, DeleteRelationships

\* Every step keeps the invariant.
LEMMA NextKeeps == ASSUME Inv, [Next]_vars PROVE Inv'
  <1>1. CASE Retrieve
    BY <1>1, RetrieveKeeps
  <1>2. CASE Index
    BY <1>2, UpsertPointKeeps, DeletePointsKeeps, UpsertEntityKeeps, UpsertRelationshipKeeps,
       DeleteRelationshipsKeeps DEF Index
  <1>3. CASE UNCHANGED vars
    BY <1>3 DEF vars, Inv, StoresOK
  <1> QED  BY <1>1, <1>2, <1>3 DEF Next

-----------------------------------------------------------------------------
(* What a request has gathered.  The operators take the request and the contents *)
(* of a store, to speak of both states of a step.                                *)

PcBefore == {"idle", "vector", "resolve", "find", "query"}

\* What a retrieval knows of the request it answers.
CallOK(q) ==
    /\ q.pc = "idle" => q = Idle
    /\ q.pc # "idle" => q.call \in Call
    /\ q.pc \notin {"idle", "failed"} => ~Refused(q.call)
    /\ q.pc \in {"resolve", "find", "query", "incoming", "bridge"} => Graphs(q.call)
    /\ q.pc \in {"find", "query", "incoming"} => Default(q.call.limit, DefaultLimit) \in 1..MaxLimit
    /\ q.pc \in {"query", "incoming", "bridge"} => q.start \in Entity
    /\ q.pc \in PcBefore => q.paths = <<>> /\ q.todo = <<>> /\ q.graph = <<>> /\ q.support = <<>>
    /\ q.pc \in {"idle", "vector"} => q.vector = <<>>
    /\ q.graph # <<>> => q.call.op \in Operation
    /\ q.error # "identity_mismatch"

\* A text of a list, as the vector store had or has it.
IsText(text, scored) ==
    \E c \in Chunk, g \in Generation :
      text = [kind |-> "text", id |-> <<"text", c, g>>, chunk |-> c, scored |-> scored]

Current(text, points) == text.id = <<"text", text.chunk, points[text.chunk]>>

AreTexts(list, scored) ==
    list \in Seq(Range(list)) /\ \A i \in DOMAIN list : IsText(list[i], scored)

TextsOK(q, points) ==
    /\ AreTexts(q.vector, TRUE) /\ AreTexts(q.support, FALSE)
    /\ Len(q.vector) <= VectorMaxTopK
    /\ \A i, j \in DOMAIN q.vector : q.vector[i].chunk = q.vector[j].chunk => i = j
    /\ q.quiet => /\ \A i \in DOMAIN q.vector : Current(q.vector[i], points)
                  /\ \A i \in DOMAIN q.support : Current(q.support[i], points)

\* Evidence of a path over some of the relationships; its supports are the bridge's.
IsEvidence(item, E, op, n) ==
    /\ item.path \in Walks(E, n)
    /\ item.kind = PathEvidence(op, item.path).kind
    /\ item.id = PathEvidence(op, item.path).id
    /\ item.chunks = SourceChunks(item.path)
    /\ \A k \in DOMAIN item.supports : \E c \in Range(item.chunks), g \in Generation :
         item.supports[k] = <<"text", c, g>>

AreEvidence(list, E, op, n) ==
    list \in Seq(Range(list)) /\ \A i \in DOMAIN list : IsEvidence(list[i], E, op, n)

GraphOK(q, E) ==
    /\ q.paths \in Seq(Walks(E, q.start)) /\ Len(q.paths) <= MaxLimit
    /\ AreEvidence(q.todo, E, q.call.op, q.start)
    /\ \A i \in DOMAIN q.todo : q.todo[i] = PathEvidence(q.call.op, q.todo[i].path)
    /\ AreEvidence(q.graph, E, q.call.op, q.start)
    /\ Len(q.todo) + Len(q.graph) <= MaxLimit

StoredIn(points) == {c \in Chunk : points[c] # None}

\* What the bridge has said of an item, were these the points it found.
Told(item, support, points) ==
    LET wanted == Limited(item.chunks, MaxSupportingChunks)
        stored == Picked(wanted, StoredIn(points))
    IN  /\ item.supports = [i \in DOMAIN stored |-> <<"text", stored[i], points[stored[i]]>>]
        /\ wanted # <<>> => (item.complete <=> stored = wanted)
        /\ Range(item.supports) \subseteq Ids(support)

BridgeOK(q, points) ==
    \A j \in DOMAIN q.graph :
      q.call.endpoint = "retrieve" /\ q.quiet => Told(q.graph[j], q.support, points)

AnswerOK(q) ==
    q.pc = "done" /\ q.call.endpoint = "retrieve"
      => q.answer = Fuse(q.vector, q.graph, q.support, TopK(q.call))

Gathered(q, points, E) ==
    /\ CallOK(q) /\ TextsOK(q, points) /\ BridgeOK(q, points) /\ AnswerOK(q)
    /\ GraphOK(q, Facts) /\ (q.quiet => GraphOK(q, E))

FullInv == Inv /\ IsFiniteSet(edges) /\ Gathered(req, point, edges)

-----------------------------------------------------------------------------
(* What the lists follow from. *)

\* A call names what it needs, and is not refused.
LEMMA CallTyped ==
    ASSUME NEW c \in Call
    PROVE  /\ TopK(c) \in Nat
           /\ ~Refused(c) /\ Graphs(c) => c.op \in Operation
           /\ ~Vectors(c) => Graphs(c)
           /\ c.endpoint \in {"vector", "graph", "retrieve"}
  <1>1. /\ c.endpoint \in {"vector", "graph", "retrieve"} /\ c.strategy \in Strategy
        /\ c.top \in Nat \cup {None} /\ c.op \in Operation \cup {None}
        /\ c.endpoint = "graph" => c.op \in Operation
    BY CallAssumption
  <1>2. TopK(c) \in Nat
    BY <1>1, BoundsAssumption DEF TopK, Default
  <1>3. ~Refused(c) /\ Graphs(c) => c.op \in Operation
    BY <1>1 DEF Refused, Graphs
  <1>4. ~Vectors(c) => Graphs(c)
    BY <1>1 DEF Vectors, Graphs, Strategy
  <1> QED  BY <1>1, <1>2, <1>3, <1>4

\* The ids of evidence are numbers to compare.
LEMMA DigestTyped ==
    ASSUME NEW op \in Operation, NEW n, NEW p, Walk(Facts, n, p)
    PROVE  PathDigest(PathEvidence(op, p).id) \in Nat /\ Digest(PathEvidence(op, p).id) \in Nat
  <1>1. CASE \E e \in Facts : \E b \in Ends(e) : {n, b} = Ends(e) /\ p = Path(<<n, b>>, <<e>>)
    <2>7. PICK e \in Facts : \E b \in Ends(e) : {n, b} = Ends(e) /\ p = Path(<<n, b>>, <<e>>)
      BY <1>1
    <2>1. PICK b \in Ends(e) : {n, b} = Ends(e) /\ p = Path(<<n, b>>, <<e>>)
      BY <2>7
    <2>2. n \in {e.source, e.target} /\ b \in {e.source, e.target}
      BY <2>1 DEF Ends
    <2>3. e.source \in {e.source, e.target}
      OBVIOUS
    <2> DEFINE one == <<op, <<n, b>>, <<RelationshipId(e)>>>>
    <2>4. PathDigest(one) \in Nat /\ Digest(one) \in Nat
      BY <2>2, <2>3, DigestAssumption
    <2>5. p.nodes = <<n, b>> /\ p.edges = <<e>>
      BY <2>1 DEF Path
    <2>6. PathEvidence(op, p).id = one
      BY <2>5 DEF PathEvidence
    <2> QED  BY <2>4, <2>6
  <1>2. CASE \E e, f \in Facts : \E b \in Ends(e), c \in Ends(f) :
               {n, b} = Ends(e) /\ {b, c} = Ends(f) /\ p = Path(<<n, b, c>>, <<e, f>>)
    <2>6. PICK e \in Facts, f \in Facts : \E b \in Ends(e), c \in Ends(f) :
                 {n, b} = Ends(e) /\ {b, c} = Ends(f) /\ p = Path(<<n, b, c>>, <<e, f>>)
      BY <1>2
    <2>1. PICK b \in Ends(e), c \in Ends(f) :
                 {n, b} = Ends(e) /\ {b, c} = Ends(f) /\ p = Path(<<n, b, c>>, <<e, f>>)
      BY <2>6
    <2>2. n \in {e.source, e.target} /\ b \in {e.source, e.target} /\ c \in {f.source, f.target}
      BY <2>1 DEF Ends
    <2> DEFINE two == <<op, <<n, b, c>>, <<RelationshipId(e), RelationshipId(f)>>>>
    <2>3. PathDigest(two) \in Nat /\ Digest(two) \in Nat
      BY <2>2, DigestAssumption
    <2>4. p.nodes = <<n, b, c>> /\ p.edges = <<e, f>>
      BY <2>1 DEF Path
    <2>5. PathEvidence(op, p).id = two
      BY <2>4 DEF PathEvidence
    <2> QED  BY <2>3, <2>5
  <1> QED  BY <1>1, <1>2 DEF Walk

\* A path over relationships is one over more of them.
LEMMA WalksGrow ==
    ASSUME NEW E, NEW F, E \subseteq F, NEW n
    PROVE  Walks(E, n) \subseteq Walks(F, n)
  <1> SUFFICES ASSUME NEW p \in Walks(E, n) PROVE p \in Walks(F, n)
    OBVIOUS
  <1>1. p \in [nodes : Seq(Entity), edges : Seq(E)] /\ Walk(E, n, p)
    BY DEF Walks
  <1>2. p \in [nodes : Seq(Entity), edges : Seq(F)]
    BY <1>1
  <1>3. Walk(F, n, p)
    <2>1. CASE \E e \in E : \E b \in Ends(e) : {n, b} = Ends(e) /\ p = Path(<<n, b>>, <<e>>)
      BY <2>1 DEF Walk
    <2>2. CASE \E e, f \in E : \E b \in Ends(e), c \in Ends(f) :
                 {n, b} = Ends(e) /\ {b, c} = Ends(f) /\ p = Path(<<n, b, c>>, <<e, f>>)
      <3>1. PICK e \in E, f \in E : \E b \in Ends(e), c \in Ends(f) :
                   {n, b} = Ends(e) /\ {b, c} = Ends(f) /\ p = Path(<<n, b, c>>, <<e, f>>)
        BY <2>2
      <3>2. e \in F /\ f \in F
        OBVIOUS
      <3> QED  BY <3>1, <3>2 DEF Walk
    <2> QED  BY <1>1, <2>1, <2>2 DEF Walk
  <1> QED  BY <1>2, <1>3 DEF Walks

\* What _execute_operation makes of the paths of a query.
LEMMA EvidenceFound ==
    ASSUME NEW E \in SUBSET Facts, NEW n \in Entity, NEW op \in Operation,
           NEW paths \in Seq(Walks(E, n)), Len(paths) <= MaxLimit
    PROVE  /\ AreEvidence(GraphEvidence(op, paths), E, op, n)
           /\ \A i \in DOMAIN GraphEvidence(op, paths) :
                GraphEvidence(op, paths)[i] = PathEvidence(op, GraphEvidence(op, paths)[i].path)
           /\ Len(GraphEvidence(op, paths)) <= MaxLimit
  <1> DEFINE items == EvidenceOf(E, n, op)
             list == GraphEvidence(op, paths)
  <1>1. Digested(E, n, op)
    <2> SUFFICES ASSUME NEW p \in Walks(E, n) PROVE PathDigest(PathEvidence(op, p).id) \in Int
      BY DEF Digested
    <2>1. p \in Walks(Facts, n)
      BY WalksGrow
    <2>2. Walk(Facts, n, p)
      BY <2>1 DEF Walks
    <2>3. PathDigest(PathEvidence(op, p).id) \in Nat
      BY <2>2, DigestTyped
    <2> QED  BY <2>3
  <1>2. E \in SUBSET Edge
    BY FactsAssumption
  <1>3. list \in Seq(items) /\ Len(list) = Len(paths)
    BY <1>1, <1>2, EvidenceList
  <1> HIDE DEF items, list
  <1>4. list \in Seq(Range(list)) /\ \A i \in DOMAIN list : list[i] \in items
    BY <1>3 DEF Range
  <1>5. ASSUME NEW x \in items PROVE IsEvidence(x, E, op, n) /\ x = PathEvidence(op, x.path)
    <2>1. PICK p \in Walks(E, n) : x = PathEvidence(op, p)
      BY DEF items, EvidenceOf
    <2>2. x.path = p /\ x.chunks = SourceChunks(p) /\ x.supports = <<>>
      BY <2>1 DEF PathEvidence
    <2> QED  BY <2>1, <2>2 DEF IsEvidence
  <1>6. AreEvidence(list, E, op, n) /\ \A i \in DOMAIN list : list[i] = PathEvidence(op, list[i].path)
    BY <1>4, <1>5 DEF AreEvidence
  <1> QED  BY <1>3, <1>6 DEF list

-----------------------------------------------------------------------------
(* The steps, field by field. *)

\* What a step leaves alone.
Kept(changed) == \A f \in Fields \ changed : req'[f] = req[f]

\* What each action changes of the retrieval: one lemma for each.
LEMMA FailStep ==
    ASSUME RequestOK(req), NEW error, Fail(error)
    PROVE  req'.pc = "failed" /\ req'.error = error /\ Kept({"pc", "error"})
  BY DEF RequestOK, Fail, Kept, Fields, Idle

LEMMA BeginStep ==
    ASSUME RequestOK(req), Begin
    PROVE  /\ req.pc = "idle" /\ Kept({"call", "pc", "error"})
           /\ \E c \in Call :
                /\ req'.call = c
                /\ \/ Refused(c) /\ req'.pc = "failed" /\ req'.error = "invalid"
                   \/ ~Refused(c) /\ Vectors(c) /\ req'.pc = "vector" /\ req'.error = None
                   \/ ~Refused(c) /\ ~Vectors(c) /\ req'.pc = "resolve" /\ req'.error = None
  <1>1. PICK c \in Call :
          req' = [req EXCEPT !.call = c,
                             !.pc = CASE Refused(c) -> "failed"
                                      [] Vectors(c) /\ ~Refused(c) -> "vector"
                                      [] OTHER -> "resolve",
                             !.error = IF Refused(c) THEN "invalid" ELSE None]
    BY DEF Begin
  <1> DEFINE pc == CASE Refused(c) -> "failed"
                     [] Vectors(c) /\ ~Refused(c) -> "vector"
                     [] OTHER -> "resolve"
             error == IF Refused(c) THEN "invalid" ELSE None
  <1>2. \/ Refused(c) /\ pc = "failed" /\ error = "invalid"
        \/ ~Refused(c) /\ Vectors(c) /\ pc = "vector" /\ error = None
        \/ ~Refused(c) /\ ~Vectors(c) /\ pc = "resolve" /\ error = None
    <2>1. CASE Refused(c)
      BY <2>1
    <2>2. CASE ~Refused(c) /\ Vectors(c)
      BY <2>2
    <2>3. CASE ~Refused(c) /\ ~Vectors(c)
      BY <2>3
    <2> QED  BY <2>1, <2>2, <2>3
  <1>3. req' = [req EXCEPT !.call = c, !.pc = pc, !.error = error]
    BY <1>1
  <1> HIDE DEF pc, error
  <1>4. req'.call = c /\ req'.pc = pc /\ req'.error = error /\ Kept({"call", "pc", "error"})
    BY <1>3 DEF RequestOK, Kept, Fields, Idle
  <1>5. req.pc = "idle"
    BY DEF Begin
  <1> QED  BY <1>2, <1>4, <1>5

TextsOf(chunks, scored) == [i \in DOMAIN chunks |-> Text(chunks[i], scored)]

LEMMA SearchVectorsStep ==
    ASSUME RequestOK(req), SearchVectors
    PROVE  /\ req.pc = "vector"
           /\ \/ Fail("invalid")
              \/ /\ Kept({"vector", "pc"})
                 /\ \E topK \in 1..VectorMaxTopK : \E hits \in Hits(req.call.filter, topK) :
                      req'.vector = TextsOf(hits, TRUE)
                 /\ \/ req.call.endpoint = "vector" /\ req'.pc = "done"
                    \/ Graphs(req.call) /\ req'.pc = "resolve"
                    \/ req'.pc = "fuse"
  <1>1. req.pc = "vector"
    BY DEF SearchVectors
  <1>2. SUFFICES ASSUME ~Fail("invalid")
                 PROVE  /\ Kept({"vector", "pc"})
                        /\ \E topK \in 1..VectorMaxTopK : \E hits \in Hits(req.call.filter, topK) :
                             req'.vector = TextsOf(hits, TRUE)
                        /\ \/ req.call.endpoint = "vector" /\ req'.pc = "done"
                           \/ Graphs(req.call) /\ req'.pc = "resolve"
                           \/ req'.pc = "fuse"
    BY <1>1
  <1> DEFINE pc == CASE req.call.endpoint = "vector" -> "done"
                     [] Graphs(req.call) -> "resolve"
                     [] OTHER -> "fuse"
  <1>3. PICK topK \in 1..VectorMaxTopK : \E hits \in Hits(req.call.filter, topK) :
           req' = [req EXCEPT !.vector = TextsOf(hits, TRUE), !.pc = pc]
    BY <1>2 DEF SearchVectors, TextsOf
  <1>4. PICK hits \in Hits(req.call.filter, topK) :
           req' = [req EXCEPT !.vector = TextsOf(hits, TRUE), !.pc = pc]
    BY <1>3
  <1>5. \/ req.call.endpoint = "vector" /\ pc = "done"
        \/ Graphs(req.call) /\ pc = "resolve"
        \/ pc = "fuse"
    <2>1. CASE req.call.endpoint = "vector"
      BY <2>1 DEF Graphs
    <2>2. CASE req.call.endpoint # "vector" /\ Graphs(req.call)
      BY <2>2
    <2>3. CASE req.call.endpoint # "vector" /\ ~Graphs(req.call)
      BY <2>3
    <2> QED  BY <2>1, <2>2, <2>3
  <1> DEFINE vector == TextsOf(hits, TRUE)
  <1>6. req' = [req EXCEPT !.vector = vector, !.pc = pc]
    BY <1>4
  <1> HIDE DEF pc, vector
  <1>7. req'.vector = vector /\ req'.pc = pc /\ Kept({"vector", "pc"})
    BY <1>6 DEF RequestOK, Kept, Fields, Idle
  <1> QED  BY <1>5, <1>7 DEF vector

LEMMA StartStep ==
    ASSUME RequestOK(req), NEW n, req' = [req EXCEPT !.start = n, !.pc = "query"]
    PROVE  req'.start = n /\ req'.pc = "query" /\ Kept({"start", "pc"})
  BY DEF RequestOK, Kept, Fields, Idle

LEMMA GotoStep ==
    ASSUME RequestOK(req), NEW pc, Goto(pc)
    PROVE  req'.pc = pc /\ Kept({"pc"})
  BY DEF RequestOK, Goto, Kept, Fields, Idle

LEMMA FoundStep ==
    ASSUME RequestOK(req), NEW paths, Found(paths)
    PROVE  /\ Kept({"paths", "todo", "graph", "pc"}) /\ req'.paths = paths
           /\ \/ /\ req.call.endpoint = "graph" /\ req'.pc = "done"
                 /\ req'.todo = <<>> /\ req'.graph = GraphEvidence(req.call.op, paths)
              \/ /\ req.call.endpoint # "graph" /\ req'.pc = "bridge"
                 /\ req'.todo = GraphEvidence(req.call.op, paths) /\ req'.graph = <<>>
  <1> DEFINE evidence == GraphEvidence(req.call.op, paths)
             todo == IF req.call.endpoint = "graph" THEN <<>> ELSE evidence
             graph == IF req.call.endpoint = "graph" THEN evidence ELSE <<>>
             pc == IF req.call.endpoint = "graph" THEN "done" ELSE "bridge"
  <1>1. req' = [req EXCEPT !.paths = paths, !.todo = todo, !.graph = graph, !.pc = pc]
    BY DEF Found
  <1> HIDE DEF todo, graph, pc
  <1>2. /\ req'.paths = paths /\ req'.todo = todo /\ req'.graph = graph /\ req'.pc = pc
        /\ Kept({"paths", "todo", "graph", "pc"})
    BY <1>1 DEF RequestOK, Kept, Fields, Idle
  <1>3. CASE req.call.endpoint = "graph"
    BY <1>2, <1>3 DEF todo, graph, pc
  <1>4. CASE req.call.endpoint # "graph"
    BY <1>2, <1>4 DEF todo, graph, pc
  <1> QED  BY <1>3, <1>4

LEMMA QueryStep ==
    ASSUME RequestOK(req), NEW paths, req' = [req EXCEPT !.paths = paths, !.pc = "incoming"]
    PROVE  req'.paths = paths /\ req'.pc = "incoming" /\ Kept({"paths", "pc"})
  BY DEF RequestOK, Kept, Fields, Idle

LEMMA BridgeStep ==
    ASSUME RequestOK(req), NEW todo, NEW graph, NEW support,
           req' = [req EXCEPT !.todo = todo, !.graph = graph, !.support = support]
    PROVE  /\ req'.todo = todo /\ req'.graph = graph /\ req'.support = support
           /\ Kept({"todo", "graph", "support"})
  BY DEF RequestOK, Kept, Fields, Idle

LEMMA FuseStep ==
    ASSUME RequestOK(req), FuseBranches
    PROVE  /\ req'.answer = Fuse(req.vector, req.graph, req.support, TopK(req.call))
           /\ req'.pc = "done" /\ Kept({"answer", "pc"})
  <1> DEFINE answer == Fuse(req.vector, req.graph, req.support, TopK(req.call))
  <1>1. req' = [req EXCEPT !.answer = answer, !.pc = "done"]
    BY DEF FuseBranches
  <1> HIDE DEF answer
  <1>2. req'.answer = answer /\ req'.pc = "done" /\ Kept({"answer", "pc"})
    BY <1>1 DEF RequestOK, Kept, Fields, Idle
  <1> QED  BY <1>2 DEF answer

-----------------------------------------------------------------------------
(* What a step does not touch stays as it was. *)

\* What is known of the texts holds on while they stay as they are.
LEMMA TextsStay ==
    ASSUME NEW q, NEW r, NEW points, TextsOK(q, points),
           r.vector = q.vector, r.support = q.support, r.quiet = q.quiet
    PROVE  TextsOK(r, points)
  BY DEF TextsOK

\* So it does of the paths and the graph evidence.
LEMMA GraphStays ==
    ASSUME NEW q, NEW r, NEW E, GraphOK(q, E), r.paths = q.paths, r.todo = q.todo,
           r.graph = q.graph, r.call = q.call, r.start = q.start
    PROVE  GraphOK(r, E)
  BY DEF GraphOK

\* So it does of the bridged items.
LEMMA BridgeStays ==
    ASSUME NEW q, NEW r, NEW points, BridgeOK(q, points), r.graph = q.graph,
           r.support = q.support, r.call = q.call, r.quiet = q.quiet
    PROVE  BridgeOK(r, points)
  BY DEF BridgeOK

\* Empty lists are of any kind.
LEMMA NothingYet ==
    ASSUME NEW r, r.paths = <<>>, r.todo = <<>>, r.graph = <<>>, r.support = <<>>
    PROVE  /\ \A E : GraphOK(r, E)
           /\ \A points : BridgeOK(r, points)
           /\ AreTexts(r.support, FALSE)
  <1>1. \A T : <<>> \in Seq(T)
    OBVIOUS
  <1>2. Len(<<>>) = 0 /\ DOMAIN <<>> = {}
    OBVIOUS
  <1>3. MaxLimit \in Nat
    BY BoundsAssumption
  <1>4. \A E, op, n : AreEvidence(<<>>, E, op, n)
    BY <1>1, <1>2 DEF AreEvidence
  <1>5. \A E : GraphOK(r, E)
    BY <1>1, <1>2, <1>3, <1>4 DEF GraphOK
  <1>6. \A points : BridgeOK(r, points)
    BY <1>2 DEF BridgeOK
  <1>7. AreTexts(r.support, FALSE)
    BY <1>1, <1>2 DEF AreTexts
  <1> QED  BY <1>5, <1>6, <1>7

\* Nothing is known of texts that are not read.
LEMMA NoTextsYet ==
    ASSUME NEW r, NEW points, r.vector = <<>>, r.support = <<>>
    PROVE  TextsOK(r, points)
  <1>1. \A T : <<>> \in Seq(T)
    OBVIOUS
  <1>2. Len(<<>>) = 0 /\ DOMAIN <<>> = {}
    OBVIOUS
  <1>3. VectorMaxTopK \in Nat
    BY BoundsAssumption
  <1>4. \A scored : AreTexts(<<>>, scored)
    BY <1>1, <1>2 DEF AreTexts
  <1>5. r.vector \in Seq(Range(r.vector)) /\ Len(r.vector) <= VectorMaxTopK
    BY <1>1, <1>2, <1>3
  <1>6. DOMAIN r.vector = {} /\ DOMAIN r.support = {}
    BY <1>2
  <1> QED  BY <1>4, <1>5, <1>6 DEF TextsOK

\* Nothing is gathered when no retrieval runs.
LEMMA IdleGathered ==
    ASSUME NEW points, NEW E
    PROVE  Gathered(Idle, points, E)
  <1>1. /\ Idle.paths = <<>> /\ Idle.todo = <<>> /\ Idle.graph = <<>> /\ Idle.support = <<>>
        /\ Idle.vector = <<>> /\ Idle.pc = "idle"
    BY DEF Idle
  <1>2. Idle.error # "identity_mismatch"
    BY ErrorAssumption DEF Idle, Error
  <1>3. CallOK(Idle)
    BY <1>1, <1>2 DEF CallOK
  <1>4. AnswerOK(Idle)
    BY <1>1 DEF AnswerOK
  <1> QED  BY <1>1, <1>3, <1>4, NothingYet, NoTextsYet DEF Gathered

\* A step that only moves on with what there is.
LEMMA MovesOn ==
    ASSUME Inv, Gathered(req, point, edges), Kept({"pc", "error", "answer"}), CallOK(req'), AnswerOK(req')
    PROVE  Gathered(req', point, edges)
  <1>1. /\ req'.vector = req.vector /\ req'.support = req.support /\ req'.quiet = req.quiet
        /\ req'.paths = req.paths /\ req'.todo = req.todo /\ req'.graph = req.graph
        /\ req'.call = req.call /\ req'.start = req.start
    BY DEF Kept, Fields, Idle
  <1>2. TextsOK(req', point)
    BY <1>1, TextsStay DEF Gathered
  <1>3. GraphOK(req', Facts) /\ (req'.quiet => GraphOK(req', edges))
    BY <1>1, GraphStays DEF Gathered
  <1>4. BridgeOK(req', point)
    BY <1>1, BridgeStays DEF Gathered
  <1> QED  BY <1>2, <1>3, <1>4 DEF Gathered

\* Each action keeps what Gathered says: one lemma for each.
LEMMA FailGathers ==
    ASSUME Inv, Gathered(req, point, edges), req.pc # "idle",
           NEW error \in Error \ {"identity_mismatch"}, Fail(error)
    PROVE  Gathered(req', point, edges)
  <1>1. req'.pc = "failed" /\ req'.error = error /\ Kept({"pc", "error"})
    BY FailStep DEF Inv
  <1>2. Kept({"pc", "error", "answer"}) /\ req'.call = req.call /\ req'.graph = req.graph
    BY <1>1 DEF Kept, Fields, Idle
  <1>3. CallOK(req')
    BY <1>1, <1>2 DEF CallOK, Gathered, PcBefore
  <1>4. AnswerOK(req')
    BY <1>1 DEF AnswerOK
  <1> QED  BY <1>2, <1>3, <1>4, MovesOn

-----------------------------------------------------------------------------
(* The request and the vector branch. *)

LEMMA BeginGathers ==
    ASSUME Inv, Gathered(req, point, edges), Begin
    PROVE  Gathered(req', point, edges)
  <1>1. req.pc = "idle" /\ Kept({"call", "pc", "error"})
    BY BeginStep DEF Inv
  <1>2. PICK c \in Call :
          /\ req'.call = c
          /\ \/ Refused(c) /\ req'.pc = "failed" /\ req'.error = "invalid"
             \/ ~Refused(c) /\ Vectors(c) /\ req'.pc = "vector" /\ req'.error = None
             \/ ~Refused(c) /\ ~Vectors(c) /\ req'.pc = "resolve" /\ req'.error = None
    BY BeginStep DEF Inv
  <1>3. req = Idle
    BY <1>1 DEF Gathered, CallOK
  <1>4. /\ req'.paths = <<>> /\ req'.todo = <<>> /\ req'.graph = <<>> /\ req'.support = <<>>
        /\ req'.vector = <<>>
    BY <1>1, <1>3 DEF Kept, Fields, Idle
  <1>5. ~Vectors(c) => Graphs(c)
    BY CallTyped
  <1>6. CallOK(req')
    BY <1>2, <1>4, <1>5, ErrorAssumption DEF CallOK, PcBefore, Error
  <1>7. AnswerOK(req')
    BY <1>2 DEF AnswerOK
  <1>8. TextsOK(req', point)
    BY <1>4, NoTextsYet
  <1> QED  BY <1>4, <1>6, <1>7, <1>8, NothingYet DEF Gathered

\* A function over the first numbers is a list of its values.
LEMMA ListOfItsRange ==
    ASSUME NEW n \in Nat, NEW list, list = [i \in 1..n |-> list[i]]
    PROVE  list \in Seq(Range(list)) /\ Len(list) = n /\ DOMAIN list = 1..n
  <1>1. DOMAIN list = 1..n
    OBVIOUS
  <1>2. \A i \in 1..n : list[i] \in Range(list)
    BY <1>1 DEF Range
  <1> QED  BY <1>1, <1>2

\* A hit is a text, no chunk is hit twice, and the hits are as many as asked for.
LEMMA HitsTyped ==
    ASSUME StoresOK, NEW filter, NEW topK \in 1..VectorMaxTopK, NEW hits \in Hits(filter, topK),
           NEW list, list = TextsOf(hits, TRUE)
    PROVE  /\ AreTexts(list, TRUE) /\ Len(list) <= VectorMaxTopK
           /\ \A i, j \in DOMAIN list : list[i].chunk = list[j].chunk => i = j
           /\ \A i \in DOMAIN list : Current(list[i], point)
  <1> DEFINE S == Stored \cap Default(filter, Chunk)  n == Cardinality(S)
  <1>1. PICK order \in SetToSeqs(S) : hits = Limited(order, topK)
    BY DEF Hits
  <1>2. S \in SUBSET Chunk /\ IsFiniteSet(S)
    <2>1. S \in SUBSET Chunk /\ IsFiniteSet(Chunk)
      BY VersionOfAssumption DEF Stored
    <2> HIDE DEF S
    <2> QED  BY <2>1, FS_Subset
  <1>3. \A c \in S : point[c] \in Generation
    BY DEF Stored, StoresOK
  <1> HIDE DEF S
  <1>4. n \in Nat
    BY <1>2, FS_CardinalityType
  <1>5. order \in [1..n -> S] /\ \A i, j \in 1..n : i # j => order[i] # order[j]
    BY <1>1 DEF SetToSeqs
  <1> HIDE DEF n
  <1>6. order \in Seq(S) /\ Len(order) = n
    BY <1>4, <1>5
  <1>7. topK \in Nat /\ VectorMaxTopK \in Nat
    BY BoundsAssumption
  <1>8. /\ hits \in Seq(S)
        /\ Len(hits) = IF Len(order) < topK THEN Len(order) ELSE topK
        /\ \A i \in 1..Len(hits) : i \in 1..Len(order) /\ hits[i] = order[i]
    BY <1>1, <1>6, <1>7, LimitedList
  <1>9. DOMAIN hits = 1..Len(hits) /\ Len(hits) \in Nat /\ Len(hits) <= VectorMaxTopK
    <2>1. DOMAIN hits = 1..Len(hits) /\ Len(hits) \in Nat
      BY <1>8, LenProperties
    <2>2. Len(hits) <= topK
      BY <1>4, <1>6, <1>7, <1>8
    <2> QED  BY <1>7, <2>1, <2>2
  <1>10. \A i \in 1..Len(hits) : hits[i] \in S
    BY <1>8, <1>9
  <1>11. DOMAIN list = 1..Len(hits) /\ \A i \in 1..Len(hits) : list[i] = Text(hits[i], TRUE)
    BY <1>9 DEF TextsOf
  <1>12. \A i \in DOMAIN list : /\ IsText(list[i], TRUE) /\ Current(list[i], point)
                                /\ list[i].chunk = hits[i]
    <2> SUFFICES ASSUME NEW i \in DOMAIN list
                 PROVE  /\ IsText(list[i], TRUE) /\ Current(list[i], point)
                        /\ list[i].chunk = hits[i]
      OBVIOUS
    <2>1. hits[i] \in Chunk /\ point[hits[i]] \in Generation
      BY <1>2, <1>3, <1>10, <1>11
    <2>2. list[i] = [kind |-> "text", id |-> <<"text", hits[i], point[hits[i]]>>, chunk |-> hits[i],
                     scored |-> TRUE]
      BY <1>11 DEF Text
    <2>3. IsText(list[i], TRUE)
      BY <2>1, <2>2 DEF IsText
    <2>4. list[i].chunk = hits[i] /\ list[i].id = <<"text", hits[i], point[hits[i]]>>
      <3> DEFINE text == list[i]  c == hits[i]  id == <<"text", hits[i], point[hits[i]]>>
      <3>1. text = [kind |-> "text", id |-> id, chunk |-> c, scored |-> TRUE]
        BY <2>2
      <3> HIDE DEF text, c, id
      <3>2. text.chunk = c /\ text.id = id
        BY <3>1
      <3> QED  BY <3>2 DEF text, c, id
    <2> QED  BY <2>3, <2>4 DEF Current
  <1>13. list \in Seq(Range(list)) /\ Len(list) = Len(hits)
    <2>1. list = [i \in 1..Len(hits) |-> list[i]]
      BY <1>9, <1>11 DEF TextsOf
    <2> QED  BY <1>9, <2>1, ListOfItsRange
  <1>14. \A i, j \in DOMAIN list : list[i].chunk = list[j].chunk => i = j
    <2> SUFFICES ASSUME NEW i \in DOMAIN list, NEW j \in DOMAIN list, list[i].chunk = list[j].chunk
                 PROVE  i = j
      OBVIOUS
    <2>1. hits[i] = hits[j]
      BY <1>12
    <2>2. i \in 1..n /\ j \in 1..n /\ order[i] = order[j]
      BY <1>6, <1>8, <1>11, <2>1
    <2> QED  BY <1>5, <2>2
  <1> QED  BY <1>9, <1>12, <1>13, <1>14 DEF AreTexts

LEMMA SearchVectorsGathers ==
    ASSUME Inv, Gathered(req, point, edges), SearchVectors
    PROVE  Gathered(req', point, edges)
  <1>1. req.pc = "vector"
    BY SearchVectorsStep DEF Inv
  <1>2. CASE Fail("invalid")
    BY <1>1, <1>2, FailGathers DEF Error
  <1>3. CASE ~Fail("invalid")
    <2>1. /\ Kept({"vector", "pc"})
          /\ \/ req.call.endpoint = "vector" /\ req'.pc = "done"
             \/ Graphs(req.call) /\ req'.pc = "resolve"
             \/ req'.pc = "fuse"
      BY <1>3, SearchVectorsStep DEF Inv
    <2>2. PICK topK \in 1..VectorMaxTopK : \E hits \in Hits(req.call.filter, topK) :
            req'.vector = TextsOf(hits, TRUE)
      BY <1>3, SearchVectorsStep DEF Inv
    <2>3. PICK hits \in Hits(req.call.filter, topK) :
            req'.vector = TextsOf(hits, TRUE)
      BY <2>2
    <2>4. /\ req'.paths = req.paths /\ req'.todo = req.todo /\ req'.graph = req.graph
          /\ req'.support = req.support /\ req'.call = req.call /\ req'.start = req.start
          /\ req'.quiet = req.quiet /\ req'.error = req.error
      BY <2>1 DEF Kept, Fields, Idle
    <2>5. req.paths = <<>> /\ req.todo = <<>> /\ req.graph = <<>> /\ req.support = <<>>
      BY <1>1 DEF Gathered, CallOK, PcBefore
    <2>6. /\ AreTexts(req'.vector, TRUE) /\ Len(req'.vector) <= VectorMaxTopK
          /\ \A i, j \in DOMAIN req'.vector : req'.vector[i].chunk = req'.vector[j].chunk => i = j
          /\ \A i \in DOMAIN req'.vector : Current(req'.vector[i], point)
      <3> DEFINE list == TextsOf(hits, TRUE)
      <3>1. /\ AreTexts(list, TRUE) /\ Len(list) <= VectorMaxTopK
            /\ \A i, j \in DOMAIN list : list[i].chunk = list[j].chunk => i = j
            /\ \A i \in DOMAIN list : Current(list[i], point)
        <4>1. StoresOK
          BY DEF Inv
        <4> QED  BY <4>1, HitsTyped
      <3>2. req'.vector = list
        BY <2>3
      <3> HIDE DEF list
      <3> QED  BY <3>1, <3>2
    <2>7. TextsOK(req', point)
      <3>1. AreTexts(req'.support, FALSE)
        BY <2>4 DEF Gathered, TextsOK
      <3>2. DOMAIN req'.support = {}
        BY <2>4, <2>5
      <3> QED  BY <2>6, <3>1, <3>2 DEF TextsOK
    <2>8. CallOK(req')
      BY <1>1, <2>1, <2>4, <2>5 DEF Gathered, CallOK, PcBefore
    <2>9. AnswerOK(req')
      BY <2>1, <2>4 DEF AnswerOK
    <2> QED  BY <2>4, <2>5, <2>7, <2>8, <2>9, NothingYet DEF Gathered
  <1> QED  BY <1>2, <1>3

-----------------------------------------------------------------------------
(* The graph branch. *)

\* Before the query there is nothing but the texts of the vector branch.
LEMMA StartGathers ==
    ASSUME Inv, Gathered(req, point, edges), req.pc \in {"resolve", "find"}, NEW changed,
           changed \subseteq {"start", "pc"}, Kept(changed), CallOK(req'), req'.pc \in {"find", "query"}
    PROVE  Gathered(req', point, edges)
  <1>1. /\ req'.vector = req.vector /\ req'.support = req.support /\ req'.quiet = req.quiet
        /\ req'.paths = req.paths /\ req'.todo = req.todo /\ req'.graph = req.graph
    BY DEF Kept, Fields, Idle
  <1>2. req.paths = <<>> /\ req.todo = <<>> /\ req.graph = <<>> /\ req.support = <<>>
    BY DEF Gathered, CallOK, PcBefore
  <1>3. TextsOK(req', point)
    BY <1>1, TextsStay DEF Gathered
  <1>4. AnswerOK(req')
    BY DEF AnswerOK
  <1> QED  BY <1>1, <1>2, <1>3, <1>4, NothingYet DEF Gathered

LEMMA ResolveEntityGathers ==
    ASSUME Inv, Gathered(req, point, edges), ResolveEntity
    PROVE  Gathered(req', point, edges)
  <1>1. req.pc = "resolve"
    BY DEF ResolveEntity
  <1>2. CASE Fail("invalid") \/ Fail("not_found")
    BY <1>1, <1>2, FailGathers DEF Error
  <1>3. CASE ~(Fail("invalid") \/ Fail("not_found"))
    <2>1. Limit \in 1..MaxLimit
      BY <1>3 DEF ResolveEntity
    <2>2. (\E id \in nodes : req' = [req EXCEPT !.start = id, !.pc = "query"]) \/ Goto("find")
      BY <1>3 DEF ResolveEntity
    <2>3. CASE Goto("find")
      <3>1. req'.pc = "find" /\ Kept({"pc"})
        BY <2>3, GotoStep DEF Inv
      <3>2. CallOK(req')
        BY <1>1, <2>1, <3>1 DEF Gathered, CallOK, PcBefore, Limit, Kept, Fields, Idle
      <3> QED  BY <1>1, <3>1, <3>2, StartGathers
    <2>4. ASSUME NEW id \in nodes, req' = [req EXCEPT !.start = id, !.pc = "query"]
          PROVE  Gathered(req', point, edges)
      <3>1. req'.start = id /\ req'.pc = "query" /\ Kept({"start", "pc"})
        BY <2>4, StartStep DEF Inv
      <3>2. id \in Entity
        BY DEF Inv, StoresOK
      <3>3. CallOK(req')
        BY <1>1, <2>1, <3>1, <3>2 DEF Gathered, CallOK, PcBefore, Limit, Kept, Fields, Idle
      <3> QED  BY <1>1, <3>1, <3>3, StartGathers
    <2> QED  BY <2>2, <2>3, <2>4
  <1> QED  BY <1>2, <1>3

LEMMA FindEntityGathers ==
    ASSUME Inv, Gathered(req, point, edges), FindEntity
    PROVE  Gathered(req', point, edges)
  <1>1. req.pc = "find"
    BY DEF FindEntity
  <1>2. CASE Fail("not_found") \/ Fail("ambiguous")
    BY <1>1, <1>2, FailGathers DEF Error
  <1>3. ASSUME NEW n \in NamedNodes(nodes, req.call.name, req.call.type),
               req' = [req EXCEPT !.start = n, !.pc = "query"]
        PROVE  Gathered(req', point, edges)
    <2>1. req'.start = n /\ req'.pc = "query" /\ Kept({"start", "pc"})
      BY <1>3, StartStep DEF Inv
    <2>2. n \in Entity
      BY DEF Inv, StoresOK, NamedNodes
    <2>3. CallOK(req')
      BY <1>1, <2>1, <2>2 DEF Gathered, CallOK, PcBefore, Kept, Fields, Idle
    <2> QED  BY <1>1, <2>1, <2>3, StartGathers
  <1> QED  BY <1>2, <1>3 DEF FindEntity

\* A retrieval that queries the graph has a call that does.
LEMMA QueryTyped ==
    ASSUME Inv, Gathered(req, point, edges), req.pc \in {"query", "incoming"}
    PROVE  /\ req.call \in Call /\ req.call.op \in Operation /\ req.start \in Entity
           /\ Limit \in Nat /\ Limit <= MaxLimit /\ ~Refused(req.call) /\ Graphs(req.call)
  <1>1. /\ req.call \in Call /\ ~Refused(req.call) /\ Graphs(req.call) /\ req.start \in Entity
        /\ Default(req.call.limit, DefaultLimit) \in 1..MaxLimit
    BY DEF Gathered, CallOK
  <1>2. Limit \in 1..MaxLimit /\ MaxLimit \in Nat
    BY <1>1, BoundsAssumption DEF Limit
  <1>3. Limit \in Nat /\ Limit <= MaxLimit
    BY <1>2
  <1>4. req.call.op \in Operation
    BY <1>1, CallTyped
  <1> QED  BY <1>1, <1>3, <1>4

\* Paths that are found become graph evidence, one item for each.
LEMMA FoundGraph ==
    ASSUME Inv, Gathered(req, point, edges), req.pc \in {"query", "incoming"}, NEW E \in SUBSET Facts,
           NEW paths \in Seq(Walks(E, req.start)), Len(paths) <= MaxLimit, Found(paths)
    PROVE  GraphOK(req', E)
  <1> DEFINE op == req.call.op  n == req.start  list == GraphEvidence(op, paths)
  <1>1. op \in Operation /\ n \in Entity
    BY QueryTyped
  <1>2. /\ req'.paths = paths /\ req'.call = req.call /\ req'.start = req.start
        /\ \/ req'.todo = <<>> /\ req'.graph = list
           \/ req'.todo = list /\ req'.graph = <<>>
    BY FoundStep DEF Inv, Kept, Fields, Idle
  <1> HIDE DEF op, n
  <1>3. /\ AreEvidence(list, E, op, n) /\ Len(list) <= MaxLimit
        /\ \A i \in DOMAIN list : list[i] = PathEvidence(op, list[i].path)
    <2>1. paths \in Seq(Walks(E, n))
      BY DEF n
    <2> QED  BY <1>1, <2>1, EvidenceFound
  <1> HIDE DEF list
  <1>4. \A T : <<>> \in Seq(T)
    OBVIOUS
  <1>5. AreEvidence(<<>>, E, op, n) /\ Len(<<>>) = 0 /\ DOMAIN <<>> = {}
    BY <1>4 DEF AreEvidence
  <1>6. Len(list) \in Nat
    BY <1>3, LenProperties DEF AreEvidence
  <1>7. /\ AreEvidence(req'.todo, E, op, n) /\ AreEvidence(req'.graph, E, op, n)
        /\ \A i \in DOMAIN req'.todo : req'.todo[i] = PathEvidence(op, req'.todo[i].path)
        /\ Len(req'.todo) + Len(req'.graph) <= MaxLimit
    <2>1. CASE req'.todo = <<>> /\ req'.graph = list
      BY <1>3, <1>5, <1>6, <2>1
    <2>2. CASE req'.todo = list /\ req'.graph = <<>>
      BY <1>3, <1>5, <1>6, <2>2
    <2> QED  BY <1>2, <2>1, <2>2
  <1> QED  BY <1>2, <1>7 DEF GraphOK, op, n

LEMMA FoundGathers ==
    ASSUME Inv, Gathered(req, point, edges), req.pc \in {"query", "incoming"},
           NEW paths \in Seq(Walks(Facts, req.start)), Len(paths) <= MaxLimit, Found(paths),
           req.quiet => paths \in Seq(Walks(edges, req.start))
    PROVE  Gathered(req', point, edges)
  <1>1. /\ Kept({"paths", "todo", "graph", "pc"}) /\ req'.paths = paths
        /\ \/ /\ req.call.endpoint = "graph" /\ req'.pc = "done"
              /\ req'.todo = <<>> /\ req'.graph = GraphEvidence(req.call.op, paths)
           \/ /\ req.call.endpoint # "graph" /\ req'.pc = "bridge"
              /\ req'.todo = GraphEvidence(req.call.op, paths) /\ req'.graph = <<>>
    BY FoundStep DEF Inv
  <1>2. /\ req'.vector = req.vector /\ req'.support = req.support /\ req'.quiet = req.quiet
        /\ req'.call = req.call /\ req'.start = req.start /\ req'.error = req.error
    BY <1>1 DEF Kept, Fields, Idle
  <1>3. TextsOK(req', point)
    BY <1>2, TextsStay DEF Gathered
  <1>4. GraphOK(req', Facts)
    <2>1. Facts \in SUBSET Facts
      OBVIOUS
    <2> QED  BY <2>1, FoundGraph
  <1>5. req'.quiet => GraphOK(req', edges)
    <2>1. edges \in SUBSET Facts
      BY DEF Inv, StoresOK
    <2> QED  BY <1>2, <2>1, FoundGraph
  <1>6. BridgeOK(req', point) /\ AnswerOK(req')
    <2>1. CASE req.call.endpoint = "graph"
      BY <1>2, <2>1 DEF BridgeOK, AnswerOK
    <2>2. CASE req'.pc = "bridge" /\ req'.graph = <<>>
      <3>1. DOMAIN req'.graph = {}
        BY <2>2
      <3> QED  BY <2>2, <3>1 DEF BridgeOK, AnswerOK
    <2> QED  BY <1>1, <2>1, <2>2
  <1>7. CallOK(req')
    <2>1. /\ req.call \in Call /\ ~Refused(req.call) /\ Graphs(req.call) /\ req.start \in Entity
          /\ req.call.op \in Operation
      BY QueryTyped
    <2>2. req.error # "identity_mismatch"
      BY DEF Gathered, CallOK
    <2> QED  BY <1>1, <1>2, <2>1, <2>2 DEF CallOK, PcBefore
  <1> QED  BY <1>3, <1>4, <1>5, <1>6, <1>7 DEF Gathered

\* A list of paths of a query over the relationships there are.
LEMMA QueriedPaths ==
    ASSUME Inv, NEW n, NEW limit \in Nat, limit <= MaxLimit, NEW paths, PathList(paths, edges, n, limit)
    PROVE  /\ paths \in Seq(Walks(Facts, n)) /\ paths \in Seq(Walks(edges, n))
           /\ Len(paths) <= MaxLimit
  <1>1. paths \in Seq(Walks(edges, n)) /\ Len(paths) <= limit
    BY DEF PathList
  <1>2. Walks(edges, n) \subseteq Walks(Facts, n)
    BY WalksGrow DEF Inv, StoresOK
  <1>3. paths \in Seq(Walks(Facts, n))
    BY <1>1, <1>2, SeqMonotonic
  <1>4. Len(paths) \in Nat /\ MaxLimit \in Nat
    BY <1>1, LenProperties, BoundsAssumption
  <1> QED  BY <1>1, <1>3, <1>4

\* The stored edges are facts, one for each id.
LEMMA StoredEdges ==
    ASSUME Inv
    PROVE  edges \in SUBSET Edge /\ edges \in SUBSET Facts /\ Simple(edges)
  BY FactsAssumption DEF Inv, StoresOK, Simple

LEMMA QueryPathsGathers ==
    ASSUME Inv, IsFiniteSet(edges), Gathered(req, point, edges), QueryPaths
    PROVE  Gathered(req', point, edges)
  <1> DEFINE op == req.call.op  paths == Paths(edges, op, req.start, Depth, Limit)
  <1>1. req.pc = "query"
    BY DEF QueryPaths
  <1>2. op \in Operation /\ req.start \in Entity /\ Limit \in Nat /\ Limit <= MaxLimit
    BY <1>1, QueryTyped
  <1>3. edges \in SUBSET Edge /\ Simple(edges)
    BY StoredEdges
  <1>4. PathList(paths, edges, req.start, Limit)
    BY <1>2, <1>3, PathsListed
  <1>5. Fail("invalid") \/ Found(paths) \/ req' = [req EXCEPT !.paths = paths, !.pc = "incoming"]
    BY DEF QueryPaths
  <1> HIDE DEF paths
  <1>6. /\ paths \in Seq(Walks(Facts, req.start)) /\ paths \in Seq(Walks(edges, req.start))
        /\ Len(paths) <= MaxLimit
    BY <1>2, <1>4, QueriedPaths
  <1>7. CASE Fail("invalid")
    BY <1>1, <1>7, FailGathers DEF Error
  <1>8. CASE Found(paths)
    BY <1>1, <1>6, <1>8, FoundGathers
  <1>9. CASE req' = [req EXCEPT !.paths = paths, !.pc = "incoming"]
    <2>1. req'.paths = paths /\ req'.pc = "incoming" /\ Kept({"paths", "pc"})
      BY <1>9, QueryStep DEF Inv
    <2>2. /\ req'.vector = req.vector /\ req'.support = req.support /\ req'.quiet = req.quiet
          /\ req'.call = req.call /\ req'.start = req.start /\ req'.error = req.error
          /\ req'.todo = req.todo /\ req'.graph = req.graph
      BY <2>1 DEF Kept, Fields, Idle
    <2>3. TextsOK(req', point)
      BY <2>2, TextsStay DEF Gathered
    <2>4. BridgeOK(req', point)
      BY <2>2, BridgeStays DEF Gathered
    <2>5. AnswerOK(req')
      BY <2>1 DEF AnswerOK
    <2>6. CallOK(req')
      BY <1>1, <2>1, <2>2 DEF Gathered, CallOK, PcBefore
    <2>7. GraphOK(req', Facts) /\ (req'.quiet => GraphOK(req', edges))
      BY <1>6, <2>1, <2>2 DEF Gathered, GraphOK
    <2> QED  BY <2>3, <2>4, <2>5, <2>6, <2>7 DEF Gathered
  <1> QED  BY <1>5, <1>7, <1>8, <1>9

\* The papers cited, then the papers that cite, cut to the limit.
LEMMA BothListed ==
    ASSUME NEW T, NEW first \in Seq(T), NEW second \in Seq(T), NEW limit \in Nat
    PROVE  /\ Limited(first \o second, limit) \in Seq(T)
           /\ Len(Limited(first \o second, limit)) <= limit
  <1> DEFINE both == first \o second
  <1>1. both \in Seq(T) /\ Len(both) \in Nat
    BY ConcatProperties, LenProperties
  <1> HIDE DEF both
  <1>2. /\ Limited(both, limit) \in Seq(T)
        /\ Len(Limited(both, limit)) = IF Len(both) < limit THEN Len(both) ELSE limit
    BY <1>1, LimitedList
  <1>3. Len(Limited(both, limit)) <= limit
    BY <1>1, <1>2
  <1> QED  BY <1>2, <1>3 DEF both

LEMMA QueryIncomingGathers ==
    ASSUME Inv, IsFiniteSet(edges), Gathered(req, point, edges), QueryIncoming
    PROVE  Gathered(req', point, edges)
  <1> DEFINE second == CitedByPaths(edges, req.start, Depth, Limit)
             paths == Limited(req.paths \o second, Limit)
  <1>1. req.pc = "incoming" /\ Found(paths)
    BY DEF QueryIncoming
  <1>2. req.start \in Entity /\ Limit \in Nat /\ Limit <= MaxLimit
    BY <1>1, QueryTyped
  <1>3. edges \in SUBSET Edge /\ Simple(edges)
    BY StoredEdges
  <1>4. PathList(second, edges, req.start, Limit)
    BY <1>2, <1>3, IncomingListed
  <1> HIDE DEF second
  <1>5. second \in Seq(Walks(Facts, req.start)) /\ second \in Seq(Walks(edges, req.start))
    BY <1>2, <1>4, QueriedPaths
  <1>6. /\ req.paths \in Seq(Walks(Facts, req.start))
        /\ req.quiet => req.paths \in Seq(Walks(edges, req.start))
    BY DEF Gathered, GraphOK
  <1>7. paths \in Seq(Walks(Facts, req.start)) /\ Len(paths) <= Limit
    BY <1>2, <1>5, <1>6, BothListed
  <1>8. req.quiet => paths \in Seq(Walks(edges, req.start))
    BY <1>2, <1>5, <1>6, BothListed
  <1> HIDE DEF paths
  <1>9. Len(paths) <= MaxLimit
    <2>1. Len(paths) \in Nat /\ MaxLimit \in Nat
      BY <1>7, LenProperties, BoundsAssumption
    <2> QED  BY <1>2, <1>7, <2>1
  <1> QED  BY <1>1, <1>7, <1>8, <1>9, FoundGathers

-----------------------------------------------------------------------------
(* The provenance bridge. *)

\* A list is a list of what is in it.
LEMMA OwnRange ==
    ASSUME NEW T, NEW list \in Seq(T)
    PROVE  /\ list \in Seq(Range(list)) /\ Len(list) \in Nat /\ DOMAIN list = 1..Len(list)
           /\ \A i \in 1..Len(list) : list[i] \in Range(list)
  <1>1. Len(list) \in Nat /\ DOMAIN list = 1..Len(list) /\ list = [i \in 1..Len(list) |-> list[i]]
    BY LenProperties
  <1>2. list \in Seq(Range(list))
    BY <1>1, ListOfItsRange
  <1> QED  BY <1>1, <1>2 DEF Range

\* What holds of every element of two lists holds of every element of both.
Joins(both, first, second) ==
    /\ \A k \in DOMAIN both : \/ \E i \in DOMAIN first : both[k] = first[i]
                             \/ \E i \in DOMAIN second : both[k] = second[i]
    /\ \A i \in DOMAIN first : \E k \in DOMAIN both : both[k] = first[i]
    /\ \A i \in DOMAIN second : \E k \in DOMAIN both : both[k] = second[i]

\* Two lists, joined.
LEMMA JoinedList ==
    ASSUME NEW T, NEW first \in Seq(T), NEW second \in Seq(T)
    PROVE  first \o second \in Seq(T) /\ Joins(first \o second, first, second)
  <1> DEFINE both == first \o second  m == Len(first)  n == Len(second)
  <1>1. m \in Nat /\ n \in Nat /\ DOMAIN first = 1..m /\ DOMAIN second = 1..n
    BY LenProperties
  <1>2. /\ both \in Seq(T) /\ Len(both) = m + n
        /\ \A k \in 1..(m + n) : both[k] = IF k <= m THEN first[k] ELSE second[k - m]
    BY ConcatProperties
  <1>3. DOMAIN both = 1..(m + n)
    BY <1>2, LenProperties
  <1> HIDE DEF both, m, n
  <1>4. ASSUME NEW k \in DOMAIN both
        PROVE  \/ \E i \in DOMAIN first : both[k] = first[i]
               \/ \E i \in DOMAIN second : both[k] = second[i]
    <2>1. CASE k <= m
      BY <1>1, <1>2, <1>3, <2>1
    <2>2. CASE ~(k <= m)
      <3>1. k - m \in DOMAIN second
        BY <1>1, <1>3, <2>2
      <3> QED  BY <1>2, <1>3, <2>2, <3>1
    <2> QED  BY <2>1, <2>2
  <1>5. ASSUME NEW i \in DOMAIN first PROVE \E k \in DOMAIN both : both[k] = first[i]
    <2>1. i \in DOMAIN both /\ i <= m
      BY <1>1, <1>3
    <2> QED  BY <1>2, <1>3, <2>1
  <1>6. ASSUME NEW i \in DOMAIN second PROVE \E k \in DOMAIN both : both[k] = second[i]
    <2>1. m + i \in DOMAIN both /\ ~(m + i <= m) /\ (m + i) - m = i
      BY <1>1, <1>3
    <2> QED  BY <1>2, <1>3, <2>1
  <1>7. Joins(both, first, second)
    BY <1>4, <1>5, <1>6 DEF Joins
  <1> QED  BY <1>2, <1>7 DEF both

\* Texts that are current stay so when they are joined.
LEMMA TextsJoined ==
    ASSUME NEW first, AreTexts(first, FALSE), NEW second, AreTexts(second, FALSE), NEW points,
           NEW now \in {"yes", "no"}, now = "yes" => /\ \A i \in DOMAIN first : Current(first[i], points)
                                                    /\ \A i \in DOMAIN second : Current(second[i], points)
    PROVE  /\ AreTexts(first \o second, FALSE)
           /\ now = "yes" => \A i \in DOMAIN (first \o second) : Current((first \o second)[i], points)
           /\ Ids(first) \subseteq Ids(first \o second) /\ Ids(second) \subseteq Ids(first \o second)
  <1> DEFINE T == Range(first) \cup Range(second)  both == first \o second
  <1>1. first \in Seq(T) /\ second \in Seq(T)
    BY SeqMonotonic DEF AreTexts
  <1> HIDE DEF T
  <1>7. both \in Seq(T) /\ Joins(both, first, second)
    BY <1>1, JoinedList
  <1>2. /\ both \in Seq(T)
        /\ \A k \in DOMAIN both : \/ \E i \in DOMAIN first : both[k] = first[i]
                                  \/ \E i \in DOMAIN second : both[k] = second[i]
        /\ \A i \in DOMAIN first : \E k \in DOMAIN both : both[k] = first[i]
        /\ \A i \in DOMAIN second : \E k \in DOMAIN both : both[k] = second[i]
    BY <1>7 DEF Joins
  <1> HIDE DEF both
  <1>3. both \in Seq(Range(both))
    BY <1>2, OwnRange
  <1>4. \A k \in DOMAIN both : IsText(both[k], FALSE)
    BY <1>2 DEF AreTexts
  <1>5. now = "yes" => \A k \in DOMAIN both : Current(both[k], points)
    BY <1>2
  <1>6. Ids(first) \subseteq Ids(both) /\ Ids(second) \subseteq Ids(both)
    BY <1>2 DEF Ids
  <1> QED  BY <1>3, <1>4, <1>5, <1>6 DEF AreTexts, both

\* What is left of evidence.
LEMMA TailEvidence ==
    ASSUME NEW list, list # <<>>, NEW E, NEW op, NEW n, AreEvidence(list, E, op, n)
    PROVE  /\ AreEvidence(Tail(list), E, op, n) /\ Len(Tail(list)) = Len(list) - 1 /\ Len(list) \in Nat \ {0}
           /\ \A i \in DOMAIN Tail(list) : \E k \in DOMAIN list : Tail(list)[i] = list[k]
           /\ \E k \in DOMAIN list : Head(list) = list[k]
  <1>1. list \in Seq(Range(list))
    BY DEF AreEvidence
  <1>2. Len(list) \in Nat \ {0} /\ DOMAIN list = 1..Len(list)
    BY <1>1, EmptySeq, LenProperties
  <1>3. /\ Tail(list) \in Seq(Range(list)) /\ Len(Tail(list)) = Len(list) - 1
        /\ \A i \in 1..Len(Tail(list)) : Tail(list)[i] = list[i + 1]
    BY <1>1, HeadTailProperties
  <1>4. Head(list) = list[1] /\ 1 \in DOMAIN list
    BY <1>1, <1>2
  <1> DEFINE tail == Tail(list)
  <1> HIDE DEF tail
  <1>5. tail \in Seq(Range(tail)) /\ DOMAIN tail = 1..Len(tail)
    BY <1>3, OwnRange DEF tail
  <1>6. \A i \in DOMAIN tail : \E k \in DOMAIN list : tail[i] = list[k]
    <2> SUFFICES ASSUME NEW i \in DOMAIN tail PROVE \E k \in DOMAIN list : tail[i] = list[k]
      OBVIOUS
    <2>1. i + 1 \in DOMAIN list
      BY <1>2, <1>3, <1>5 DEF tail
    <2> QED  BY <1>3, <1>5, <2>1 DEF tail
  <1>7. AreEvidence(tail, E, op, n)
    BY <1>5, <1>6 DEF AreEvidence
  <1> QED  BY <1>2, <1>3, <1>4, <1>6, <1>7 DEF tail

\* One item more.
LEMMA AppendEvidence ==
    ASSUME NEW list, NEW E, NEW op, NEW n, AreEvidence(list, E, op, n), NEW x, IsEvidence(x, E, op, n)
    PROVE  /\ AreEvidence(Append(list, x), E, op, n) /\ Len(Append(list, x)) = Len(list) + 1
           /\ \A i \in DOMAIN Append(list, x) :
                Append(list, x)[i] = x \/ \E k \in DOMAIN list : Append(list, x)[i] = list[k]
  <1> DEFINE T == Range(list) \cup {x}  longer == Append(list, x)
  <1>1. list \in Seq(T) /\ x \in T
    BY SeqMonotonic DEF AreEvidence
  <1> HIDE DEF T
  <1>2. DOMAIN list = 1..Len(list) /\ Len(list) \in Nat
    BY <1>1, LenProperties
  <1>3. /\ longer \in Seq(T) /\ Len(longer) = Len(list) + 1
        /\ \A i \in 1..Len(list) : longer[i] = list[i]
        /\ longer[Len(list) + 1] = x
    BY <1>1, AppendProperties
  <1> HIDE DEF longer
  <1>4. longer \in Seq(Range(longer)) /\ DOMAIN longer = 1..(Len(list) + 1)
    BY <1>3, OwnRange
  <1>5. \A i \in DOMAIN longer : longer[i] = x \/ \E k \in DOMAIN list : longer[i] = list[k]
    BY <1>2, <1>3, <1>4
  <1>6. AreEvidence(longer, E, op, n)
    BY <1>4, <1>5 DEF AreEvidence
  <1> QED  BY <1>3, <1>5, <1>6 DEF longer

\* The chunks that the bridge looks up, and those it finds: ones the evidence names.
LEMMA ChunksFound ==
    ASSUME Inv, NEW E \in SUBSET Facts, NEW op, NEW n, NEW item, IsEvidence(item, E, op, n),
           NEW wanted, wanted = Limited(item.chunks, MaxSupportingChunks),
           NEW texts, texts = Picked(wanted, Stored)
    PROVE  /\ wanted \in Seq(NamedBy(item.path)) /\ texts \in Seq(NamedBy(item.path))
           /\ NamedBy(item.path) \subseteq Chunk
           /\ \A i \in DOMAIN texts : /\ texts[i] \in NamedBy(item.path) /\ texts[i] \in Range(item.chunks)
                                      /\ texts[i] \in Chunk /\ point[texts[i]] \in Generation
  <1> DEFINE names == NamedBy(item.path)
  <1>1. Walk(E, n, item.path) /\ E \in SUBSET Edge /\ IsFiniteSet(Chunk)
    BY FactsAssumption, VersionOfAssumption DEF IsEvidence, Walks
  <1>2. item.chunks \in Seq(names) /\ names \subseteq Chunk
    BY <1>1, SourceChunksNamed DEF IsEvidence
  <1> HIDE DEF names
  <1>3. MaxSupportingChunks \in Nat
    BY BoundsAssumption
  <1>4. /\ wanted \in Seq(names)
        /\ \A i \in 1..Len(wanted) : i \in 1..Len(item.chunks) /\ wanted[i] = item.chunks[i]
    BY <1>2, <1>3, LimitedList
  <1>5. /\ texts \in Seq(names)
        /\ \A i \in 1..Len(texts) : texts[i] \in Stored /\ \E k \in 1..Len(wanted) : wanted[k] = texts[i]
    BY <1>4, PickedList
  <1>6. DOMAIN texts = 1..Len(texts) /\ DOMAIN item.chunks = 1..Len(item.chunks)
    BY <1>2, <1>5, LenProperties
  <1>7. ASSUME NEW i \in DOMAIN texts
        PROVE  /\ texts[i] \in names /\ texts[i] \in Range(item.chunks)
               /\ texts[i] \in Chunk /\ point[texts[i]] \in Generation
    <2>1. texts[i] \in Stored
      BY <1>5, <1>6
    <2>2. PICK k \in 1..Len(wanted) : wanted[k] = texts[i]
      BY <1>5, <1>6
    <2>3. texts[i] \in Range(item.chunks)
      BY <1>4, <1>6, <2>2 DEF Range
    <2>4. texts[i] \in names
      BY <1>5, <1>6, ElementOfSeq
    <2>5. texts[i] \in Chunk /\ point[texts[i]] # None
      BY <2>1 DEF Stored
    <2>6. point[texts[i]] \in Generation
      BY <2>5 DEF Inv, StoresOK
    <2> QED  BY <2>3, <2>4, <2>5, <2>6
  <1> QED  BY <1>2, <1>4, <1>5, <1>7 DEF names

\* _validate_chunk never fails: the chunk is of the version of the relationship naming it.
LEMMA NoMismatch ==
    ASSUME Inv, NEW op, NEW n, NEW item, IsEvidence(item, Facts, op, n), NEW c \in NamedBy(item.path)
    PROVE  VersionOf[c] = ExpectedVersion(item.path, c)
  <1>1. Walk(Facts, n, item.path) /\ Facts \in SUBSET Edge /\ IsFiniteSet(Chunk)
    BY FactsAssumption, VersionOfAssumption DEF IsEvidence, Walks
  <1>2. PICK i \in DOMAIN item.path.edges :
             /\ c \in Names(item.path.edges[i]) /\ item.path.edges[i] \in Facts
             /\ ExpectedVersion(item.path, c) = item.path.edges[i].version
    BY <1>1, VersionExpected
  <1>3. VersionOf[c] = item.path.edges[i].version
    BY <1>2, FactsAssumption DEF Names
  <1> QED  BY <1>2, <1>3

\* The text evidence that the bridge makes.
LEMMA BridgeTexts ==
    ASSUME Inv, NEW chunks, NEW S, chunks \in Seq(S),
           \A i \in DOMAIN chunks : chunks[i] \in Chunk /\ point[chunks[i]] \in Generation,
           NEW list, list = TextsOf(chunks, FALSE)
    PROVE  /\ AreTexts(list, FALSE) /\ \A i \in DOMAIN list : Current(list[i], point)
           /\ DOMAIN list = DOMAIN chunks
           /\ \A i \in DOMAIN chunks : list[i].id = <<"text", chunks[i], point[chunks[i]]>>
  <1>1. DOMAIN chunks = 1..Len(chunks) /\ Len(chunks) \in Nat
    BY LenProperties
  <1>2. DOMAIN list = DOMAIN chunks /\ list = [i \in 1..Len(chunks) |-> list[i]]
    BY <1>1 DEF TextsOf
  <1>3. list \in Seq(Range(list))
    BY <1>1, <1>2, ListOfItsRange
  <1>4. ASSUME NEW i \in DOMAIN chunks
        PROVE  /\ IsText(list[i], FALSE) /\ Current(list[i], point)
               /\ list[i].id = <<"text", chunks[i], point[chunks[i]]>>
    <2> DEFINE text == list[i]  c == chunks[i]  id == <<"text", chunks[i], point[chunks[i]]>>
    <2>1. text = [kind |-> "text", id |-> id, chunk |-> c, scored |-> FALSE]
      BY DEF TextsOf, Text
    <2>2. IsText(text, FALSE)
      BY <2>1 DEF IsText
    <2> HIDE DEF text, c, id
    <2>3. text.chunk = c /\ text.id = id
      BY <2>1
    <2> QED  BY <2>2, <2>3 DEF Current, text, c, id
  <1> QED  BY <1>2, <1>3, <1>4 DEF AreTexts

\* What the bridge adds to a graph item, and that it adds no more.
LEMMA BridgedItem ==
    ASSUME Inv, NEW E \in SUBSET Facts, NEW op, NEW n, NEW item, IsEvidence(item, E, op, n),
           item = PathEvidence(op, item.path),
           NEW wanted, wanted = Limited(item.chunks, MaxSupportingChunks),
           NEW texts, texts = Picked(wanted, Stored)
    PROVE  /\ IsEvidence(Bridged(item, wanted), E, op, n)
           /\ Bridged(item, wanted).chunks = item.chunks
           /\ Bridged(item, wanted).supports = [i \in DOMAIN texts |-> <<"text", texts[i], point[texts[i]]>>]
           /\ wanted # <<>> => (Bridged(item, wanted).complete <=> texts = wanted)
  <1> DEFINE new == Bridged(item, wanted)
             supports == [i \in DOMAIN texts |-> <<"text", texts[i], point[texts[i]]>>]
             complete == IF wanted = <<>>
                         THEN ~(\A i \in DOMAIN item.path.edges : item.path.edges[i].type = "authored_by")
                         ELSE texts = wanted
  <1>1. new = [item EXCEPT !.supports = supports, !.complete = complete]
    BY DEF Bridged, Text
  <1>2. \A i \in DOMAIN texts : texts[i] \in Range(item.chunks) /\ point[texts[i]] \in Generation
    BY ChunksFound
  <1>3. DOMAIN supports = DOMAIN texts /\ \A i \in DOMAIN texts : supports[i] = <<"text", texts[i], point[texts[i]]>>
    OBVIOUS
  <1>4. DOMAIN item = {"kind", "id", "path", "chunks", "supports", "complete"}
    <2> DEFINE e == PathEvidence(op, item.path)
    <2>1. DOMAIN e = {"kind", "id", "path", "chunks", "supports", "complete"}
      BY DEF PathEvidence
    <2> HIDE DEF e
    <2>2. item = e
      BY DEF e
    <2> QED  BY <2>1, <2>2
  <1>5. wanted # <<>> => (complete <=> texts = wanted)
    OBVIOUS
  <1> HIDE DEF supports, complete, new
  <1>6. /\ new.path = item.path /\ new.kind = item.kind /\ new.id = item.id /\ new.chunks = item.chunks
        /\ new.supports = supports /\ new.complete = complete
    BY <1>1, <1>4
  <1>7. IsEvidence(new, E, op, n)
    BY <1>2, <1>3, <1>6 DEF IsEvidence
  <1>8. wanted # <<>> => (new.complete <=> texts = wanted)
    BY <1>5, <1>6
  <1> QED  BY <1>6, <1>7, <1>8 DEF new, supports

\* Bridging moves an item from those to do to those that are done.
LEMMA BridgeGraph ==
    ASSUME Inv, NEW E \in SUBSET Facts, NEW q, GraphOK(q, E), q.todo # <<>>,
           NEW item, item = Head(q.todo),
           NEW wanted, wanted = Limited(item.chunks, MaxSupportingChunks),
           NEW r, r.todo = Tail(q.todo), r.graph = Append(q.graph, Bridged(item, wanted)),
           r.paths = q.paths, r.call = q.call, r.start = q.start
    PROVE  GraphOK(r, E)
  <1> DEFINE op == q.call.op  n == q.start  todo == q.todo  graph == q.graph  new == Bridged(item, wanted)
  <1>1. /\ AreEvidence(todo, E, op, n) /\ AreEvidence(graph, E, op, n) /\ Len(todo) + Len(graph) <= MaxLimit
        /\ \A i \in DOMAIN todo : todo[i] = PathEvidence(op, todo[i].path)
    BY DEF GraphOK
  <1>2. r.todo = Tail(todo) /\ r.graph = Append(graph, new) /\ item = Head(todo) /\ todo # <<>>
    OBVIOUS
  <1> HIDE DEF op, n, todo, graph
  <1>3. /\ AreEvidence(Tail(todo), E, op, n) /\ Len(Tail(todo)) = Len(todo) - 1 /\ Len(todo) \in Nat \ {0}
        /\ \A i \in DOMAIN Tail(todo) : \E k \in DOMAIN todo : Tail(todo)[i] = todo[k]
        /\ \E k \in DOMAIN todo : Head(todo) = todo[k]
    BY <1>1, <1>2, TailEvidence
  <1>4. IsEvidence(item, E, op, n) /\ item = PathEvidence(op, item.path)
    BY <1>1, <1>2, <1>3 DEF AreEvidence
  <1>5. IsEvidence(new, E, op, n)
    <2> DEFINE texts == Picked(wanted, Stored)
    <2>1. texts = Picked(wanted, Stored)
      OBVIOUS
    <2> HIDE DEF texts
    <2> QED  BY <1>4, <2>1, BridgedItem
  <1> HIDE DEF new
  <1>6. AreEvidence(Append(graph, new), E, op, n) /\ Len(Append(graph, new)) = Len(graph) + 1
    BY <1>1, <1>5, AppendEvidence
  <1>7. Len(graph) \in Nat
    BY <1>1, LenProperties DEF AreEvidence
  <1>8. /\ AreEvidence(r.todo, E, op, n) /\ AreEvidence(r.graph, E, op, n)
        /\ Len(r.todo) + Len(r.graph) <= MaxLimit
    <2>1. Len(r.todo) = Len(todo) - 1 /\ Len(r.graph) = Len(graph) + 1
      BY <1>2, <1>3, <1>6
    <2>2. MaxLimit \in Nat
      BY BoundsAssumption
    <2>3. Len(r.todo) + Len(r.graph) = Len(todo) + Len(graph)
      <3> DEFINE x == Len(todo)  y == Len(graph)
      <3>1. x \in Int /\ y \in Int
        BY <1>3, <1>7
      <3>2. Len(r.todo) = x - 1 /\ Len(r.graph) = y + 1
        BY <2>1
      <3> HIDE DEF x, y
      <3>3. (x - 1) + (y + 1) = x + y
        BY <3>1
      <3> QED  BY <3>2, <3>3 DEF x, y
    <2> QED  BY <1>1, <1>2, <1>3, <1>6, <2>3
  <1>9. \A i \in DOMAIN r.todo : r.todo[i] = PathEvidence(op, r.todo[i].path)
    BY <1>1, <1>2, <1>3
  <1>10. r.paths \in Seq(Walks(E, r.start)) /\ Len(r.paths) <= MaxLimit
    BY DEF GraphOK
  <1> QED  BY <1>8, <1>9, <1>10 DEF GraphOK, op, n

\* What was said of an item stays said: the texts only become more.
LEMMA ToldStays ==
    ASSUME NEW item, NEW support, NEW more, NEW points, Told(item, support, points),
           Ids(support) \subseteq Ids(more)
    PROVE  Told(item, more, points)
  BY DEF Told

\* A bridged item tells which of its chunks have a text, as the store has it.
LEMMA ToldNow ==
    ASSUME Inv, NEW E \in SUBSET Facts, NEW op, NEW n, NEW item, IsEvidence(item, E, op, n),
           item = PathEvidence(op, item.path),
           NEW wanted, wanted = Limited(item.chunks, MaxSupportingChunks),
           NEW texts, texts = Picked(wanted, Stored),
           NEW more, Ids(TextsOf(texts, FALSE)) \subseteq Ids(more)
    PROVE  Told(Bridged(item, wanted), more, point)
  <1> DEFINE new == Bridged(item, wanted)  list == TextsOf(texts, FALSE)
  <1>1. /\ new.chunks = item.chunks
        /\ new.supports = [i \in DOMAIN texts |-> <<"text", texts[i], point[texts[i]]>>]
        /\ wanted # <<>> => (new.complete <=> texts = wanted)
    BY BridgedItem
  <1>2. texts = Picked(wanted, StoredIn(point))
    BY DEF Stored, StoredIn
  <1>3. Range(new.supports) \subseteq Ids(list)
    <2>1. /\ texts \in Seq(NamedBy(item.path))
          /\ \A i \in DOMAIN texts : texts[i] \in Chunk /\ point[texts[i]] \in Generation
      BY ChunksFound
    <2>2. /\ DOMAIN list = DOMAIN texts
          /\ \A i \in DOMAIN texts : list[i].id = <<"text", texts[i], point[texts[i]]>>
      BY <2>1, BridgeTexts
    <2> HIDE DEF list, new
    <2>3. /\ DOMAIN new.supports = DOMAIN texts
          /\ \A i \in DOMAIN texts : new.supports[i] = <<"text", texts[i], point[texts[i]]>>
      BY <1>1
    <2> QED  BY <2>2, <2>3 DEF Range, Ids
  <1> HIDE DEF new, list
  <1>4. Range(new.supports) \subseteq Ids(more)
    BY <1>3 DEF list
  <1>5. wanted = Limited(new.chunks, MaxSupportingChunks)
    BY <1>1
  <1> QED  BY <1>1, <1>2, <1>4, <1>5 DEF Told, new

LEMMA BridgeItemGathers ==
    ASSUME Inv, Gathered(req, point, edges), BridgeItem
    PROVE  Gathered(req', point, edges)
  <1> DEFINE item == Head(req.todo)
             wanted == Limited(item.chunks, MaxSupportingChunks)
             texts == Picked(wanted, Stored)
             graph == Append(req.graph, Bridged(item, wanted))
             list == TextsOf(texts, FALSE)
             support == req.support \o list
             op == req.call.op  n == req.start
  <1>1. req.pc = "bridge" /\ req.todo # <<>>
    BY DEF BridgeItem
  <1>2. IsEvidence(item, Facts, op, n) /\ item = PathEvidence(op, item.path)
    <2>1. /\ AreEvidence(req.todo, Facts, op, n)
          /\ \A i \in DOMAIN req.todo : req.todo[i] = PathEvidence(op, req.todo[i].path)
      BY DEF Gathered, GraphOK
    <2>2. \E k \in DOMAIN req.todo : item = req.todo[k]
      BY <1>1, <2>1, TailEvidence
    <2> QED  BY <2>1, <2>2 DEF AreEvidence
  <1>3. Facts \in SUBSET Facts
    OBVIOUS
  <1>4. req' = [req EXCEPT !.todo = Tail(req.todo), !.graph = graph, !.support = support]
    <2>1. \A c \in Range(texts) : VersionOf[c] = ExpectedVersion(item.path, c)
      <3>1. \A i \in DOMAIN texts : texts[i] \in NamedBy(item.path)
        BY <1>2, <1>3, ChunksFound
      <3>2. Range(texts) \subseteq NamedBy(item.path)
        BY <3>1 DEF Range
      <3> HIDE DEF texts, wanted, item
      <3> QED  BY <1>2, <3>2, NoMismatch
    <2> QED  BY <2>1 DEF BridgeItem, TextsOf
  <1>5. /\ \A i \in DOMAIN texts : texts[i] \in Chunk /\ point[texts[i]] \in Generation
        /\ texts \in Seq(NamedBy(item.path))
    BY <1>2, <1>3, ChunksFound
  <1>6. AreTexts(list, FALSE) /\ \A i \in DOMAIN list : Current(list[i], point)
    BY <1>5, BridgeTexts
  <1>7. wanted = Limited(item.chunks, MaxSupportingChunks) /\ texts = Picked(wanted, Stored)
    OBVIOUS
  <1>8. /\ req'.todo = Tail(req.todo) /\ req'.graph = graph /\ req'.support = support
        /\ Kept({"todo", "graph", "support"})
    <2> DEFINE todo == Tail(req.todo)
    <2> HIDE DEF todo, graph, support
    <2>1. req' = [req EXCEPT !.todo = todo, !.graph = graph, !.support = support]
      BY <1>4 DEF todo
    <2> QED  BY <2>1, BridgeStep DEF Inv, todo
  <1>9. /\ req'.vector = req.vector /\ req'.quiet = req.quiet /\ req'.paths = req.paths /\ req'.pc = req.pc
        /\ req'.call = req.call /\ req'.start = req.start /\ req'.error = req.error
    BY <1>8 DEF Kept, Fields, Idle
  <1>10. GraphOK(req', Facts) /\ (req'.quiet => GraphOK(req', edges))
    <2>1. edges \in SUBSET Facts
      BY DEF Inv, StoresOK
    <2>2. GraphOK(req, Facts) /\ (req.quiet => GraphOK(req, edges))
      BY DEF Gathered
    <2>3. \A E \in SUBSET Facts : GraphOK(req, E) => GraphOK(req', E)
      BY <1>1, <1>8, <1>9, BridgeGraph
    <2> QED  BY <1>3, <1>9, <2>1, <2>2, <2>3
  <1> DEFINE now == IF req.quiet = TRUE THEN "yes" ELSE "no"
  <1>11. now \in {"yes", "no"} /\ (now = "yes" <=> req.quiet = TRUE)
    OBVIOUS
  <1> HIDE DEF now, list, texts, wanted, item
  <1>12. /\ AreTexts(req.vector, TRUE) /\ AreTexts(req.support, FALSE) /\ Len(req.vector) <= VectorMaxTopK
         /\ \A i, j \in DOMAIN req.vector : req.vector[i].chunk = req.vector[j].chunk => i = j
         /\ req.quiet => /\ \A i \in DOMAIN req.vector : Current(req.vector[i], point)
                         /\ \A i \in DOMAIN req.support : Current(req.support[i], point)
    BY DEF Gathered, TextsOK
  <1>13. /\ AreTexts(support, FALSE)
         /\ now = "yes" => \A i \in DOMAIN support : Current(support[i], point)
         /\ Ids(req.support) \subseteq Ids(support) /\ Ids(list) \subseteq Ids(support)
    BY <1>6, <1>11, <1>12, TextsJoined
  <1> HIDE DEF support
  <1>14. TextsOK(req', point)
    BY <1>8, <1>9, <1>11, <1>12, <1>13 DEF TextsOK
  <1>15. BridgeOK(req', point)
    <2> SUFFICES ASSUME NEW j \in DOMAIN graph, req.call.endpoint = "retrieve", req.quiet
                 PROVE  Told(graph[j], support, point)
      BY <1>8, <1>9 DEF BridgeOK
    <2> DEFINE new == Bridged(item, wanted)
    <2>1. Told(new, support, point)
      BY <1>2, <1>3, <1>7, <1>13, ToldNow DEF list
    <2>2. \A k \in DOMAIN req.graph : Told(req.graph[k], support, point)
      BY <1>13, ToldStays DEF Gathered, BridgeOK
    <2>3. graph[j] = new \/ \E k \in DOMAIN req.graph : graph[j] = req.graph[k]
      <3>1. AreEvidence(req.graph, Facts, op, n)
        BY DEF Gathered, GraphOK
      <3>2. IsEvidence(new, Facts, op, n)
        BY <1>2, <1>3, <1>7, BridgedItem
      <3> HIDE DEF new, op, n
      <3>3. graph = Append(req.graph, new)
        BY DEF new
      <3> HIDE DEF graph
      <3> QED  BY <3>1, <3>2, <3>3, AppendEvidence
    <2> HIDE DEF new, graph
    <2> QED  BY <2>1, <2>2, <2>3
  <1>16. AnswerOK(req')
    BY <1>1, <1>9 DEF AnswerOK
  <1>17. CallOK(req')
    <2>1. req.call \in Call /\ ~Refused(req.call) /\ Graphs(req.call) /\ req.start \in Entity
          /\ req.error # "identity_mismatch"
      BY <1>1 DEF Gathered, CallOK
    <2>2. req.call.op \in Operation
      BY <2>1, CallTyped
    <2> QED  BY <1>1, <1>9, <2>1, <2>2 DEF CallOK, PcBefore
  <1> QED  BY <1>10, <1>14, <1>15, <1>16, <1>17 DEF Gathered

LEMMA FuseGathers ==
    ASSUME Inv, Gathered(req, point, edges), FuseBranches
    PROVE  Gathered(req', point, edges)
  <1>1. /\ req'.answer = Fuse(req.vector, req.graph, req.support, TopK(req.call))
        /\ req'.pc = "done" /\ Kept({"answer", "pc"})
    BY FuseStep DEF Inv
  <1>2. /\ Kept({"pc", "error", "answer"}) /\ req'.vector = req.vector /\ req'.graph = req.graph
        /\ req'.support = req.support /\ req'.call = req.call /\ req'.error = req.error
    BY <1>1 DEF Kept, Fields, Idle
  <1>3. AnswerOK(req')
    BY <1>1, <1>2 DEF AnswerOK
  <1>4. req.pc \in {"fuse", "bridge"}
    BY DEF FuseBranches, BranchesDone
  <1>5. CallOK(req')
    BY <1>1, <1>2, <1>4 DEF Gathered, CallOK, PcBefore
  <1> QED  BY <1>2, <1>3, <1>5, MovesOn

LEMMA RetrieveGathers ==
    ASSUME FullInv, Retrieve
    PROVE  Gathered(req', point, edges)
  <1>1. Inv /\ IsFiniteSet(edges) /\ Gathered(req, point, edges)
    BY DEF FullInv
  <1>2. ASSUME StoreFails PROVE Gathered(req', point, edges)
    <2>1. Fail("unavailable") /\ req.pc # "idle"
      BY <1>2 DEF StoreFails
    <2> QED  BY <1>1, <2>1, FailGathers DEF Error
  <1>3. ASSUME Reply PROVE Gathered(req', point, edges)
    BY <1>3, IdleGathered DEF Reply
  <1> QED  BY <1>1, <1>2, <1>3, BeginGathers, SearchVectorsGathers, ResolveEntityGathers,
              FindEntityGathers, QueryPathsGathers, QueryIncomingGathers, BridgeItemGathers,
              FuseGathers DEF Retrieve

\* A store was written: what was gathered is no longer what is stored, and says so.
LEMMA WriteGathers ==
    ASSUME Inv, Gathered(req, point, edges), Write, NEW points, NEW E
    PROVE  Gathered(req', points, E)
  <1>1. CASE req.pc = "idle"
    <2>1. req' = Idle
      BY <1>1 DEF Write, Gathered, CallOK
    <2> QED  BY <2>1, IdleGathered
  <1>2. CASE req.pc # "idle"
    <2>1. req' = [req EXCEPT !.quiet = FALSE]
      BY <1>2 DEF Write
    <2>2. ~req'.quiet /\ Kept({"quiet"})
      BY <2>1 DEF Inv, RequestOK, Kept, Fields, Idle
    <2>3. /\ req'.vector = req.vector /\ req'.support = req.support /\ req'.paths = req.paths
          /\ req'.todo = req.todo /\ req'.graph = req.graph /\ req'.pc = req.pc
          /\ req'.call = req.call /\ req'.start = req.start /\ req'.error = req.error
          /\ req'.answer = req.answer
      BY <2>2 DEF Kept, Fields, Idle
    <2>4. TextsOK(req', points)
      BY <2>2, <2>3 DEF Gathered, TextsOK
    <2>5. BridgeOK(req', points)
      BY <2>2 DEF BridgeOK
    <2>6. GraphOK(req', Facts)
      BY <2>3, GraphStays DEF Gathered
    <2>7. AnswerOK(req')
      BY <2>3 DEF Gathered, AnswerOK
    <2>8. CallOK(req')
      BY <1>2, <2>3 DEF Gathered, CallOK
    <2> QED  BY <2>2, <2>4, <2>5, <2>6, <2>7, <2>8 DEF Gathered
  <1> QED  BY <1>1, <1>2

\* MERGE adds one relationship, a deletion takes some.
LEMMA IndexGathers ==
    ASSUME FullInv, Index
    PROVE  IsFiniteSet(edges') /\ Gathered(req', point', edges')
  <1>1. Write
    BY DEF Index, UpsertPoint, DeletePoints, DeleteRelationships, UpsertEntity, UpsertRelationship
  <1>2. IsFiniteSet(edges')
    <2>1. ASSUME NEW f, edges' = {e \in edges : RelationshipId(e) # RelationshipId(f)} \cup {f}
          PROVE  IsFiniteSet(edges')
      <3> DEFINE others == {e \in edges : RelationshipId(e) # RelationshipId(f)}
      <3>1. others \subseteq edges
        OBVIOUS
      <3>2. edges' = others \cup {f}
        BY <2>1
      <3> HIDE DEF others
      <3>3. IsFiniteSet(others)
        BY <3>1, FS_Subset DEF FullInv
      <3> QED  BY <3>2, <3>3, FS_AddElement
    <2>2. ASSUME edges' \subseteq edges PROVE IsFiniteSet(edges')
      BY <2>2, FS_Subset DEF FullInv
    <2> QED  BY <2>1, <2>2 DEF Index, UpsertPoint, DeletePoints, DeleteRelationships, UpsertEntity,
                                UpsertRelationship
  <1> QED  BY <1>1, <1>2, WriteGathers DEF FullInv

\* The whole invariant holds at first.
LEMMA FullInitial == Init => FullInv
  <1> SUFFICES ASSUME Init PROVE FullInv
    OBVIOUS
  <1>1. Inv
    BY Initial
  <1>2. IsFiniteSet(edges)
    BY StoresAssumption DEF Init
  <1>3. Gathered(req, point, edges)
    BY IdleGathered DEF Init
  <1> QED  BY <1>1, <1>2, <1>3 DEF FullInv

\* Every step keeps the whole invariant.
LEMMA FullNext == ASSUME FullInv, [Next]_vars PROVE FullInv'
  <1>1. Inv'
    BY NextKeeps DEF FullInv
  <1>2. CASE Retrieve
    <2>1. UNCHANGED stores
      BY <1>2 DEF Retrieve, Begin, SearchVectors, ResolveEntity, FindEntity, QueryPaths,
         QueryIncoming, BridgeItem, FuseBranches, StoreFails, Reply
    <2>2. point' = point /\ edges' = edges
      BY <2>1 DEF stores
    <2>3. Gathered(req', point, edges)
      BY <1>2, RetrieveGathers
    <2> QED  BY <1>1, <2>2, <2>3 DEF FullInv
  <1>3. CASE Index
    BY <1>1, <1>3, IndexGathers DEF FullInv
  <1>4. CASE UNCHANGED vars
    <2>1. point' = point /\ edges' = edges /\ req' = req
      BY <1>4 DEF vars
    <2> QED  BY <1>1, <2>1 DEF FullInv
  <1> QED  BY <1>2, <1>3, <1>4 DEF Next

\* The whole invariant holds always.
LEMMA Invariant == Spec => []FullInv
  BY FullInitial, FullNext, PTL DEF Spec

-----------------------------------------------------------------------------
(* The theorems. *)

\* The types hold; and under any order of the store calls of index requests Neo4j
\* holds a relationship once and only between nodes it has.
THEOREM TypeCorrect == Spec => []TypeOK
  <1>1. FullInv => TypeOK
    BY FactsAssumption DEF FullInv, Inv, StoresOK, RequestOK, TypeOK
  <1> QED  BY <1>1, Invariant, PTL

\* However index requests interleave with a retrieval, the bridge never finds a
\* chunk of another version than that of the relationship naming it.
THEOREM BridgeAgrees == Spec => []VersionsAgree
  <1>1. FullInv => VersionsAgree
    <2> SUFFICES ASSUME FullInv PROVE VersionsAgree
      OBVIOUS
    <2>1. req.error # "identity_mismatch"
      BY DEF FullInv, Gathered, CallOK
    <2>2. ASSUME NEW i \in DOMAIN req.support, NEW j \in DOMAIN req.graph,
                 req.support[i].id \in Range(req.graph[j].supports)
          PROVE  \E k \in DOMAIN req.graph[j].path.edges :
                   req.graph[j].path.edges[k].version = VersionOf[req.support[i].chunk]
      <3> DEFINE item == req.graph[j]  text == req.support[i]  op == req.call.op  n == req.start
      <3>1. IsEvidence(item, Facts, op, n) /\ IsText(text, FALSE)
        BY DEF FullInv, Gathered, GraphOK, AreEvidence, TextsOK, AreTexts
      <3>2. text.id \in Range(item.supports)
        BY <2>2
      <3> HIDE DEF item, text, op, n
      <3>3. PICK c \in Chunk, g \in Generation :
              text = [kind |-> "text", id |-> <<"text", c, g>>, chunk |-> c, scored |-> FALSE]
        BY <3>1 DEF IsText
      <3>4. text.id = <<"text", c, g>> /\ text.chunk = c
        BY <3>3
      <3>5. PICK k \in DOMAIN item.supports : text.id = item.supports[k]
        BY <3>2 DEF Range
      <3>6. PICK d \in Range(item.chunks), h \in Generation : item.supports[k] = <<"text", d, h>>
        BY <3>1 DEF IsEvidence
      <3>7. c \in Range(item.chunks)
        BY <3>4, <3>5, <3>6
      <3>8. Walk(Facts, n, item.path) /\ Facts \in SUBSET Edge /\ IsFiniteSet(Chunk)
        BY <3>1, FactsAssumption, VersionOfAssumption DEF IsEvidence, Walks
      <3>9. item.chunks \in Seq(NamedBy(item.path))
        BY <3>1, <3>8, SourceChunksNamed DEF IsEvidence
      <3>10. c \in NamedBy(item.path)
        <4> DEFINE names == NamedBy(item.path)  list == item.chunks
        <4>1. list \in Seq(names) /\ c \in Range(list)
          BY <3>7, <3>9
        <4> HIDE DEF names, list
        <4>2. c \in names
          BY <4>1, ElementOfSeq, LenProperties DEF Range
        <4> QED  BY <4>2 DEF names
      <3>11. PICK m \in DOMAIN item.path.edges :
               c \in Names(item.path.edges[m]) /\ item.path.edges[m] \in Facts
        BY <3>8, <3>10, VersionExpected
      <3>12. VersionOf[c] = item.path.edges[m].version
        BY <3>11, FactsAssumption DEF Names
      <3> QED  BY <3>4, <3>12 DEF item, text
    <2> QED  BY <2>1, <2>2 DEF VersionsAgree
  <1> QED  BY <1>1, Invariant, PTL

\* Every path of an answer starts at the entity asked for, and each of its
\* relationships joins two neighbouring nodes and is one that Neo4j holds, if no
\* index request wrote meanwhile.
THEOREM PathsStored == Spec => []PathsAreStored
  <1>1. FullInv => PathsAreStored
    <2> SUFFICES ASSUME FullInv, req.quiet, NEW j \in DOMAIN req.graph
                 PROVE  LET path == req.graph[j].path
                        IN  /\ path.nodes[1] = req.start
                            /\ Len(path.nodes) = Len(path.edges) + 1
                            /\ \A k \in DOMAIN path.edges :
                                 /\ path.edges[k] \in edges
                                 /\ {path.nodes[k], path.nodes[k + 1]}
                                      = {path.edges[k].source, path.edges[k].target}
      BY DEF PathsAreStored
    <2> DEFINE path == req.graph[j].path  n == req.start
    <2>1. Walk(edges, n, path)
      BY DEF FullInv, Gathered, GraphOK, AreEvidence, IsEvidence, Walks
    <2> HIDE DEF path, n
    <2>2. CASE \E e \in edges : \E b \in Ends(e) : {n, b} = Ends(e) /\ path = Path(<<n, b>>, <<e>>)
      <3>1. PICK e \in edges : \E b \in Ends(e) : {n, b} = Ends(e) /\ path = Path(<<n, b>>, <<e>>)
        BY <2>2
      <3>2. PICK b \in Ends(e) : {n, b} = Ends(e) /\ path = Path(<<n, b>>, <<e>>)
        BY <3>1
      <3>3. path.nodes = <<n, b>> /\ path.edges = <<e>>
        BY <3>2 DEF Path
      <3>5. /\ path.nodes[1] = n /\ path.nodes[2] = b /\ Len(path.nodes) = 2
            /\ path.edges[1] = e /\ Len(path.edges) = 1 /\ DOMAIN path.edges = {1}
        BY <3>3
      <3>6. path.nodes[1 + 1] = b /\ {n, b} = {e.source, e.target}
        BY <3>2, <3>5 DEF Ends
      <3>4. /\ path.nodes[1] = n /\ Len(path.nodes) = Len(path.edges) + 1
            /\ \A k \in DOMAIN path.edges :
                 /\ path.edges[k] \in edges
                 /\ {path.nodes[k], path.nodes[k + 1]} = {path.edges[k].source, path.edges[k].target}
        BY <3>5, <3>6
      <3> QED  BY <3>4 DEF path, n
    <2>3. CASE \E e, f \in edges : \E b \in Ends(e), c \in Ends(f) :
                 {n, b} = Ends(e) /\ {b, c} = Ends(f) /\ path = Path(<<n, b, c>>, <<e, f>>)
      <3>1. PICK e \in edges, f \in edges : \E b \in Ends(e), c \in Ends(f) :
                   {n, b} = Ends(e) /\ {b, c} = Ends(f) /\ path = Path(<<n, b, c>>, <<e, f>>)
        BY <2>3
      <3>2. PICK b \in Ends(e), c \in Ends(f) :
                   {n, b} = Ends(e) /\ {b, c} = Ends(f) /\ path = Path(<<n, b, c>>, <<e, f>>)
        BY <3>1
      <3>3. path.nodes = <<n, b, c>> /\ path.edges = <<e, f>>
        BY <3>2 DEF Path
      <3>5. /\ path.nodes[1] = n /\ path.nodes[2] = b /\ path.nodes[3] = c /\ Len(path.nodes) = 3
            /\ path.edges[1] = e /\ path.edges[2] = f /\ Len(path.edges) = 2
            /\ DOMAIN path.edges = {1, 2}
        BY <3>3
      <3>6. /\ path.nodes[1 + 1] = b /\ {n, b} = {e.source, e.target}
            /\ path.nodes[2 + 1] = c /\ {b, c} = {f.source, f.target}
        BY <3>2, <3>5 DEF Ends
      <3>4. /\ path.nodes[1] = n /\ Len(path.nodes) = Len(path.edges) + 1
            /\ \A k \in DOMAIN path.edges :
                 /\ path.edges[k] \in edges
                 /\ {path.nodes[k], path.nodes[k + 1]} = {path.edges[k].source, path.edges[k].target}
        BY <3>5, <3>6
      <3> QED  BY <3>4 DEF path, n
    <2> QED  BY <2>1, <2>2, <2>3 DEF Walk
  <1> QED  BY <1>1, Invariant, PTL

-----------------------------------------------------------------------------
(* The answer: what fusion makes of what was gathered. *)

\* What a text is.
LEMMA TextFields ==
    ASSUME NEW text, NEW scored, IsText(text, scored)
    PROVE  /\ text.kind = "text" /\ text.scored = scored /\ text.chunk \in Chunk
           /\ \E g \in Generation : text.id = <<"text", text.chunk, g>>
  <1>1. PICK c \in Chunk, g \in Generation :
          text = [kind |-> "text", id |-> <<"text", c, g>>, chunk |-> c, scored |-> scored]
    BY DEF IsText
  <1> DEFINE id == <<"text", c, g>>
  <1>2. text = [kind |-> "text", id |-> id, chunk |-> c, scored |-> scored]
    BY <1>1
  <1> HIDE DEF id
  <1>3. text.kind = "text" /\ text.scored = scored /\ text.chunk = c /\ text.id = id
    BY <1>2
  <1> QED  BY <1>3 DEF id

\* Graph evidence is no text.
LEMMA EvidenceKind ==
    ASSUME NEW item, NEW E, NEW op, NEW n, IsEvidence(item, E, op, n)
    PROVE  item.kind # "text"
  <1> DEFINE p == item.path
  <1>1. item.kind = PathEvidence(op, p).kind
    BY DEF IsEvidence
  <1> HIDE DEF p
  <1>2. PathEvidence(op, p).kind = IF Len(p.edges) = 1 THEN "relationship" ELSE "path"
    BY DEF PathEvidence
  <1>3. PathEvidence(op, p).kind # "text"
    BY <1>2
  <1> QED  BY <1>1, <1>3

Evidence == Range(req.vector) \cup Range(req.graph) \cup Range(req.support)

\* The lists that are fused, as the invariant has them.
LEMMA EvidenceGathered ==
    ASSUME FullInv
    PROVE  /\ req.vector \in Seq(Evidence) /\ Len(req.vector) <= MaxRank
           /\ req.graph \in Seq(Evidence) /\ Len(req.graph) <= MaxRank
           /\ req.support \in Seq(Evidence)
           /\ \A x \in Evidence : Digest(x.id) \in Int
           /\ \A i \in DOMAIN req.vector : IsText(req.vector[i], TRUE)
           /\ \A i \in DOMAIN req.support : IsText(req.support[i], FALSE)
           /\ \A i \in DOMAIN req.graph : IsEvidence(req.graph[i], Facts, req.call.op, req.start)
  <1> DEFINE v == req.vector  g == req.graph  s == req.support  op == req.call.op  n == req.start
  <1>1. /\ AreTexts(v, TRUE) /\ AreTexts(s, FALSE) /\ Len(v) <= VectorMaxTopK
        /\ AreEvidence(g, Facts, op, n) /\ AreEvidence(req.todo, Facts, op, n)
        /\ Len(req.todo) + Len(g) <= MaxLimit
        /\ g # <<>> => op \in Operation
    BY DEF FullInv, Gathered, TextsOK, GraphOK, CallOK
  <1> HIDE DEF v, g, s, op, n
  <1>2. /\ v \in Seq(Range(v)) /\ g \in Seq(Range(g)) /\ s \in Seq(Range(s))
        /\ req.todo \in Seq(Range(req.todo))
    BY <1>1 DEF AreTexts, AreEvidence
  <1> DEFINE X == Range(v) \cup Range(g) \cup Range(s)
  <1>3. v \in Seq(X) /\ g \in Seq(X) /\ s \in Seq(X)
    BY <1>2, SeqMonotonic
  <1>4. Len(v) <= MaxRank /\ Len(g) <= MaxRank
    <2>1. Len(v) \in Nat /\ Len(g) \in Nat /\ Len(req.todo) \in Nat
      BY <1>2, LenProperties
    <2>2. /\ VectorMaxTopK \in Nat /\ MaxLimit \in Nat /\ MaxRank \in Nat
          /\ VectorMaxTopK <= MaxRank /\ MaxLimit <= MaxRank
      BY BoundsAssumption, RrfAssumption
    <2> QED  BY <1>1, <2>1, <2>2
  <1>5. /\ \A i \in DOMAIN v : IsText(v[i], TRUE)
        /\ \A i \in DOMAIN s : IsText(s[i], FALSE)
        /\ \A i \in DOMAIN g : IsEvidence(g[i], Facts, op, n)
    BY <1>1 DEF AreTexts, AreEvidence
  <1>6. ASSUME NEW x, NEW scored, IsText(x, scored) PROVE Digest(x.id) \in Int
    <2>1. x.chunk \in Chunk
      BY <1>6, TextFields
    <2>2. PICK h \in Generation : x.id = <<"text", x.chunk, h>>
      BY <1>6, TextFields
    <2>3. Digest(<<"text", x.chunk, h>>) \in Nat
      BY <2>1, DigestAssumption
    <2> QED  BY <2>2, <2>3
  <1>7. ASSUME NEW i \in DOMAIN g PROVE Digest(g[i].id) \in Int
    <2> DEFINE x == g[i]  p == x.path
    <2>1. IsEvidence(x, Facts, op, n)
      BY <1>5
    <2>2. g # <<>>
      OBVIOUS
    <2>3. op \in Operation
      BY <1>1, <2>2
    <2> HIDE DEF x
    <2>4. Walk(Facts, n, p) /\ x.id = PathEvidence(op, p).id
      BY <2>1 DEF IsEvidence, Walks
    <2> HIDE DEF p
    <2>5. Digest(PathEvidence(op, p).id) \in Nat
      BY <2>3, <2>4, DigestTyped
    <2>6. Digest(x.id) \in Nat
      BY <2>4, <2>5
    <2> QED  BY <2>6 DEF x
  <1>8. \A x \in X : Digest(x.id) \in Int
    <2> SUFFICES ASSUME NEW x \in X PROVE Digest(x.id) \in Int
      OBVIOUS
    <2>1. \/ \E i \in DOMAIN v : x = v[i]
          \/ \E i \in DOMAIN g : x = g[i]
          \/ \E i \in DOMAIN s : x = s[i]
      BY DEF Range
    <2> QED  BY <1>5, <1>6, <1>7, <2>1
  <1> HIDE DEF X
  <1> QED  BY <1>3, <1>4, <1>5, <1>8 DEF X, Evidence, v, g, s, op, n

\* An answer is the beginning of the ranking.
LEMMA AnswerListed ==
    ASSUME FullInv, Answered("retrieve"), NEW R, R = Ranking(req.vector, req.graph, req.support)
    PROVE  /\ RankingOf(R, req.vector, req.graph, req.support)
           /\ DOMAIN req.answer = 1..Len(req.answer) /\ TopK(req.call) \in Nat /\ Len(R) \in Nat
           /\ Len(req.answer) = IF Len(R) < TopK(req.call) THEN Len(R) ELSE TopK(req.call)
           /\ \A i \in DOMAIN req.answer : i \in 1..Len(R) /\ req.answer[i] = R[i]
  <1> DEFINE v == req.vector  g == req.graph  s == req.support  k == TopK(req.call)
  <1>1. RankingOf(R, v, g, s)
    BY EvidenceGathered, RankingList
  <1>2. req.pc = "done" /\ req.call.endpoint = "retrieve"
    BY DEF Answered
  <1>3. req.call \in Call /\ req.answer = Fuse(v, g, s, k)
    BY <1>2 DEF FullInv, Gathered, CallOK, AnswerOK
  <1>4. k \in Nat
    BY <1>3, CallTyped
  <1>5. Len(R) \in Nat
    BY <1>1, LenProperties DEF RankingOf
  <1> HIDE DEF v, g, s, k
  <1>6. R = Ranking(v, g, s)
    BY DEF v, g, s
  <1>7. /\ DOMAIN req.answer = 1..Len(req.answer)
        /\ Len(req.answer) = IF Len(R) < k THEN Len(R) ELSE k
        /\ \A i \in 1..Len(req.answer) : i \in 1..Len(R) /\ req.answer[i] = R[i]
    BY <1>1, <1>3, <1>4, <1>6, FuseList
  <1> QED  BY <1>1, <1>4, <1>5, <1>7 DEF v, g, s, k

\* An item of the answer is what was registered under its id.
LEMMA AnswerItem ==
    ASSUME FullInv, Answered("retrieve"), NEW i \in DOMAIN req.answer, NEW x, x = req.answer[i].item
    PROVE  /\ x.id \in Ids(req.vector) =>
                \E k \in DOMAIN req.vector : x = req.vector[k]
           /\ x.id \notin Ids(req.vector) =>
                \/ \E k \in DOMAIN req.graph : x = req.graph[k]
                \/ \E k \in DOMAIN req.support : x = req.support[k]
           /\ req.answer[i] = Fused(req.vector, req.graph, req.support, x.id)
  <1> DEFINE v == req.vector  g == req.graph  s == req.support  R == Ranking(v, g, s)
             all == (v \o g) \o s
  <1>1. RankingOf(R, v, g, s) /\ i \in 1..Len(R) /\ req.answer[i] = R[i]
    BY AnswerListed
  <1>2. v \in Seq(Evidence) /\ g \in Seq(Evidence) /\ s \in Seq(Evidence)
    BY EvidenceGathered
  <1> HIDE DEF v, g, s, R
  <1>3. x.id \in Ids(all) /\ R[i] = Fused(v, g, s, x.id)
    BY <1>1 DEF RankingOf
  <1>4. x = Registered(v, g, s, x.id)
    <2> DEFINE id == x.id
    <2>1. x = Fused(v, g, s, id).item
      BY <1>1, <1>3
    <2> HIDE DEF id
    <2>2. Fused(v, g, s, id).item = Registered(v, g, s, id)
      BY DEF Fused
    <2> QED  BY <2>1, <2>2 DEF id
  <1>5. DOMAIN v = 1..Len(v) /\ DOMAIN g = 1..Len(g) /\ DOMAIN s = 1..Len(s)
    BY <1>2, LenProperties
  <1> DEFINE id == x.id
  <1>6. id \in Ids(all) /\ x = Registered(v, g, s, id)
    BY <1>3, <1>4
  <1> HIDE DEF id
  <1>7. /\ id \in Ids(v) => \E k \in DOMAIN v : x = v[k]
        /\ id \notin Ids(v) => (\E k \in DOMAIN g : x = g[k]) \/ (\E k \in DOMAIN s : x = s[k])
    BY <1>2, <1>5, <1>6, RegisteredFirst
  <1> QED  BY <1>1, <1>3, <1>7 DEF v, g, s, id

\* An answer has no id twice; one that is not full has all support texts.
LEMMA AnswerIds ==
    ASSUME FullInv, Answered("retrieve")
    PROVE  /\ \A i, j \in DOMAIN req.answer : req.answer[i].item.id = req.answer[j].item.id => i = j
           /\ Len(req.answer) < TopK(req.call)
                => \A id \in Ids(req.support) : \E i \in DOMAIN req.answer : req.answer[i].item.id = id
  <1> DEFINE v == req.vector  g == req.graph  s == req.support  R == Ranking(v, g, s)
  <1>1. /\ RankingOf(R, v, g, s)
        /\ DOMAIN req.answer = 1..Len(req.answer) /\ TopK(req.call) \in Nat /\ Len(R) \in Nat
        /\ Len(req.answer) = IF Len(R) < TopK(req.call) THEN Len(R) ELSE TopK(req.call)
        /\ \A i \in DOMAIN req.answer : i \in 1..Len(R) /\ req.answer[i] = R[i]
    BY AnswerListed
  <1>2. Ids(s) \subseteq Ids((v \o g) \o s)
    BY EvidenceGathered, JoinedIds
  <1> HIDE DEF v, g, s, R
  <1>3. \A i, j \in DOMAIN req.answer : req.answer[i].item.id = req.answer[j].item.id => i = j
    BY <1>1 DEF RankingOf
  <1>4. ASSUME Len(req.answer) < TopK(req.call), NEW id \in Ids(s)
        PROVE  \E i \in DOMAIN req.answer : req.answer[i].item.id = id
    <2>1. PICK i \in 1..Len(R) : R[i].item.id = id
      BY <1>1, <1>2 DEF RankingOf
    <2>2. Len(req.answer) = Len(R)
      BY <1>1, <1>4
    <2> QED  BY <1>1, <2>1, <2>2
  <1> QED  BY <1>3, <1>4 DEF s

\* If no index request wrote meanwhile, what the bridge says of a graph item is true
\* of the points there are, and the texts it attached are in the answer, each once.
THEOREM BridgeTells == Spec => []ProvenanceTold
  <1>1. FullInv => ProvenanceTold
    <2> SUFFICES ASSUME FullInv, Answered("retrieve"), req.quiet
                 PROVE  ProvenanceTold
      BY DEF ProvenanceTold
    <2> DEFINE ids == {req.answer[i].item.id : i \in DOMAIN req.answer}
    <2>1. Inv /\ Gathered(req, point, edges) /\ req.call.endpoint = "retrieve"
      BY DEF FullInv, Answered
    <2>2. ASSUME NEW j \in DOMAIN req.graph
          PROVE  LET item == req.graph[j]
                     wanted == Limited(item.chunks, MaxSupportingChunks)
                     stored == Picked(wanted, Stored)
                 IN  /\ wanted # <<>> => (item.complete <=> Range(wanted) \subseteq Stored)
                     /\ item.supports = [i \in DOMAIN stored |-> <<"text", stored[i], point[stored[i]]>>]
                     /\ Len(req.answer) < TopK(req.call) => Range(item.supports) \subseteq ids
      <3> DEFINE item == req.graph[j]
                 wanted == Limited(item.chunks, MaxSupportingChunks)
                 stored == Picked(wanted, Stored)
                 op == req.call.op
                 n == req.start
      <3>1. Told(item, req.support, point)
        BY <2>1 DEF Gathered, BridgeOK
      <3>2. Stored = StoredIn(point)
        BY DEF Stored, StoredIn
      <3>3. /\ item.supports = [i \in DOMAIN stored |-> <<"text", stored[i], point[stored[i]]>>]
            /\ wanted # <<>> => (item.complete <=> stored = wanted)
            /\ Range(item.supports) \subseteq Ids(req.support)
        BY <3>1, <3>2 DEF Told
      <3>4. IsEvidence(item, Facts, op, n) /\ Facts \in SUBSET Facts
        BY EvidenceGathered
      <3>5. wanted \in Seq(NamedBy(item.path))
        <4> HIDE DEF item, op, n
        <4> QED  BY <2>1, <3>4, ChunksFound
      <3>6. stored = wanted <=> Range(wanted) \subseteq Stored
        <4> HIDE DEF wanted, item
        <4>1. stored = wanted <=> \A k \in 1..Len(wanted) : wanted[k] \in Stored
          BY <3>5, PickedAll
        <4>2. DOMAIN wanted = 1..Len(wanted)
          BY <3>5, LenProperties
        <4> QED  BY <4>1, <4>2 DEF Range
      <3>7. Len(req.answer) < TopK(req.call) => Range(item.supports) \subseteq ids
        <4> HIDE DEF item
        <4> QED  BY <3>3, AnswerIds
      <3> HIDE DEF stored, wanted, item, ids
      <3>8. /\ wanted # <<>> => (item.complete <=> Range(wanted) \subseteq Stored)
            /\ item.supports = [i \in DOMAIN stored |-> <<"text", stored[i], point[stored[i]]>>]
            /\ Len(req.answer) < TopK(req.call) => Range(item.supports) \subseteq ids
        BY <3>3, <3>6, <3>7
      <3> QED  BY <3>8 DEF stored, wanted, item
    <2>3. ASSUME NEW i \in DOMAIN req.answer, req.answer[i].item.kind = "text"
          PROVE  req.answer[i].item.id
                   = <<"text", req.answer[i].item.chunk, point[req.answer[i].item.chunk]>>
      <3> DEFINE x == req.answer[i].item
      <3>1. \/ \E k \in DOMAIN req.vector : x = req.vector[k]
            \/ \E k \in DOMAIN req.graph : x = req.graph[k]
            \/ \E k \in DOMAIN req.support : x = req.support[k]
        BY AnswerItem
      <3>2. \A k \in DOMAIN req.graph : req.graph[k].kind # "text"
        BY EvidenceGathered, EvidenceKind
      <3>3. /\ \A k \in DOMAIN req.vector : Current(req.vector[k], point)
            /\ \A k \in DOMAIN req.support : Current(req.support[k], point)
        BY <2>1 DEF Gathered, TextsOK
      <3>4. x.kind = "text"
        BY <2>3
      <3> HIDE DEF x
      <3>5. Current(x, point)
        BY <3>1, <3>2, <3>3, <3>4
      <3> QED  BY <3>5 DEF Current, x
    <2>4. ASSUME NEW i \in DOMAIN req.answer, NEW j \in DOMAIN req.answer,
                 req.answer[i].item.kind = "text", req.answer[j].item.kind = "text",
                 req.answer[i].item.chunk = req.answer[j].item.chunk
          PROVE  i = j
      <3>1. req.answer[i].item.id = req.answer[j].item.id
        BY <2>3, <2>4
      <3> QED  BY <3>1, AnswerIds
    <2> QED  BY <2>2, <2>4 DEF ProvenanceTold
  <1> QED  BY <1>1, Invariant, PTL

\* An id is at most once in a list that repeats none, and its part of the score is
\* the weight of that place.
LEMMA OneRank ==
    ASSUME NEW X, NEW list \in Seq(X), Len(list) <= MaxRank, NoRepeats(list), NEW id
    PROVE  \/ /\ RanksOf(list, id) = {} /\ FirstRank(list, id) = NoRank
              /\ SumOf(RanksOf(list, id)) = 0
           \/ /\ FirstRank(list, id) \in 1..MaxRank /\ RanksOf(list, id) = {FirstRank(list, id)}
              /\ SumOf(RanksOf(list, id)) = Weight(FirstRank(list, id))
  <1> DEFINE ranks == RanksOf(list, id)
  <1>1. ranks \in SUBSET (1..MaxRank)
    BY RanksTyped
  <1>2. \A i, j \in ranks : i = j
    BY DEF RanksOf, NoRepeats
  <1>3. CASE ranks = {}
    BY <1>3, SumOfNone DEF FirstRank
  <1>4. CASE ranks # {}
    <2>1. PICK r \in ranks : TRUE
      BY <1>4
    <2>2. ranks = {r} /\ r \in 1..MaxRank
      BY <1>1, <1>2, <2>1
    <2>3. FirstRank(list, id) = CHOOSE q \in ranks : \A p \in ranks : q <= p
      BY <1>4 DEF FirstRank
    <2> HIDE DEF ranks
    <2>4. (CHOOSE q \in ranks : \A p \in ranks : q <= p) \in ranks
      <3>1. r \in ranks /\ \A p \in ranks : r <= p
        BY <2>2, RrfAssumption
      <3> DEFINE P(q) == \A p \in ranks : q <= p
      <3>2. \E q \in ranks : P(q)
        BY <3>1
      <3> HIDE DEF P
      <3>3. (CHOOSE q \in ranks : P(q)) \in ranks
        BY <3>2
      <3> QED  BY <3>3 DEF P
    <2>5. FirstRank(list, id) = r
      BY <2>2, <2>3, <2>4
    <2>6. SumOf({r}) = Weight(r)
      BY <2>2, SumOfOne
    <2> QED  BY <2>2, <2>5, <2>6 DEF ranks
  <1> QED  BY <1>3, <1>4

\* The earlier in a list, the more it adds to the score.
LEMMA RanksOrdered ==
    ASSUME NEW X, NEW list \in Seq(X), Len(list) <= MaxRank, NoRepeats(list), NEW a, NEW b
    PROVE  /\ FirstRank(list, a) \in Nat /\ FirstRank(list, b) \in Nat
           /\ FirstRank(list, a) = FirstRank(list, b) => SumOf(RanksOf(list, a)) = SumOf(RanksOf(list, b))
           /\ FirstRank(list, a) < FirstRank(list, b) => SumOf(RanksOf(list, b)) < SumOf(RanksOf(list, a))
  <1> DEFINE p == FirstRank(list, a)  q == FirstRank(list, b)
             x == SumOf(RanksOf(list, a))  y == SumOf(RanksOf(list, b))
  <1>1. \/ p = NoRank /\ x = 0
        \/ p \in 1..MaxRank /\ x = Weight(p)
    BY OneRank
  <1>2. \/ q = NoRank /\ y = 0
        \/ q \in 1..MaxRank /\ y = Weight(q)
    BY OneRank
  <1>3. MaxRank \in Nat /\ NoRank \in Nat /\ MaxRank < NoRank
    BY RrfAssumption DEF NoRank
  <1> HIDE DEF p, q, x, y
  <1>4. p \in Nat /\ q \in Nat
    BY <1>1, <1>2, <1>3
  <1>5. \A r \in 1..MaxRank : r < NoRank /\ r # NoRank
    BY <1>3
  <1>6. p = q => x = y
    BY <1>1, <1>2, <1>5
  <1>7. ASSUME p < q PROVE y < x
    <2>1. p \in 1..MaxRank /\ x = Weight(p)
      BY <1>1, <1>2, <1>3, <1>7
    <2>2. CASE q = NoRank /\ y = 0
      <3>1. Weight(p) \in Nat \ {0}
        BY <2>1, WeightTyped
      <3> QED  BY <2>1, <2>2, <3>1
    <2>3. CASE q \in 1..MaxRank /\ y = Weight(q)
      BY <1>7, <2>1, <2>3, WeightFalls
    <2> QED  BY <1>2, <2>2, <2>3
  <1> QED  BY <1>4, <1>6, <1>7 DEF p, q, x, y

\* The vector list repeats no id.
LEMMA VectorOnce == ASSUME FullInv PROVE NoRepeats(req.vector)
  <1> SUFFICES ASSUME NEW i \in DOMAIN req.vector, NEW j \in DOMAIN req.vector,
                      req.vector[i].id = req.vector[j].id
               PROVE  i = j
    BY DEF NoRepeats
  <1> DEFINE x == req.vector[i]  y == req.vector[j]
  <1>1. IsText(x, TRUE) /\ IsText(y, TRUE)
    BY EvidenceGathered
  <1>2. x.id = y.id
    OBVIOUS
  <1> HIDE DEF x, y
  <1>3. PICK g \in Generation : x.id = <<"text", x.chunk, g>>
    BY <1>1, TextFields
  <1>4. PICK h \in Generation : y.id = <<"text", y.chunk, h>>
    BY <1>1, TextFields
  <1>5. x.chunk = y.chunk
    <2>1. \A c, d : <<"text", c, g>> = <<"text", d, h>> => c = d
      OBVIOUS
    <2>2. <<"text", x.chunk, g>> = <<"text", y.chunk, h>>
      BY <1>2, <1>3, <1>4
    <2> QED  BY <2>1, <2>2
  <1> QED  BY <1>5 DEF x, y, FullInv, Gathered, TextsOK

\* Evidence that no branch ranks lower and some branch ranks higher scores higher.
LEMMA ScoresFollowRanks ==
    ASSUME FullInv, NoRepeats(req.graph), NEW a, NEW b,
           FirstRank(req.vector, a) <= FirstRank(req.vector, b),
           FirstRank(req.graph, a) <= FirstRank(req.graph, b),
           <<FirstRank(req.vector, a), FirstRank(req.graph, a)>>
             # <<FirstRank(req.vector, b), FirstRank(req.graph, b)>>
    PROVE  /\ Score(req.vector, req.graph, a) \in Nat /\ Score(req.vector, req.graph, b) \in Nat
           /\ Score(req.vector, req.graph, b) < Score(req.vector, req.graph, a)
  <1> DEFINE v == req.vector  g == req.graph
             p == FirstRank(v, a)  q == FirstRank(v, b)  r == FirstRank(g, a)  t == FirstRank(g, b)
             pv == SumOf(RanksOf(v, a))  qv == SumOf(RanksOf(v, b))
             rg == SumOf(RanksOf(g, a))  tg == SumOf(RanksOf(g, b))
  <1>1. v \in Seq(Evidence) /\ Len(v) <= MaxRank /\ g \in Seq(Evidence) /\ Len(g) <= MaxRank
    BY EvidenceGathered
  <1>2. NoRepeats(v) /\ NoRepeats(g)
    BY VectorOnce
  <1>3. p <= q /\ r <= t /\ (p # q \/ r # t)
    OBVIOUS
  <1> HIDE DEF v, g
  <1>4. /\ p \in Nat /\ q \in Nat
        /\ p = q => pv = qv
        /\ p < q => qv < pv
    BY <1>1, <1>2, RanksOrdered
  <1>5. /\ r \in Nat /\ t \in Nat
        /\ r = t => rg = tg
        /\ r < t => tg < rg
    BY <1>1, <1>2, RanksOrdered
  <1>6. /\ Score(v, g, a) = pv + rg /\ pv \in Nat /\ rg \in Nat
        /\ Score(v, g, b) = qv + tg /\ qv \in Nat /\ tg \in Nat
    BY <1>1, ScoreTyped
  <1> HIDE DEF p, q, r, t, pv, qv, rg, tg
  <1>7. pv + rg \in Nat /\ qv + tg \in Nat /\ qv + tg < pv + rg
    BY <1>3, <1>4, <1>5, <1>6
  <1> QED  BY <1>6, <1>7 DEF v, g

\* Fusion keeps the order of the branches, and a text both branches found carries the
\* similarity of the vector hit.
THEOREM FusionKeepsRanks == Spec => []RanksRespected
  <1>1. FullInv => RanksRespected
    <2> SUFFICES ASSUME FullInv, Answered("retrieve"), NoRepeats(req.graph)
                 PROVE  RanksRespected
      BY DEF RanksRespected
    <2> DEFINE R == Ranking(req.vector, req.graph, req.support)
    <2>1. ASSUME NEW i \in DOMAIN req.answer, NEW j \in DOMAIN req.answer, NEW a, NEW b,
                 a = req.answer[i].item.id, b = req.answer[j].item.id,
                 FirstRank(req.vector, a) <= FirstRank(req.vector, b),
                 FirstRank(req.graph, a) <= FirstRank(req.graph, b),
                 <<FirstRank(req.vector, a), FirstRank(req.graph, a)>>
                   # <<FirstRank(req.vector, b), FirstRank(req.graph, b)>>
          PROVE  i < j
      <3> DEFINE x == Score(req.vector, req.graph, a)  y == Score(req.vector, req.graph, b)
      <3>1. x \in Nat /\ y \in Nat /\ y < x
        BY <2>1, ScoresFollowRanks
      <3>2. req.answer[i].score = x /\ req.answer[j].score = y
        <4>1. /\ req.answer[i] = Fused(req.vector, req.graph, req.support, a)
              /\ req.answer[j] = Fused(req.vector, req.graph, req.support, b)
          BY <2>1, AnswerItem
        <4>2. /\ Fused(req.vector, req.graph, req.support, a).score = x
              /\ Fused(req.vector, req.graph, req.support, b).score = y
          BY DEF Fused
        <4> QED  BY <4>1, <4>2
      <3>3. /\ RankingOf(R, req.vector, req.graph, req.support) /\ Len(R) \in Nat
            /\ i \in 1..Len(R) /\ j \in 1..Len(R) /\ req.answer[i] = R[i] /\ req.answer[j] = R[j]
        BY AnswerListed
      <3> HIDE DEF x, y, R
      <3>4. i # j
        BY <3>1, <3>2
      <3>5. Lexicographic(SortKey(R[i]), SortKey(R[j]))
        <4> DEFINE s == SortKey(R[i])  t == SortKey(R[j])
        <4>1. s = <<0 - x, R[i].best, Digest(R[i].item.id)>> /\ t = <<0 - y, R[j].best, Digest(R[j].item.id)>>
          BY <3>2, <3>3 DEF SortKey
        <4>2. 0 - x < 0 - y
          BY <3>1
        <4>3. 1 \in DOMAIN s /\ s[1] < t[1]
          BY <4>1, <4>2
        <4>4. \A k \in 1..(1 - 1) : s[k] = t[k]
          OBVIOUS
        <4> HIDE DEF s, t
        <4>5. Lexicographic(s, t)
          BY <4>3, <4>4 DEF Lexicographic
        <4> QED  BY <4>5 DEF s, t
      <3>6. ~(j < i)
        BY <3>3, <3>5 DEF RankingOf
      <3> QED  BY <3>3, <3>4, <3>6
    <2>2. ASSUME NEW i \in DOMAIN req.answer, req.answer[i].item.kind = "text"
          PROVE  req.answer[i].item.scored <=> "vector" \in req.answer[i].branches
      <3> DEFINE x == req.answer[i].item  id == x.id
                 f == Fused(req.vector, req.graph, req.support, id)
      <3>1. /\ id \in Ids(req.vector) => \E k \in DOMAIN req.vector : x = req.vector[k]
            /\ id \notin Ids(req.vector) => \/ \E k \in DOMAIN req.graph : x = req.graph[k]
                                            \/ \E k \in DOMAIN req.support : x = req.support[k]
            /\ req.answer[i] = f
        BY AnswerItem
      <3>2. f.branches = (IF id \in Ids(req.vector) THEN {"vector"} ELSE {})
                           \cup (IF id \in Ids(req.graph) THEN {"graph"} ELSE {})
                           \cup (IF id \in Ids(req.support) THEN {"graph_support"} ELSE {})
        BY DEF Fused
      <3>3. x.kind = "text"
        BY <2>2
      <3> HIDE DEF x, id, f
      <3>4. "vector" \in f.branches <=> id \in Ids(req.vector)
        BY <3>2
      <3>5. CASE id \in Ids(req.vector)
        <4>1. IsText(x, TRUE)
          BY <3>1, <3>5, EvidenceGathered
        <4>2. x.scored = TRUE
          BY <4>1, TextFields
        <4> QED  BY <3>1, <3>4, <3>5, <4>2 DEF x
      <3>6. CASE id \notin Ids(req.vector)
        <4>1. \A k \in DOMAIN req.graph : req.graph[k].kind # "text"
          BY EvidenceGathered, EvidenceKind
        <4>2. IsText(x, FALSE)
          BY <3>1, <3>3, <3>6, <4>1, EvidenceGathered
        <4>3. x.scored = FALSE
          BY <4>2, TextFields
        <4> QED  BY <3>1, <3>4, <3>6, <4>3 DEF x
      <3> QED  BY <3>5, <3>6
    <2> QED  BY <2>1, <2>2 DEF RanksRespected
  <1> QED  BY <1>1, Invariant, PTL
=============================================================================
