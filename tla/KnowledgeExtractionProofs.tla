----------------------- MODULE KnowledgeExtractionProofs -----------------------
(***************************************************************************)
(* Proofs about KnowledgeExtraction, for any documents, answers of the LLM *)
(* and aliases.  In this order:                                            *)
(*   - recursion and induction over the length of a list, and the lists    *)
(*     that Ordering, grouping and flattening make;                        *)
(*   - parsing and chunking: what a chunk of a paper is made of;           *)
(*   - extraction: the entities and relationships of an artifact, by the   *)
(*     proposals and citations they stand for;                             *)
(*   - indexing: resolution and merging, and what is stored;               *)
(*   - the invariant and the theorems about the graph;                     *)
(*   - the text, word by word: what flattening makes of parts, the units   *)
(*     and their packing, overlap and merge, what cleaning and recovering  *)
(*     sections keep of a document, and the theorem about chunks.          *)
(***************************************************************************)
EXTENDS KnowledgeExtraction, FiniteSetTheorems, WellFoundedInduction, SequenceTheorems, TLAPS

-----------------------------------------------------------------------------
(* Numbers. *)

\* A non-empty set of numbers has a smallest one: the sets of predecessors are
\* well-founded by strict inclusion.
LEMMA SmallestNumber ==
    ASSUME NEW S \in SUBSET Nat, S # {}
    PROVE  \E i \in S : \A j \in S : i <= j
  <1> DEFINE Below == {0..i : i \in S}
  <1>1. Below \subseteq FiniteSubsetsOf(Nat) /\ Below # {}
    <2>1. \A i \in S : IsFiniteSet(0..i)
      BY FS_Interval
    <2>2. \A i \in S : 0..i \in FiniteSubsetsOf(Nat)
      BY <2>1 DEF FiniteSubsetsOf
    <2> QED  BY <2>2
  <1>2. \E I \in Below : \A J \in Below : ~(<<J, I>> \in StrictSubsetOrdering(Nat))
    <2> HIDE DEF Below
    <2>1. IsWellFoundedOn(StrictSubsetOrdering(Nat), FiniteSubsetsOf(Nat))
      BY FS_StrictSubsetOrderingWellFounded
    <2> QED  BY <1>1, <2>1, WFMin, Zenon
  <1>3. PICK i \in S : \A J \in Below : ~(<<J, 0..i>> \in StrictSubsetOrdering(Nat))
    BY <1>2
  <1>4. ASSUME NEW j \in S, j < i PROVE FALSE
    <2>1. 0..j \subseteq 0..i /\ 0..j # 0..i
      BY <1>4
    <2>2. 0..j \in Below
      OBVIOUS
    <2>3. <<0..j, 0..i>> \in StrictSubsetOrdering(Nat)
      BY <2>1 DEF StrictSubsetOrdering
    <2> QED  BY <1>3, <2>2, <2>3
  <1> QED  BY <1>4

\* Induction over the numbers up to n.
LEMMA Induction ==
    ASSUME NEW n \in Nat, NEW P \in SUBSET (0..n), 0 \in P,
           \A i \in 1..n : i - 1 \in P => i \in P
    PROVE  P = 0..n
  <1> DEFINE S == (0..n) \ P
  <1>1. ASSUME S # {} PROVE FALSE
    <2>1. S \in SUBSET Nat
      OBVIOUS
    <2>2. PICK i \in S : \A j \in S : i <= j
      BY <1>1, <2>1, SmallestNumber
    <2>3. i \in 1..n /\ i - 1 \in 0..n /\ ~(i <= i - 1)
      OBVIOUS
    <2>4. i - 1 \in P
      BY <2>2, <2>3
    <2> QED  BY <2>3, <2>4
  <1> QED  BY <1>1

\* f is the recursive function over the numbers up to n that starts at a.
Solves(f, n, A, a, step) ==
    f \in [0..n -> A] /\ f[0] = a /\ \A i \in 1..n : f[i] = step[<<f[i - 1], i>>]

\* What a recursive function over the numbers up to n is, given what one step does.
LEMMA Recursion ==
    ASSUME NEW n \in Nat, NEW A, NEW a \in A, NEW step \in [A \X (1..n) -> A]
    PROVE  \E f : Solves(f, n, A, a, step)
  <1> DEFINE Has(m, f) == /\ f \in [0..m -> A]
                          /\ f[0] = a /\ \A i \in 1..m : f[i] = step[<<f[i - 1], i>>]
             P == {m \in 0..n : \E f : Has(m, f)}
  <1>1. 0 \in P
    <2> DEFINE z == [i \in 0..0 |-> a]
    <2>1. z \in [0..0 -> A] /\ z[0] = a /\ \A i \in 1..0 : FALSE
      OBVIOUS
    <2> HIDE DEF z
    <2>2. Has(0, z)
      BY <2>1
    <2> QED  BY <2>2
  <1>2. ASSUME NEW m \in 1..n, m - 1 \in P PROVE m \in P
    <2>1. PICK f : Has(m - 1, f)
      BY <1>2
    <2> DEFINE g == [i \in 0..m |-> IF i = m THEN step[<<f[m - 1], m>>] ELSE f[i]]
    <2>2. m - 1 \in 0..(m - 1) /\ \A i \in 0..m : i # m => i \in 0..(m - 1)
      OBVIOUS
    <2>3. f[m - 1] \in A
      BY <2>1, <2>2
    <2>4. step[<<f[m - 1], m>>] \in A
      BY <2>3
    <2>5. g \in [0..m -> A]
      BY <2>1, <2>2, <2>4
    <2>6. g[0] = a
      BY <2>1
    <2>7. \A i \in 1..m : g[i] = step[<<g[i - 1], i>>]
      <3> SUFFICES ASSUME NEW i \in 1..m PROVE g[i] = step[<<g[i - 1], i>>]
        OBVIOUS
      <3>1. g[i - 1] = f[i - 1]
        OBVIOUS
      <3>2. CASE i = m
        <4>1. g[m] = step[<<f[m - 1], m>>]
          OBVIOUS
        <4> HIDE DEF g
        <4> QED  BY <3>1, <3>2, <4>1
      <3>3. CASE i # m
        <4>1. i \in 1..(m - 1)
          BY <3>3
        <4> QED  BY <2>1, <3>1, <4>1
      <3> QED  BY <3>2, <3>3
    <2> HIDE DEF g
    <2>8. Has(m, g)
      BY <2>5, <2>6, <2>7
    <2> QED  BY <2>8
  <1>3. P = 0..n
    <2> HIDE DEF P
    <2>1. P \in SUBSET (0..n)
      BY DEF P
    <2> QED  BY <1>1, <1>2, <2>1, Induction
  <1>4. PICK f : Has(n, f)
    BY <1>3
  <1> QED  BY <1>4 DEF Solves

\* An interval is finite, and this is its size.
LEMMA UpTo ==
    ASSUME NEW n \in Nat
    PROVE  IsFiniteSet(1..n) /\ Cardinality(1..n) = n
  BY FS_Interval

-----------------------------------------------------------------------------
(* Lists. *)

\* Numbers, as tuples of one.
LEMMA LexicographicNumbers ==
    ASSUME NEW x \in Int, NEW y \in Int
    PROVE  <<x>> \in [1..1 -> Int] /\ (Lexicographic(<<x>>, <<y>>) <=> x < y)
  <1>1. DOMAIN <<x>> = {1} /\ <<x>>[1] = x /\ <<y>>[1] = y
    OBVIOUS
  <1>2. \A j : j \notin 1..(1 - 1)
    OBVIOUS
  <1>3. Lexicographic(<<x>>, <<y>>) <=> x < y
    BY <1>1, <1>2 DEF Lexicographic
  <1> QED  BY <1>3

\* Numbers in their order: the i-th has i - 1 below it.
LEMMA AscendingList ==
    ASSUME NEW S \in SUBSET Nat, IsFiniteSet(S)
    PROVE  /\ Ascending(S) \in [1..Cardinality(S) -> S]
           /\ \A x \in S : \E i \in 1..Cardinality(S) : Ascending(S)[i] = x
           /\ \A i, j \in 1..Cardinality(S) : i < j => Ascending(S)[i] < Ascending(S)[j]
           /\ \A i \in 1..Cardinality(S) :
                Cardinality({y \in S : y < Ascending(S)[i]}) = i - 1
  <1> DEFINE Below(x) == {y \in S : y < x}
             N == Cardinality(S)
             rank == [x \in S |-> Cardinality(Below(x))]
             list == Ascending(S)
  <1>1. N \in Nat
    BY FS_CardinalityType
  <1>2. list = [i \in 1..N |-> CHOOSE x \in S : Cardinality(Below(x)) = i - 1]
    <2> DEFINE key == [n \in S |-> <<n>>]
               Before(x) == {y \in S : Lexicographic(key[y], key[x])}
    <2>1. list = [i \in 1..N |-> CHOOSE x \in S : Cardinality(Before(x)) = i - 1]
      BY DEF Ascending, Ordered
    <2>2. ASSUME NEW x \in S, NEW y \in S PROVE Lexicographic(key[y], key[x]) <=> y < x
      <3>1. DOMAIN <<y>> = {1} /\ <<y>>[1] = y /\ <<x>>[1] = x /\ \A j : j \notin 1..(1 - 1)
        OBVIOUS
      <3> QED  BY <3>1 DEF Lexicographic
    <2>3. \A x \in S : Before(x) = Below(x)
      BY <2>2
    <2> HIDE DEF Before, Below, list, N, key
    <2>4. \A x \in S : \A i : Cardinality(Before(x)) = i - 1 <=> Cardinality(Below(x)) = i - 1
      BY <2>3
    <2>5. \A i : (CHOOSE x \in S : Cardinality(Before(x)) = i - 1)
                   = (CHOOSE x \in S : Cardinality(Below(x)) = i - 1)
      BY <2>4
    <2> QED  BY <2>1, <2>5
  <1>3. ASSUME NEW x \in S
        PROVE  IsFiniteSet(Below(x)) /\ rank[x] \in 0..(N - 1)
    <2>1. x \notin Below(x)
      OBVIOUS
    <2>2. IsFiniteSet(Below(x)) /\ Cardinality(Below(x)) <= N /\ Cardinality(Below(x)) # N
      BY <2>1, FS_Subset
    <2>3. Cardinality(Below(x)) \in Nat
      BY <2>2, FS_CardinalityType
    <2> QED  BY <1>1, <2>2, <2>3
  <1>4. ASSUME NEW x \in S, NEW y \in S, x < y
        PROVE  rank[x] < rank[y]
    <2>0. \A z \in S : z \in Int
      OBVIOUS
    <2>1. Below(x) \subseteq Below(y) /\ x \in Below(y) /\ x \notin Below(x)
      <3>1. \A z \in S : z < x => z < y
        BY <1>4, <2>0
      <3>2. ~(x < x)
        BY <2>0
      <3> QED  BY <1>4, <3>1, <3>2
    <2>2. Cardinality(Below(x)) <= Cardinality(Below(y))
          /\ Cardinality(Below(x)) # Cardinality(Below(y))
      BY <1>3, <2>1, FS_Subset
    <2>3. Cardinality(Below(x)) \in Nat /\ Cardinality(Below(y)) \in Nat
      BY <1>3, FS_CardinalityType
    <2>4. Cardinality(Below(x)) < Cardinality(Below(y))
      BY <2>2, <2>3
    <2> QED  BY <2>4
  <1>5. \A x, y \in S : x = y \/ rank[x] < rank[y] \/ rank[y] < rank[x]
    <2>1. \A x, y \in S : x = y \/ x < y \/ y < x
      OBVIOUS
    <2> HIDE DEF rank
    <2> QED  BY <1>4, <2>1
  <1>6. rank \in Surjection(S, 0..(N - 1))
    <2>1. rank \in [S -> 0..(N - 1)]
      BY <1>3
    <2> HIDE DEF rank
    <2>2. \A x \in S : rank[x] \in Int
      BY <2>1
    <2>3. ASSUME NEW x \in S, NEW y \in S, rank[x] = rank[y] PROVE x = y
      <3>1. ~(rank[x] < rank[y]) /\ ~(rank[y] < rank[x])
        BY <2>2, <2>3
      <3> QED  BY <1>5, <3>1
    <2>4. rank \in Injection(S, 0..(N - 1))
      BY <2>1, <2>3 DEF Injection, IsInjective
    <2>5. IsFiniteSet(0..(N - 1)) /\ Cardinality(0..(N - 1)) = N
      <3> HIDE DEF N
      <3>1. 0 \in Int /\ N - 1 \in Int
        BY <1>1
      <3>2. IsFiniteSet(0..(N - 1))
            /\ Cardinality(0..(N - 1)) = IF 0 > N - 1 THEN 0 ELSE (N - 1) - 0 + 1
        BY <3>1, FS_Interval
      <3> QED  BY <1>1, <3>2
    <2> QED  BY <2>4, <2>5, FS_Injection
  <1>7. \A i \in 1..N : list[i] \in S /\ rank[list[i]] = i - 1
    <2> SUFFICES ASSUME NEW i \in 1..N PROVE list[i] \in S /\ rank[list[i]] = i - 1
      OBVIOUS
    <2>1. i - 1 \in 0..(N - 1)
      BY <1>1
    <2>2. \E x \in S : rank[x] = i - 1
      <3> HIDE DEF rank
      <3> QED  BY <1>6, <2>1 DEF Surjection
    <2>3. \E x \in S : Cardinality(Below(x)) = i - 1
      BY <2>2
    <2>4. list[i] \in S /\ Cardinality(Below(list[i])) = i - 1
      <3> HIDE DEF Below, list
      <3> QED  BY <1>2, <2>3
    <2> HIDE DEF list, Below
    <2> QED  BY <2>4
  <1>8. list \in [1..N -> S]
    <2> HIDE DEF list, rank, N
    <2> QED  BY <1>2, <1>7
  <1>9. \A x \in S : \E i \in 1..N : list[i] = x
    <2> SUFFICES ASSUME NEW x \in S PROVE \E i \in 1..N : list[i] = x
      OBVIOUS
    <2>1. rank[x] \in 0..(N - 1)
      BY <1>3
    <2> HIDE DEF list, rank, N
    <2>2. rank[x] + 1 \in 1..N /\ (rank[x] + 1) - 1 = rank[x]
      BY <1>1, <2>1
    <2>3. rank[list[rank[x] + 1]] = rank[x] /\ list[rank[x] + 1] \in S
      BY <1>7, <2>2
    <2>4. rank[x] \in Int
      BY <1>1, <2>1
    <2>5. ~(rank[list[rank[x] + 1]] < rank[x]) /\ ~(rank[x] < rank[list[rank[x] + 1]])
      BY <2>3, <2>4
    <2> QED  BY <1>5, <2>2, <2>3, <2>5
  <1>10. \A i, j \in 1..N : i < j => list[i] < list[j]
    <2> SUFFICES ASSUME NEW i \in 1..N, NEW j \in 1..N, i < j PROVE list[i] < list[j]
      OBVIOUS
    <2> HIDE DEF list, rank, N
    <2>1. list[i] \in S /\ list[j] \in S /\ rank[list[i]] = i - 1 /\ rank[list[j]] = j - 1
      BY <1>7
    <2>2. ~(rank[list[j]] < rank[list[i]]) /\ rank[list[i]] # rank[list[j]]
      BY <1>1, <2>1
    <2>3. ~(list[j] < list[i]) /\ list[i] # list[j]
      BY <1>4, <2>1, <2>2
    <2>0. \A z \in S : z \in Int
      OBVIOUS
    <2>4. list[i] \in Int /\ list[j] \in Int
      BY <2>0, <2>1
    <2> QED  BY <2>3, <2>4
  <1>11. \A i \in 1..N : Cardinality(Below(list[i])) = i - 1
    <2>1. \A x \in S : rank[x] = Cardinality(Below(x))
      OBVIOUS
    <2> HIDE DEF list, rank, N, Below
    <2> QED  BY <1>7, <2>1
  <1> HIDE DEF rank
  <1> QED  BY <1>8, <1>9, <1>10, <1>11

\* What At selects, by the places it takes the elements from.
LEMMA Selection ==
    ASSUME NEW T, NEW list \in Seq(T), NEW places \in SUBSET (1..Len(list))
    PROVE  \E m \in 0..Len(list) : \E order \in [1..m -> places] :
             /\ \A p \in places : \E i \in 1..m : order[i] = p
             /\ \A i, j \in 1..m : i < j => order[i] < order[j]
             /\ At(list, places) = [i \in 1..m |-> list[order[i]]]
             /\ At(list, places) \in Seq(T)
  <1> DEFINE m == Cardinality(places)  order == Ascending(places)
  <1>1. IsFiniteSet(places) /\ m \in 0..Len(list)
    <2>1. Len(list) \in Nat
      OBVIOUS
    <2>2. IsFiniteSet(1..Len(list)) /\ Cardinality(1..Len(list)) = Len(list)
      BY <2>1, UpTo
    <2>3. IsFiniteSet(places) /\ Cardinality(places) <= Len(list)
      BY <2>2, FS_Subset
    <2> QED  BY <2>1, <2>3, FS_CardinalityType
  <1>2. /\ order \in [1..m -> places]
        /\ \A p \in places : \E i \in 1..m : order[i] = p
        /\ \A i, j \in 1..m : i < j => order[i] < order[j]
    BY <1>1, AscendingList
  <1>3. At(list, places) = [i \in 1..m |-> list[order[i]]]
    BY <1>2 DEF At
  <1>4. [i \in 1..m |-> list[order[i]]] \in Seq(T)
    <2> HIDE DEF m, order
    <2>1. \A i \in 1..m : order[i] \in 1..Len(list)
      BY <1>2
    <2>2. m \in Nat /\ \A i \in 1..m : list[order[i]] \in T
      BY <1>1, <2>1
    <2> QED  BY <2>2
  <1> HIDE DEF m, order
  <1> QED  BY <1>1, <1>2, <1>3, <1>4

\* What is picked of a list: its members of S, each of them.
LEMMA PickedList ==
    ASSUME NEW T, NEW list \in Seq(T), NEW S
    PROVE  /\ Picked(list, S) \in Seq(T) /\ Len(Picked(list, S)) <= Len(list)
           /\ \A i \in 1..Len(Picked(list, S)) :
                Picked(list, S)[i] \in S /\ \E k \in 1..Len(list) : list[k] = Picked(list, S)[i]
           /\ \A k \in 1..Len(list) :
                list[k] \in S => \E i \in 1..Len(Picked(list, S)) : Picked(list, S)[i] = list[k]
  <1> DEFINE places == {k \in 1..Len(list) : list[k] \in S}
  <1>1. Picked(list, S) = At(list, places)
    <2>1. places = {k \in DOMAIN list : list[k] \in S}
      OBVIOUS
    <2> QED  BY <2>1 DEF Picked
  <1>2. PICK m \in 0..Len(list) : \E order \in [1..m -> places] :
             /\ \A p \in places : \E i \in 1..m : order[i] = p
             /\ \A i, j \in 1..m : i < j => order[i] < order[j]
             /\ At(list, places) = [i \in 1..m |-> list[order[i]]]
             /\ At(list, places) \in Seq(T)
    BY Selection
  <1>3. PICK order \in [1..m -> places] :
             /\ \A p \in places : \E i \in 1..m : order[i] = p
             /\ At(list, places) = [i \in 1..m |-> list[order[i]]]
             /\ At(list, places) \in Seq(T)
    BY <1>2
  <1> DEFINE picked == At(list, places)
  <1>4. Len(picked) = m /\ picked \in Seq(T)
    BY <1>3
  <1>5. \A i \in 1..m : picked[i] \in S /\ \E k \in 1..Len(list) : list[k] = picked[i]
    BY <1>3
  <1>6. \A k \in 1..Len(list) : list[k] \in S => \E i \in 1..m : picked[i] = list[k]
    <2> SUFFICES ASSUME NEW k \in 1..Len(list), list[k] \in S PROVE \E i \in 1..m : picked[i] = list[k]
      OBVIOUS
    <2>1. PICK i \in 1..m : order[i] = k
      BY <1>3
    <2> QED  BY <1>3, <2>1
  <1> HIDE DEF picked, places
  <1> QED  BY <1>1, <1>4, <1>5, <1>6 DEF picked

\* All elements are picked exactly if the list stays as it is.
LEMMA PickedAll ==
    ASSUME NEW T, NEW list \in Seq(T), NEW S
    PROVE  Picked(list, S) = list <=> \A k \in 1..Len(list) : list[k] \in S
  <1>1. ASSUME Picked(list, S) = list, NEW k \in 1..Len(list) PROVE list[k] \in S
    BY <1>1, PickedList
  <1>2. ASSUME \A k \in 1..Len(list) : list[k] \in S PROVE Picked(list, S) = list
    <2> DEFINE n == Len(list)  key == [i \in 1..n |-> <<i>>]
               Before(x) == {y \in 1..n : Lexicographic(key[y], key[x])}
               order == Ascending(1..n)
    <2>1. n \in Nat
      OBVIOUS
    <2>2. \A x \in 1..n : Cardinality(Before(x)) = x - 1
      <3> SUFFICES ASSUME NEW x \in 1..n PROVE Cardinality(Before(x)) = x - 1
        OBVIOUS
      <3>0. \A y \in 1..n : key[y] = <<y>> /\ y \in Int
        OBVIOUS
      <3>1. \A y \in 1..n : Lexicographic(key[y], key[x]) <=> y < x
        <4> HIDE DEF key
        <4> QED  BY <3>0, LexicographicNumbers
      <3>2. Before(x) = 1..(x - 1)
        BY <3>1
      <3>3. x - 1 \in Nat
        OBVIOUS
      <3>4. Cardinality(1..(x - 1)) = x - 1
        BY <3>3, UpTo
      <3> HIDE DEF Before
      <3> QED  BY <3>2, <3>4
    <2>3. Cardinality(1..n) = n
      <3> HIDE DEF n
      <3> QED  BY <2>1, UpTo
    <2>4. order = [i \in 1..n |-> CHOOSE x \in 1..n : Cardinality(Before(x)) = i - 1]
      <3>1. order = Ordered(1..n, key)
        BY DEF Ascending
      <3> HIDE DEF key
      <3>2. Ordered(1..n, key) = [i \in 1..Cardinality(1..n) |->
                                    CHOOSE x \in 1..n : Cardinality(Before(x)) = i - 1]
        BY DEF Ordered
      <3> HIDE DEF order, Before
      <3> QED  BY <2>3, <3>1, <3>2
    <2>5. \A i \in 1..n : order[i] = i
      <3> SUFFICES ASSUME NEW i \in 1..n PROVE order[i] = i
        OBVIOUS
      <3> HIDE DEF Before, order, n
      <3>1. \E x \in 1..n : Cardinality(Before(x)) = i - 1
        BY <2>2
      <3>2. order[i] \in 1..n /\ Cardinality(Before(order[i])) = i - 1
        BY <2>4, <3>1
      <3> QED  BY <2>1, <2>2, <3>2
    <2>6. {k \in DOMAIN list : list[k] \in S} = 1..n
      BY <1>2
    <2>7. Picked(list, S) = [i \in DOMAIN order |-> list[order[i]]]
      BY <2>6 DEF Picked, At
    <2>8. DOMAIN order = 1..n
      BY <2>4
    <2> HIDE DEF order
    <2> QED  BY <2>5, <2>7, <2>8
  <1> QED  BY <1>1, <1>2

\* The elements of a list, each of them once.
LEMMA OnceList ==
    ASSUME NEW T, NEW list \in Seq(T)
    PROVE  /\ Once(list) \in Seq(T) /\ Len(Once(list)) <= Len(list)
           /\ \A i \in 1..Len(Once(list)) : \E k \in 1..Len(list) : list[k] = Once(list)[i]
           /\ \A k \in 1..Len(list) : \E i \in 1..Len(Once(list)) : Once(list)[i] = list[k]
           /\ \A i, j \in 1..Len(Once(list)) : Once(list)[i] = Once(list)[j] => i = j
  <1> DEFINE places == {i \in 1..Len(list) : \A j \in 1..(i - 1) : list[j] # list[i]}
  <1>1. Once(list) = At(list, places)
    <2>1. DOMAIN list = 1..Len(list)
      OBVIOUS
    <2>2. Once(list) = At(list, {i \in DOMAIN list : \A j \in 1..(i - 1) : list[j] # list[i]})
      BY DEF Once
    <2> QED  BY <2>1, <2>2
  <1>2. PICK m \in 0..Len(list) : \E order \in [1..m -> places] :
             /\ \A p \in places : \E i \in 1..m : order[i] = p
             /\ \A i, j \in 1..m : i < j => order[i] < order[j]
             /\ At(list, places) = [i \in 1..m |-> list[order[i]]]
             /\ At(list, places) \in Seq(T)
    BY Selection
  <1>3. PICK order \in [1..m -> places] :
             /\ \A p \in places : \E i \in 1..m : order[i] = p
             /\ \A i, j \in 1..m : i < j => order[i] < order[j]
             /\ At(list, places) = [i \in 1..m |-> list[order[i]]]
             /\ At(list, places) \in Seq(T)
    BY <1>2
  <1> DEFINE once == At(list, places)
  <1>4. Len(once) = m /\ once \in Seq(T)
    <2>1. m \in Nat /\ once \in Seq(T) /\ DOMAIN once = 1..m
      BY <1>3
    <2> HIDE DEF once
    <2> QED  BY <2>1
  <1>5. \A i \in 1..m : \E k \in 1..Len(list) : list[k] = once[i]
    BY <1>3
  <1>6. \A k \in 1..Len(list) : \E i \in 1..m : once[i] = list[k]
    <2> SUFFICES ASSUME NEW k \in 1..Len(list) PROVE \E i \in 1..m : once[i] = list[k]
      OBVIOUS
    <2> DEFINE same == {j \in 1..Len(list) : list[j] = list[k]}
    <2>1. PICK f \in same : \A j \in same : f <= j
      <3>1. same \in SUBSET Nat /\ k \in same
        OBVIOUS
      <3> QED  BY <3>1, SmallestNumber
    <2>2. f \in places
      BY <2>1
    <2>3. PICK i \in 1..m : order[i] = f
      BY <1>3, <2>2
    <2> QED  BY <1>3, <2>1, <2>3
  <1>7. \A i, j \in 1..m : once[i] = once[j] => i = j
    <2>1. ASSUME NEW i \in 1..m, NEW j \in 1..m, i < j PROVE once[i] # once[j]
      <3>1. order[i] \in places /\ order[j] \in places /\ order[i] < order[j]
        BY <1>3, <2>1
      <3>2. order[i] \in 1..(order[j] - 1)
        BY <3>1
      <3>3. list[order[i]] # list[order[j]]
        BY <3>1, <3>2
      <3> QED  BY <1>3, <3>3
    <2> SUFFICES ASSUME NEW i \in 1..m, NEW j \in 1..m, once[i] = once[j] PROVE i = j
      OBVIOUS
    <2> HIDE DEF once, places
    <2>2. ~(i < j) /\ ~(j < i)
      BY <2>1
    <2> QED  BY <2>2
  <1> HIDE DEF once, places
  <1> QED  BY <1>1, <1>4, <1>5, <1>6, <1>7 DEF once

\* What At selects, as a set.
LEMMA AtList ==
    ASSUME NEW T, NEW list \in Seq(T), NEW places \in SUBSET (1..Len(list))
    PROVE  /\ At(list, places) \in Seq(T)
           /\ \A x : x \in Range(At(list, places)) <=> \E i \in places : x = list[i]
           /\ places # {} => At(list, places) # <<>>
  <1>1. PICK m \in 0..Len(list) : \E order \in [1..m -> places] :
             /\ \A p \in places : \E i \in 1..m : order[i] = p
             /\ \A i, j \in 1..m : i < j => order[i] < order[j]
             /\ At(list, places) = [i \in 1..m |-> list[order[i]]]
             /\ At(list, places) \in Seq(T)
    BY Selection
  <1>2. PICK order \in [1..m -> places] :
             /\ \A p \in places : \E i \in 1..m : order[i] = p
             /\ At(list, places) = [i \in 1..m |-> list[order[i]]]
             /\ At(list, places) \in Seq(T)
    BY <1>1
  <1> DEFINE at == At(list, places)
  <1>3. at \in Seq(T) /\ DOMAIN at = 1..m /\ \A i \in 1..m : at[i] = list[order[i]]
    BY <1>2
  <1>4. \A x : x \in Range(at) <=> \E i \in places : x = list[i]
    <2> HIDE DEF at
    <2>1. \A x : x \in Range(at) <=> \E i \in 1..m : x = list[order[i]]
      BY <1>3 DEF Range
    <2> QED  BY <1>2, <2>1
  <1>5. ASSUME places # {} PROVE at # <<>>
    <2> HIDE DEF at
    <2>1. \E i : i \in 1..m
      BY <1>2, <1>5
    <2> QED  BY <1>3, <2>1
  <1> HIDE DEF at
  <1> QED  BY <1>3, <1>4, <1>5 DEF at

\* The groups of a list, when the key of a place is that of its element: an element is
\* in the group of its key, and no two groups have the same.
Grouped(groups, list, key) ==
    /\ groups \in Seq(Seq(Range(list)))
    /\ \A g \in 1..Len(groups) :
         /\ groups[g] # <<>> /\ Head(groups[g]) \in Range(groups[g])
         /\ Range(groups[g]) = {x \in Range(list) : key[x] = key[Head(groups[g])]}
    /\ \A x \in Range(list) : \E g \in 1..Len(groups) : key[Head(groups[g])] = key[x]
    /\ \A g, h \in 1..Len(groups) : key[Head(groups[g])] = key[Head(groups[h])] => g = h

\* A list is a list of what is in it.
LEMMA InList ==
    ASSUME NEW T, NEW list \in Seq(T)
    PROVE  /\ Len(list) \in Nat /\ DOMAIN list = 1..Len(list)
           /\ list \in Seq(Range(list)) /\ Range(list) \subseteq T
           /\ \A x : x \in Range(list) <=> \E i \in 1..Len(list) : x = list[i]
           /\ list # <<>> => Len(list) > 0 /\ Head(list) = list[1] /\ Head(list) \in Range(list)
  <1>1. Len(list) \in Nat /\ DOMAIN list = 1..Len(list)
    OBVIOUS
  <1>2. \A x : x \in Range(list) <=> \E i \in 1..Len(list) : x = list[i]
    BY <1>1 DEF Range
  <1>3. list \in Seq(Range(list))
    BY <1>1, <1>2
  <1>4. Range(list) \subseteq T
    BY <1>1, <1>2
  <1>5. ASSUME list # <<>> PROVE Len(list) > 0 /\ Head(list) = list[1] /\ Head(list) \in Range(list)
    <2>1. Len(list) > 0 /\ Head(list) = list[1]
      BY <1>5
    <2>2. 1 \in 1..Len(list)
      BY <1>1, <2>1
    <2> QED  BY <1>2, <2>1, <2>2
  <1> QED  BY <1>1, <1>2, <1>3, <1>4, <1>5

\* A function over the first numbers is a list of its values.
LEMMA InOrder ==
    ASSUME NEW n \in Nat, NEW f, f = [i \in 1..n |-> f[i]]
    PROVE  /\ f \in Seq(Range(f)) /\ Len(f) = n
           /\ \A x : x \in Range(f) <=> \E i \in 1..n : x = f[i]
  <1>1. DOMAIN f = 1..n
    OBVIOUS
  <1>2. \A x : x \in Range(f) <=> \E i \in 1..n : x = f[i]
    BY <1>1 DEF Range
  <1>3. f \in Seq(Range(f)) /\ Len(f) = n
    BY <1>2
  <1> QED  BY <1>2, <1>3

\* Grouping keeps every element, and has one group for each key.
LEMMA GroupList ==
    ASSUME NEW T, NEW list \in Seq(T), NEW key, NEW keys,
           keys = [i \in DOMAIN list |-> key[list[i]]]
    PROVE  Grouped(GroupBy(list, keys), list, key)
  <1> DEFINE n == Len(list)  K == {key[x] : x \in T}  U == Range(list)
             first == Once(keys)  m == Len(first)
             places(g) == {i \in 1..n : keys[i] = first[g]}
             groups == GroupBy(list, keys)
  <1>1. n \in Nat /\ DOMAIN list = 1..n /\ list \in Seq(U)
        /\ \A x : x \in U <=> \E i \in 1..n : x = list[i]
    BY InList
  <1>2. keys \in Seq(K) /\ Len(keys) = n /\ \A i \in 1..n : keys[i] = key[list[i]]
    BY <1>1
  <1>3. /\ first \in Seq(K)
        /\ \A i \in 1..m : \E k \in 1..n : keys[k] = first[i]
        /\ \A k \in 1..n : \E i \in 1..m : first[i] = keys[k]
        /\ \A i, j \in 1..m : first[i] = first[j] => i = j
    <2>0. keys \in Seq(K)
      BY <1>2
    <2> HIDE DEF K, n, first, m
    <2>1. /\ Once(keys) \in Seq(K)
          /\ \A i \in 1..Len(Once(keys)) : \E k \in 1..Len(keys) : keys[k] = Once(keys)[i]
          /\ \A k \in 1..Len(keys) : \E i \in 1..Len(Once(keys)) : Once(keys)[i] = keys[k]
          /\ \A i, j \in 1..Len(Once(keys)) : Once(keys)[i] = Once(keys)[j] => i = j
      BY ONLY <2>0, OnceList
    <2>2. Len(keys) = n
      BY <1>2
    <2> QED  BY <2>1, <2>2 DEF first, m
  <1> HIDE DEF first
  <1>4. m \in Nat /\ DOMAIN first = 1..m
    BY <1>3
  <1>5. groups = [g \in 1..m |-> At(list, places(g))]
    BY <1>1, <1>4 DEF GroupBy, first
  <1>6. ASSUME NEW g \in 1..m
        PROVE  /\ groups[g] \in Seq(U) /\ groups[g] # <<>>
               /\ \A x : x \in Range(groups[g]) <=> \E i \in places(g) : x = list[i]
    <2>1. places(g) \in SUBSET (1..n) /\ places(g) # {}
      BY <1>3
    <2>2. groups[g] = At(list, places(g))
      BY <1>5
    <2> HIDE DEF places, groups, m, U
    <2> QED  BY <1>1, <2>1, <2>2, AtList
  <1>7. groups \in Seq(Seq(U)) /\ Len(groups) = m
    <2>1. \A g \in 1..m : groups[g] \in Seq(U)
      BY <1>6
    <2>2. DOMAIN groups = 1..m /\ groups = [g \in 1..m |-> groups[g]]
      BY <1>5
    <2> DEFINE V == Seq(U)
    <2>3. \A g \in 1..m : groups[g] \in V
      BY <2>1
    <2>4. m \in Nat
      BY <1>4
    <2> HIDE DEF groups, m, U, V
    <2>5. groups \in [1..m -> V]
      BY ONLY <2>2, <2>3
    <2>6. groups \in Seq(V) /\ Len(groups) = m
      BY ONLY <2>4, <2>5
    <2> QED  BY <2>6 DEF V
  <1>8. ASSUME NEW g \in 1..m
        PROVE  Head(groups[g]) \in Range(groups[g]) /\ key[Head(groups[g])] = first[g]
    <2>1. Head(groups[g]) \in Range(groups[g])
      <3> HIDE DEF groups, U, m
      <3> QED  BY <1>6, InList
    <2> HIDE DEF groups, U, m
    <2>2. PICK i \in places(g) : Head(groups[g]) = list[i]
      <3> HIDE DEF places
      <3> QED  BY <1>6, <2>1
    <2> QED  BY <1>2, <2>1, <2>2
  <1>9. ASSUME NEW g \in 1..m
        PROVE  Range(groups[g]) = {x \in U : key[x] = key[Head(groups[g])]}
    <2>1. \A x : x \in Range(groups[g]) <=> \E i \in 1..n : keys[i] = first[g] /\ x = list[i]
      <3>1. \A x : x \in Range(groups[g]) <=> \E i \in places(g) : x = list[i]
        BY <1>6
      <3> HIDE DEF groups, U, m, n
      <3> QED  BY <3>1
    <2>2. \A x : x \in Range(groups[g]) <=> x \in U /\ key[x] = first[g]
      <3> HIDE DEF groups, U, m
      <3> QED  BY <1>1, <1>2, <2>1
    <2> HIDE DEF groups, U, m
    <2> QED  BY <1>8, <2>2
  <1>10. ASSUME NEW x \in U PROVE \E g \in 1..m : key[Head(groups[g])] = key[x]
    <2>1. PICK i \in 1..n : x = list[i]
      BY <1>1
    <2>2. PICK g \in 1..m : first[g] = keys[i]
      BY <1>3
    <2> HIDE DEF groups, U
    <2> QED  BY <1>2, <1>8, <2>1, <2>2
  <1>11. \A g, h \in 1..m : key[Head(groups[g])] = key[Head(groups[h])] => g = h
    <2> HIDE DEF groups, U
    <2> QED  BY <1>3, <1>8
  <1> HIDE DEF groups, m
  <1> QED  BY <1>6, <1>7, <1>8, <1>9, <1>10, <1>11 DEF Grouped, groups

\* The elements of a flattened list are those of its lists.
LEMMA FlattenList ==
    ASSUME NEW T, NEW lists, NEW n \in Nat, Len(lists) = n, DOMAIN lists = 1..n,
           \A i \in 1..n : lists[i] \in Seq(T), lists \in Seq(Seq(T))
    PROVE  /\ FlattenSeq(lists) \in Seq(T)
           /\ \A x : x \in Range(FlattenSeq(lists)) <=> \E i \in 1..n : x \in Range(lists[i])
  <1> DEFINE Step(f) == [i \in 1..n |-> IF i = 1 THEN lists[i] ELSE f[i - 1] \o lists[i]]
             flatten == CHOOSE f : f = Step(f)
             P == {m \in 0..n : m # 0 =>
                     /\ flatten[m] \in Seq(T)
                     /\ \A x : x \in Range(flatten[m]) <=> \E i \in 1..m : x \in Range(lists[i])}
  <1>1. FlattenSeq(lists) = IF n = 0 THEN lists ELSE flatten[n]
    BY DEF FlattenSeq
  <1>2. \E f : f = Step(f)
    <2> DEFINE V == Seq(T)
               step == [z \in V \X (1..n) |-> z[1] \o lists[z[2]]]
    <2>1. step \in [V \X (1..n) -> V]
      <3>1. \A v \in V, i \in 1..n : v \o lists[i] \in V
        BY ConcatProperties
      <3>2. \A z \in V \X (1..n) : z[1] \in V /\ z[2] \in 1..n
        OBVIOUS
      <3> HIDE DEF V
      <3> QED  BY <3>1, <3>2
    <2>2. <<>> \in V
      OBVIOUS
    <2> HIDE DEF V
    <2> DEFINE empty == <<>>
    <2>3. PICK f : Solves(f, n, V, empty, step)
      <3>1. empty \in V
        BY <2>2
      <3> HIDE DEF step, empty
      <3> QED  BY <2>1, <3>1, Recursion
    <2>4. f[0] = <<>>
      BY <2>3 DEF Solves
    <2>5. ASSUME NEW i \in 1..n PROVE f[i] = f[i - 1] \o lists[i]
      <3>1. i - 1 \in 0..n
        OBVIOUS
      <3>2. f[i] = step[<<f[i - 1], i>>]
        <4> HIDE DEF step
        <4> QED  BY <2>3 DEF Solves
      <3>3. f[i - 1] \in V
        BY <2>3, <3>1 DEF Solves
      <3>4. <<f[i - 1], i>> \in V \X (1..n) /\ <<f[i - 1], i>>[1] = f[i - 1] /\ <<f[i - 1], i>>[2] = i
        BY <3>3
      <3> QED  BY <3>2, <3>4
    <2>6. n >= 1 => f[1] = lists[1]
      <3> SUFFICES ASSUME n >= 1 PROVE f[1] = lists[1]
        OBVIOUS
      <3>1. 1 \in 1..n /\ 1 - 1 = 0
        OBVIOUS
      <3>2. f[1] = <<>> \o lists[1]
        BY <2>4, <2>5, <3>1
      <3>3. lists[1] \in Seq(T)
        BY <3>1
      <3> QED  BY <3>2, <3>3, ConcatEmptySeq
    <2> DEFINE g == [i \in 1..n |-> f[i]]
    <2>7. ASSUME NEW i \in 1..n PROVE g[i] = Step(g)[i]
      <3>1. CASE i = 1
        BY <2>6, <3>1
      <3>2. CASE i # 1
        <4>1. i - 1 \in 1..n /\ g[i - 1] = f[i - 1] /\ g[i] = f[i]
          BY <3>2
        <4>2. g[i] = g[i - 1] \o lists[i]
          BY <2>5, <4>1
        <4> HIDE DEF g
        <4> QED  BY <3>2, <4>2
      <3> QED  BY <3>1, <3>2
    <2>8. g = [i \in 1..n |-> g[i]] /\ Step(g) = [i \in 1..n |-> Step(g)[i]]
      OBVIOUS
    <2>9. g = Step(g)
      <3> HIDE DEF g, Step
      <3> QED  BY <2>7, <2>8
    <2> HIDE DEF g, Step
    <2> QED  BY <2>9
  <1>3. flatten = Step(flatten)
    <2> HIDE DEF Step
    <2> QED  BY <1>2
  <1>4. \A i \in 1..n : flatten[i] = IF i = 1 THEN lists[i] ELSE flatten[i - 1] \o lists[i]
    <2> HIDE DEF flatten
    <2>1. \A i \in 1..n : Step(flatten)[i] = IF i = 1 THEN lists[i] ELSE flatten[i - 1] \o lists[i]
      OBVIOUS
    <2> HIDE DEF Step
    <2> QED  BY <1>3, <2>1
  <1> HIDE DEF flatten
  <1>5. ASSUME NEW m \in 1..n, m - 1 \in P PROVE m \in P
    <2>1. CASE m = 1
      <3>1. flatten[m] = lists[1] /\ flatten[m] \in Seq(T)
        BY <1>4, <2>1
      <3>2. \A i \in 1..m : i = 1
        BY <2>1
      <3>3. 1 \in 1..m /\ m \in 0..n
        OBVIOUS
      <3>4. \A x : x \in Range(flatten[m]) <=> \E i \in 1..m : x \in Range(lists[i])
        BY <3>1, <3>2, <3>3
      <3> QED  BY <3>1, <3>3, <3>4
    <2>2. CASE m # 1
      <3>1. m - 1 # 0 /\ m \in 0..n /\ m - 1 \in 1..n
        BY <2>2
      <3>2. flatten[m] = flatten[m - 1] \o lists[m]
        BY <1>4, <2>2
      <3>3. /\ flatten[m - 1] \in Seq(T)
            /\ \A x : x \in Range(flatten[m - 1]) <=> \E i \in 1..(m - 1) : x \in Range(lists[i])
        BY <1>5, <3>1
      <3>4. lists[m] \in Seq(T)
        OBVIOUS
      <3>5. flatten[m] \in Seq(T)
        BY <3>2, <3>3, <3>4, ConcatProperties
      <3>6. Range(flatten[m]) = Range(flatten[m - 1]) \cup Range(lists[m])
        BY <3>2, <3>3, <3>4, RangeConcatenation
      <3>7. \A i : i \in 1..m <=> i \in 1..(m - 1) \/ i = m
        OBVIOUS
      <3>8. \A x : x \in Range(flatten[m]) <=> \E i \in 1..m : x \in Range(lists[i])
        BY <3>3, <3>6, <3>7
      <3> QED  BY <3>1, <3>5, <3>8
    <2> QED  BY <2>1, <2>2
  <1>6. P = 0..n
    <2>1. P \in SUBSET (0..n) /\ 0 \in P
      OBVIOUS
    <2> HIDE DEF P
    <2> QED  BY <1>5, <2>1, Induction
  <1>7. CASE n = 0
    <2>1. lists = <<>> /\ FlattenSeq(lists) = <<>>
      BY <1>1, <1>7
    <2>2. Range(<<>>) = {} /\ \A i : i \notin 1..n
      BY <1>7 DEF Range
    <2>3. <<>> \in Seq(T)
      OBVIOUS
    <2> QED  BY <2>1, <2>2, <2>3
  <1>8. CASE n # 0
    <2>1. n \in P
      <3> HIDE DEF P
      <3> QED  BY <1>6
    <2> QED  BY <1>1, <1>8, <2>1
  <1> QED  BY <1>7, <1>8

\* The greatest of numbers up to a bound.
LEMMA Greatest ==
    ASSUME NEW n \in Nat, NEW S \in SUBSET (0..n), S # {}
    PROVE  Max(S) \in S /\ \A x \in S : x <= Max(S)
  <1> DEFINE D == {n - x : x \in S}
  <1>0. \A x \in S : x \in Int /\ n - x \in Nat
    <2>1. \A x \in 0..n : x \in Int /\ n - x \in Nat
      OBVIOUS
    <2> QED  BY <2>1
  <1>1. D \in SUBSET Nat /\ D # {}
    BY <1>0
  <1>2. PICK d \in D : \A e \in D : d <= e
    BY <1>1, SmallestNumber
  <1>3. PICK m \in S : d = n - m
    OBVIOUS
  <1>4. \A x \in S : m >= x
    <2> SUFFICES ASSUME NEW x \in S PROVE m >= x
      OBVIOUS
    <2>1. n - m <= n - x
      BY <1>2, <1>3
    <2> QED  BY <1>0, <2>1
  <1>5. \E x \in S : \A y \in S : x >= y
    BY <1>4
  <1>6. Max(S) \in S /\ \A y \in S : Max(S) >= y
    BY <1>5 DEF Max
  <1>7. \A y \in S : y \in Int /\ Max(S) \in Int
    BY <1>0, <1>6
  <1> QED  BY <1>6, <1>7

\* Picked, as a set.
LEMMA PickedSet ==
    ASSUME NEW T, NEW list \in Seq(T), NEW S
    PROVE  Picked(list, S) \in Seq(T) /\ Range(Picked(list, S)) = Range(list) \cap S
  <1> DEFINE picked == Picked(list, S)
  <1>1. /\ picked \in Seq(T)
        /\ \A i \in 1..Len(picked) : picked[i] \in S /\ \E k \in 1..Len(list) : list[k] = picked[i]
        /\ \A k \in 1..Len(list) : list[k] \in S => \E i \in 1..Len(picked) : picked[i] = list[k]
    BY PickedList
  <1>2. \A x : x \in Range(list) <=> \E i \in 1..Len(list) : x = list[i]
    BY InList
  <1> HIDE DEF picked
  <1>3. \A x : x \in Range(picked) <=> \E i \in 1..Len(picked) : x = picked[i]
    BY <1>1, InList
  <1>4. ASSUME NEW x \in Range(picked) PROVE x \in Range(list) /\ x \in S
    <2>1. PICK i \in 1..Len(picked) : x = picked[i]
      BY <1>3
    <2> QED  BY <1>1, <1>2, <2>1
  <1>5. ASSUME NEW x \in Range(list), x \in S PROVE x \in Range(picked)
    <2>1. PICK k \in 1..Len(list) : x = list[k]
      BY <1>2
    <2> QED  BY <1>1, <1>3, <1>5, <2>1
  <1> QED  BY <1>1, <1>4, <1>5 DEF picked

-----------------------------------------------------------------------------
(* Entities. *)

\* Deduplication keeps one entity of each id.
LEMMA DedupeList ==
    ASSUME NEW T, NEW entities \in Seq(T)
    PROVE  /\ DedupeEntities(entities) \in Seq(T)
           /\ Range(DedupeEntities(entities)) \subseteq Range(entities)
           /\ \A e \in Range(entities) : \E d \in Range(DedupeEntities(entities)) : d.id = e.id
  <1> DEFINE key == [e \in Range(entities) |-> e.id]
             keys == [i \in DOMAIN entities |-> entities[i].id]
             groups == GroupBy(entities, keys)
             m == Len(groups)
             deduped == DedupeEntities(entities)
  <1>1. /\ entities \in Seq(Range(entities)) /\ DOMAIN entities = 1..Len(entities)
        /\ \A x : x \in Range(entities) <=> \E i \in 1..Len(entities) : x = entities[i]
        /\ Range(entities) \subseteq T
    BY InList
  <1>2. keys = [i \in DOMAIN entities |-> key[entities[i]]]
    BY <1>1
  <1>3. Grouped(groups, entities, key)
    <2> HIDE DEF keys, key
    <2> QED  BY <1>2, GroupList
  <1>4. deduped = [g \in DOMAIN groups |-> Head(groups[g])]
    BY DEF DedupeEntities
  <1> HIDE DEF groups, deduped, key
  <1>5. groups \in Seq(Seq(Range(entities)))
    BY <1>3 DEF Grouped
  <1>6. m \in Nat /\ DOMAIN groups = 1..m
    <2> DEFINE V == Seq(Range(entities))
    <2>1. groups \in Seq(V)
      BY <1>5
    <2> HIDE DEF V
    <2> QED  BY <2>1
  <1>7. \A g \in 1..m : Head(groups[g]) \in Range(entities)
    BY <1>3 DEF Grouped
  <1>8. deduped \in Seq(Range(entities)) /\ Len(deduped) = m
    <2> HIDE DEF m
    <2> QED  BY <1>4, <1>6, <1>7
  <1>9. deduped \in Seq(T)
    BY <1>1, <1>8
  <1>10. \A x : x \in Range(deduped) <=> \E g \in 1..m : x = deduped[g]
    <2> HIDE DEF m
    <2> QED  BY <1>8, InList
  <1>11. \A g \in 1..m : deduped[g] = Head(groups[g])
    BY <1>4, <1>6
  <1>12. Range(deduped) \subseteq Range(entities)
    BY <1>7, <1>10, <1>11
  <1>13. ASSUME NEW e \in Range(entities) PROVE \E d \in Range(deduped) : d.id = e.id
    <2>1. PICK g \in 1..m : key[Head(groups[g])] = key[e]
      BY <1>3 DEF Grouped
    <2>2. Head(groups[g]).id = e.id
      BY <1>7, <2>1 DEF key
    <2>3. Head(groups[g]) \in Range(deduped)
      BY <1>10, <1>11
    <2> QED  BY <2>2, <2>3
  <1> QED  BY <1>9, <1>12, <1>13 DEF deduped

\* The entities that are not yet known.
LEMMA UnknownList ==
    ASSUME NEW T, NEW entities \in Seq(T), NEW known
    PROVE  /\ Unknown(entities, known) \in Seq(T)
           /\ \A e : e \in Range(Unknown(entities, known))
                       <=> e \in Range(entities) /\ \A k \in Range(known) : k.id # e.id
  <1> DEFINE S == {e \in Range(entities) : \A k \in Range(known) : k.id # e.id}
  <1>1. Unknown(entities, known) = Picked(entities, S)
    BY DEF Unknown
  <1>2. Picked(entities, S) \in Seq(T) /\ Range(Picked(entities, S)) = Range(entities) \cap S
    <2> HIDE DEF S
    <2> QED  BY PickedSet
  <1> QED  BY <1>1, <1>2

-----------------------------------------------------------------------------
(* Relationships of one artifact. *)

\* What is said of one target, in one way.
Saying(said, type, target) ==
    {c \in said : c.type = type /\ EntityId(c.target, c.name) = target}

\* The relationship that stands for all that is said of its target.
Claim(r, p, said) ==
    LET own == Saying(said, r.type, r.target)
    IN  /\ own # {}
        /\ r = [source |-> PaperId(p), type |-> r.type, target |-> r.target, chunk |-> r.chunk,
                supporting |-> r.supporting, confidence |-> r.confidence]
        /\ r.supporting = {c.chunk : c \in own} /\ r.chunk \in r.supporting
        /\ r.confidence = Max({c.confidence : c \in own})

\* One relationship for each target of a kind, with all that was said of it.
LEMMA RelationshipsList ==
    ASSUME NEW p, NEW T, NEW candidates \in Seq(T)
    PROVE  /\ RelationshipsOf(p, candidates) \in Seq(Range(RelationshipsOf(p, candidates)))
           /\ \A r \in Range(RelationshipsOf(p, candidates)) : Claim(r, p, Range(candidates))
           /\ \A c \in Range(candidates) : \E r \in Range(RelationshipsOf(p, candidates)) :
                r.type = c.type /\ r.target = EntityId(c.target, c.name)
  <1> DEFINE said == Range(candidates)
             key == [c \in said |-> <<c.type, EntityId(c.target, c.name)>>]
             keys == [i \in DOMAIN candidates |->
                        <<candidates[i].type, EntityId(candidates[i].target, candidates[i].name)>>]
             groups == GroupBy(candidates, keys)
             m == Len(groups)
             Chunks(group) == {c.chunk : c \in Range(group)}
             Merge(group) == [source |-> PaperId(p), type |-> Head(group).type,
                              target |-> EntityId(Head(group).target, Head(group).name),
                              chunk |-> CHOOSE c \in Chunks(group) : TRUE,
                              supporting |-> Chunks(group),
                              confidence |-> MaxConfidence(group)]
             list == RelationshipsOf(p, candidates)
  <1>1. \A x : x \in said <=> \E i \in 1..Len(candidates) : x = candidates[i]
    BY InList
  <1>2. keys = [i \in DOMAIN candidates |-> key[candidates[i]]]
    BY <1>1
  <1>3. Grouped(groups, candidates, key)
    <2> HIDE DEF keys, key
    <2> QED  BY <1>2, GroupList
  <1>4. list = [g \in DOMAIN groups |-> Merge(groups[g])]
    BY DEF RelationshipsOf
  <1> HIDE DEF groups, list, key, said, Merge
  <1>5. m \in Nat /\ DOMAIN groups = 1..m
    <2> DEFINE V == Seq(said)
    <2>1. groups \in Seq(V)
      BY <1>3 DEF Grouped, said
    <2> HIDE DEF V
    <2> QED  BY <2>1
  <1>6. list \in Seq(Range(list)) /\ \A x : x \in Range(list) <=> \E g \in 1..m : x = Merge(groups[g])
    <2>1. DOMAIN list = 1..m /\ Len(list) = m /\ \A g \in 1..m : list[g] = Merge(groups[g])
      BY <1>4, <1>5
    <2>2. list = [g \in 1..m |-> list[g]]
      BY <1>4, <1>5
    <2>3. \A x : x \in Range(list) <=> \E g \in 1..m : x = list[g]
      BY <2>1 DEF Range
    <2> HIDE DEF m
    <2>4. list \in Seq(Range(list))
      BY <1>5, <2>2, <2>3
    <2> QED  BY <2>1, <2>3, <2>4
  <1>7. ASSUME NEW g \in 1..m
        PROVE  /\ Head(groups[g]) \in said
               /\ Range(groups[g]) = Saying(said, Head(groups[g]).type,
                                       EntityId(Head(groups[g]).target, Head(groups[g]).name))
    <2> DEFINE h == Head(groups[g])
    <2>1. h \in Range(groups[g]) /\ Range(groups[g]) = {x \in said : key[x] = key[h]}
      BY <1>3 DEF Grouped, said
    <2>2. h \in said
      BY <2>1
    <2>3. \A x \in said : key[x] = <<x.type, EntityId(x.target, x.name)>>
      BY DEF key
    <2> HIDE DEF h
    <2>4. \A x \in said : key[x] = key[h]
            <=> x.type = h.type /\ EntityId(x.target, x.name) = EntityId(h.target, h.name)
      BY <2>2, <2>3
    <2>5. Range(groups[g]) = Saying(said, h.type, EntityId(h.target, h.name))
      BY <2>1, <2>4 DEF Saying
    <2> QED  BY <2>2, <2>5 DEF h
  <1>8. ASSUME NEW g \in 1..m PROVE Claim(Merge(groups[g]), p, said)
    <2> DEFINE r == Merge(groups[g])  h == Head(groups[g])
    <2>1. /\ r.source = PaperId(p) /\ r.type = h.type /\ r.target = EntityId(h.target, h.name)
          /\ r.chunk = CHOOSE c \in Chunks(groups[g]) : TRUE
          /\ r.supporting = Chunks(groups[g]) /\ r.confidence = MaxConfidence(groups[g])
      BY DEF Merge
    <2>2. r = [source |-> PaperId(p), type |-> r.type, target |-> r.target, chunk |-> r.chunk,
               supporting |-> r.supporting, confidence |-> r.confidence]
      BY DEF Merge
    <2> HIDE DEF r
    <2>3. Range(groups[g]) = Saying(said, r.type, r.target) /\ h \in Range(groups[g])
      BY <1>3, <1>7, <2>1 DEF Grouped
    <2>4. r.chunk \in r.supporting
      <3>1. h.chunk \in Chunks(groups[g])
        BY <2>3
      <3> HIDE DEF Chunks
      <3> QED  BY <2>1, <3>1
    <2>5. r.confidence = Max({c.confidence : c \in Saying(said, r.type, r.target)})
      BY <2>1, <2>3 DEF MaxConfidence
    <2>6. r.supporting = {c.chunk : c \in Saying(said, r.type, r.target)}
      BY <2>1, <2>3
    <2>7. Saying(said, r.type, r.target) # {}
      BY <2>3
    <2> HIDE DEF h, Chunks
    <2>8. Claim(r, p, said)
      BY <2>2, <2>4, <2>5, <2>6, <2>7 DEF Claim
    <2> QED  BY <2>8 DEF r
  <1>9. ASSUME NEW c \in said
        PROVE  \E r \in Range(list) : r.type = c.type /\ r.target = EntityId(c.target, c.name)
    <2>1. PICK g \in 1..m : key[Head(groups[g])] = key[c]
      BY <1>3 DEF Grouped, said
    <2>2. Head(groups[g]).type = c.type
          /\ EntityId(Head(groups[g]).target, Head(groups[g]).name) = EntityId(c.target, c.name)
      BY <1>7, <2>1 DEF key
    <2>3. Merge(groups[g]).type = c.type /\ Merge(groups[g]).target = EntityId(c.target, c.name)
      BY <2>2 DEF Merge
    <2>4. Merge(groups[g]) \in Range(list)
      BY <1>6
    <2> QED  BY <2>3, <2>4
  <1> HIDE DEF m
  <1> QED  BY <1>6, <1>8, <1>9 DEF list, said

-----------------------------------------------------------------------------
(* Resolution. *)

\* The id that an entity has in the graph.
Resolved(id) ==
    IF id.type # "paper" /\ <<id.type, id.name>> \in DOMAIN Aliases
    THEN EntityId(id.type, Aliases[<<id.type, id.name>>]) ELSE id

\* Resolution changes the name of an entity that has an alias, and nothing else of its
\* id.
LEMMA ResolvedId ==
    ASSUME NEW e
    PROVE  ResolveEntity(e).id = Resolved(e.id)
  <1>1. CASE e.id.type # "paper" /\ <<e.id.type, e.id.name>> \in DOMAIN Aliases
    <2>1. ResolveEntity(e) = Entity(e.id.type, Aliases[<<e.id.type, e.id.name>>])
      BY <1>1 DEF ResolveEntity
    <2> QED  BY <1>1, <2>1 DEF Entity, Resolved
  <1>2. CASE ~(e.id.type # "paper" /\ <<e.id.type, e.id.name>> \in DOMAIN Aliases)
    <2>1. ResolveEntity(e) = e
      BY <1>2 DEF ResolveEntity
    <2> QED  BY <1>2, <2>1 DEF Resolved
  <1> QED  BY <1>1, <1>2

\* The canonical entities are those the entities resolve to.
LEMMA CanonicalEntitiesList ==
    ASSUME NEW T, NEW entities \in Seq(T)
    PROVE  /\ \A e \in Range(CanonicalEntities(entities)) :
                \E x \in Range(entities) : e = ResolveEntity(x)
           /\ \A x \in Range(entities) :
                \E e \in Range(CanonicalEntities(entities)) : e.id = Resolved(x.id)
  <1> DEFINE resolved == [i \in DOMAIN entities |-> ResolveEntity(entities[i])]
             S == {ResolveEntity(x) : x \in Range(entities)}
  <1>1. /\ Len(entities) \in Nat /\ DOMAIN entities = 1..Len(entities)
        /\ \A x : x \in Range(entities) <=> \E i \in 1..Len(entities) : x = entities[i]
    BY InList
  <1>2. resolved \in Seq(S)
    <2>1. \A i \in 1..Len(entities) : ResolveEntity(entities[i]) \in S
      BY <1>1
    <2> HIDE DEF S
    <2> QED  BY <1>1, <2>1
  <1>3. \A e : e \in Range(resolved) <=> \E x \in Range(entities) : e = ResolveEntity(x)
    <2>1. \A e : e \in Range(resolved) <=> \E i \in 1..Len(entities) : e = ResolveEntity(entities[i])
      BY <1>1 DEF Range
    <2> HIDE DEF resolved
    <2> QED  BY <1>1, <2>1
  <1>4. CanonicalEntities(entities) = DedupeEntities(resolved)
    BY DEF CanonicalEntities
  <1> HIDE DEF resolved, S
  <1>5. /\ Range(DedupeEntities(resolved)) \subseteq Range(resolved)
        /\ \A e \in Range(resolved) : \E d \in Range(DedupeEntities(resolved)) : d.id = e.id
    BY <1>2, DedupeList
  <1>6. ASSUME NEW x \in Range(entities)
        PROVE  \E e \in Range(DedupeEntities(resolved)) : e.id = Resolved(x.id)
    BY <1>3, <1>5, ResolvedId
  <1> QED  BY <1>3, <1>4, <1>5, <1>6

\* The relationships that are one edge.
Colliding(said, k) ==
    {r \in said : <<Resolved(r.source), r.type, Resolved(r.target)>> = k}

\* The edge that stands for all relationships that collide.
Stored(x, said) ==
    LET own == Colliding(said, Endpoints(x))
    IN  /\ own # {}
        /\ x.supporting = UNION {r.supporting \cup ({r.chunk} \ {None}) : r \in own}
        /\ x.confidence = Max({r.confidence : r \in own})
        /\ \/ \A r \in own : r.chunk = None
           \/ \E r \in own : r.chunk # None /\ x.chunk = r.chunk

\* A relationship is a record.
IsRelationship(r) ==
    r = [source |-> r.source, type |-> r.type, target |-> r.target, chunk |-> r.chunk,
         supporting |-> r.supporting, confidence |-> r.confidence]

\* What is merged has the chunks of all and the highest confidence
\* (_remap_and_dedupe_relationships).
LEMMA MergedGroup ==
    ASSUME NEW T, NEW group \in Seq(T), group # <<>>, IsRelationship(Head(group))
    PROVE  LET x == Merged(group)
           IN  /\ x = [source |-> Head(group).source, type |-> Head(group).type,
                       target |-> Head(group).target, chunk |-> x.chunk,
                       supporting |-> x.supporting, confidence |-> x.confidence]
               /\ x.supporting = UNION {r.supporting \cup ({r.chunk} \ {None}) : r \in Range(group)}
               /\ x.confidence = Max({r.confidence : r \in Range(group)})
               /\ \/ \A r \in Range(group) : r.chunk = None
                  \/ \E r \in Range(group) : r.chunk # None /\ x.chunk = r.chunk
  <1> DEFINE x == Merged(group)  h == Head(group)
             S == {r \in Range(group) : r.chunk # None}
             first == Picked(group, S)
             chunk == IF first = <<>> THEN None ELSE Head(first).chunk
             supporting == UNION {r.supporting \cup ({r.chunk} \ {None}) : r \in Range(group)}
             confidence == MaxConfidence(group)
  <1>1. x = [h EXCEPT !.chunk = chunk, !.supporting = supporting, !.confidence = confidence]
    BY DEF Merged
  <1>2. h = [source |-> h.source, type |-> h.type, target |-> h.target, chunk |-> h.chunk,
             supporting |-> h.supporting, confidence |-> h.confidence]
    BY DEF IsRelationship
  <1>3. first \in Seq(T) /\ Range(first) = Range(group) \cap S
    <2> HIDE DEF S
    <2> QED  BY PickedSet
  <1>4. \/ \A r \in Range(group) : r.chunk = None
        \/ \E r \in Range(group) : r.chunk # None /\ chunk = r.chunk
    <2>1. CASE first = <<>>
      <3>1. Range(first) = {}
        BY <2>1 DEF Range
      <3> HIDE DEF first
      <3> QED  BY <1>3, <3>1
    <2>2. CASE first # <<>>
      <3>1. Head(first) \in Range(first)
        <4> HIDE DEF first
        <4> QED  BY <1>3, <2>2, InList
      <3>2. Head(first) \in Range(group) /\ Head(first).chunk # None
        <4> HIDE DEF first
        <4> QED  BY <1>3, <3>1
      <3>3. chunk = Head(first).chunk
        BY <2>2
      <3> HIDE DEF chunk, first
      <3> QED  BY <3>2, <3>3
    <2> QED  BY <2>1, <2>2
  <1> HIDE DEF x, h, chunk, supporting, confidence
  <1>5. x = [source |-> h.source, type |-> h.type, target |-> h.target, chunk |-> chunk,
             supporting |-> supporting, confidence |-> confidence]
    BY <1>1, <1>2
  <1>6. x.chunk = chunk /\ x.supporting = supporting /\ x.confidence = confidence
    BY <1>5
  <1> QED  BY <1>4, <1>5, <1>6 DEF x, h, supporting, confidence, MaxConfidence

\* When both ends are known, no relationship is skipped, and all that resolve to one
\* edge are merged.
LEMMA CanonicalRelationshipsList ==
    ASSUME NEW T, NEW entities \in Seq(T), NEW T2, NEW relationships \in Seq(T2),
           \A r \in Range(relationships) :
             /\ IsRelationship(r)
             /\ \E e \in Range(entities) : e.id = r.source
             /\ \E e \in Range(entities) : e.id = r.target
    PROVE  LET list == CanonicalRelationships(entities, relationships)
           IN  /\ list \in Seq(Range(list))
               /\ \A x \in Range(list) : Stored(x, Range(relationships))
               /\ \A r \in Range(relationships) : \E x \in Range(list) :
                    Endpoints(x) = <<Resolved(r.source), r.type, Resolved(r.target)>>
  <1> DEFINE ids == {e.id : e \in Range(entities)}
             remap == [id \in ids |-> ResolveEntity(CHOOSE e \in Range(entities) : e.id = id).id]
             Remap(id) == IF id \in ids THEN remap[id] ELSE id
             Remapped(r) == [r EXCEPT !.source = Remap(@), !.target = Remap(@)]
             said == Range(relationships)
             key == [r \in said |-> <<Resolved(r.source), r.type, Resolved(r.target)>>]
             keys == [i \in DOMAIN relationships |-> Endpoints(Remapped(relationships[i]))]
             groups == GroupBy(relationships, keys)
             m == Len(groups)
             list == CanonicalRelationships(entities, relationships)
  <1>1. \A id \in ids : Remap(id) = Resolved(id)
    <2> SUFFICES ASSUME NEW id \in ids PROVE Remap(id) = Resolved(id)
      OBVIOUS
    <2> DEFINE e == CHOOSE e \in Range(entities) : e.id = id
    <2>1. e \in Range(entities) /\ e.id = id
      <3>1. \E x \in Range(entities) : x.id = id
        OBVIOUS
      <3> QED  BY <3>1
    <2>2. Remap(id) = ResolveEntity(e).id
      OBVIOUS
    <2> HIDE DEF e, Remap
    <2> QED  BY <2>1, <2>2, ResolvedId
  <1>2. \A r \in said : IsRelationship(r) /\ r.source \in ids /\ r.target \in ids
    OBVIOUS
  <1>3. list = [g \in DOMAIN groups |-> Remapped(Merged(groups[g]))]
    BY DEF CanonicalRelationships
  <1> HIDE DEF ids, remap, Remap, said
  <1>4. ASSUME NEW r, IsRelationship(r), r.source \in ids, r.target \in ids
        PROVE  /\ Remapped(r) = [source |-> Resolved(r.source), type |-> r.type,
                                 target |-> Resolved(r.target), chunk |-> r.chunk,
                                 supporting |-> r.supporting, confidence |-> r.confidence]
               /\ Endpoints(Remapped(r)) = <<Resolved(r.source), r.type, Resolved(r.target)>>
    <2>0. r = [source |-> r.source, type |-> r.type, target |-> r.target, chunk |-> r.chunk,
               supporting |-> r.supporting, confidence |-> r.confidence]
      BY <1>4 DEF IsRelationship
    <2>1. Remapped(r) = [source |-> Remap(r.source), type |-> r.type,
                         target |-> Remap(r.target), chunk |-> r.chunk,
                         supporting |-> r.supporting, confidence |-> r.confidence]
      <3> DEFINE a == r.source  b == r.target  a2 == Remap(a)  b2 == Remap(b)
      <3>1. Remapped(r) = [r EXCEPT !.source = a2, !.target = b2]
        <4>1. Remapped(r) = [r EXCEPT !.source = Remap(r.source), !.target = Remap(r.target)]
          BY <2>0
        <4> QED  BY <4>1
      <3> HIDE DEF a2, b2, Remapped
      <3>2. Remapped(r) = [source |-> a2, type |-> r.type, target |-> b2, chunk |-> r.chunk,
                           supporting |-> r.supporting, confidence |-> r.confidence]
        BY <2>0, <3>1
      <3> QED  BY <3>2 DEF a2, b2
    <2>2. Remapped(r) = [source |-> Resolved(r.source), type |-> r.type,
                         target |-> Resolved(r.target), chunk |-> r.chunk,
                         supporting |-> r.supporting, confidence |-> r.confidence]
      BY <1>1, <1>4, <2>1
    <2> HIDE DEF Remapped
    <2>3. Endpoints(Remapped(r)) = <<Resolved(r.source), r.type, Resolved(r.target)>>
      BY <2>2 DEF Endpoints
    <2> QED  BY <2>2, <2>3
  <1> HIDE DEF Remapped
  <1>5. DOMAIN relationships = 1..Len(relationships)
        /\ \A x : x \in said <=> \E i \in 1..Len(relationships) : x = relationships[i]
    BY InList DEF said
  <1>6. keys = [i \in DOMAIN relationships |-> key[relationships[i]]]
    <2>1. \A i \in DOMAIN relationships : relationships[i] \in said
      BY <1>5
    <2>2. \A i \in DOMAIN relationships :
            Endpoints(Remapped(relationships[i])) = key[relationships[i]]
      <3> SUFFICES ASSUME NEW i \in DOMAIN relationships
                   PROVE  Endpoints(Remapped(relationships[i])) = key[relationships[i]]
        OBVIOUS
      <3> DEFINE r == relationships[i]
      <3>1. r \in said
        BY <2>1
      <3> HIDE DEF r
      <3>2. Endpoints(Remapped(r)) = <<Resolved(r.source), r.type, Resolved(r.target)>>
        BY <1>2, <1>4, <3>1
      <3>3. Endpoints(Remapped(r)) = key[r]
        BY <3>1, <3>2
      <3> QED  BY <3>3 DEF r
    <2> HIDE DEF key
    <2> QED  BY <2>2
  <1>7. Grouped(groups, relationships, key)
    <2> HIDE DEF keys, key
    <2> QED  BY <1>6, GroupList
  <1> HIDE DEF groups, list, key
  <1>8. m \in Nat /\ DOMAIN groups = 1..m /\ \A g \in 1..m : groups[g] \in Seq(said)
    <2> DEFINE V == Seq(said)
    <2>1. groups \in Seq(V)
      BY <1>7 DEF Grouped, said
    <2> HIDE DEF V
    <2>2. m \in Nat /\ DOMAIN groups = 1..m /\ \A g \in 1..m : groups[g] \in V
      BY <2>1
    <2> QED  BY <2>2 DEF V
  <1> DEFINE X(g) == Remapped(Merged(groups[g]))
  <1>9. list \in Seq(Range(list)) /\ \A x : x \in Range(list) <=> \E g \in 1..m : x = X(g)
    <2>1. DOMAIN list = 1..m /\ Len(list) = m /\ \A g \in 1..m : list[g] = X(g)
      BY <1>3, <1>8
    <2>2. list = [g \in 1..m |-> list[g]]
      BY <1>3, <1>8
    <2>3. \A x : x \in Range(list) <=> \E g \in 1..m : x = list[g]
      BY <2>1 DEF Range
    <2>4. m \in Nat
      BY <1>8
    <2> HIDE DEF m, X
    <2>5. list \in Seq(Range(list))
      BY <2>2, <2>4, InOrder
    <2> QED  BY <2>1, <2>3, <2>5
  <1>10. ASSUME NEW g \in 1..m
         PROVE  /\ Stored(X(g), said) /\ Head(groups[g]) \in said
                /\ Endpoints(X(g)) = key[Head(groups[g])]
    <2> DEFINE group == groups[g]  h == Head(group)  y == Merged(group)  x == X(g)
    <2>1. /\ group # <<>> /\ h \in Range(group)
          /\ Range(group) = {r \in said : key[r] = key[h]}
      BY <1>7 DEF Grouped, said
    <2>2. h \in said /\ IsRelationship(h) /\ h.source \in ids /\ h.target \in ids
      BY <1>2, <2>1
    <2>3. group \in Seq(said)
      BY <1>8
    <2> HIDE DEF group, h
    <2>4. /\ y = [source |-> h.source, type |-> h.type, target |-> h.target, chunk |-> y.chunk,
                  supporting |-> y.supporting, confidence |-> y.confidence]
          /\ y.supporting = UNION {r.supporting \cup ({r.chunk} \ {None}) : r \in Range(group)}
          /\ y.confidence = Max({r.confidence : r \in Range(group)})
          /\ \/ \A r \in Range(group) : r.chunk = None
             \/ \E r \in Range(group) : r.chunk # None /\ y.chunk = r.chunk
      BY <2>1, <2>2, <2>3, MergedGroup DEF h
    <2>5. x = Remapped(y)
      BY DEF group
    <2> HIDE DEF y, x
    <2>6. y.source = h.source /\ y.type = h.type /\ y.target = h.target /\ IsRelationship(y)
      BY <2>4 DEF IsRelationship
    <2>7. /\ x = [source |-> Resolved(h.source), type |-> h.type, target |-> Resolved(h.target),
                  chunk |-> y.chunk, supporting |-> y.supporting, confidence |-> y.confidence]
          /\ Endpoints(x) = <<Resolved(h.source), h.type, Resolved(h.target)>>
      BY <1>4, <2>2, <2>5, <2>6
    <2>8. x.chunk = y.chunk /\ x.supporting = y.supporting /\ x.confidence = y.confidence
      BY <2>7
    <2>9. Endpoints(x) = key[h]
      BY <2>2, <2>7 DEF key
    <2>10. Range(group) = Colliding(said, Endpoints(x))
      <3>1. \A r \in said : key[r] = <<Resolved(r.source), r.type, Resolved(r.target)>>
        BY DEF key
      <3> QED  BY <2>1, <2>9, <3>1 DEF Colliding
    <2>11. Stored(x, said)
      BY <2>1, <2>4, <2>8, <2>10 DEF Stored
    <2> QED  BY <2>2, <2>9, <2>11 DEF x, h, group
  <1>11. ASSUME NEW r \in said
         PROVE  \E x \in Range(list) :
                  Endpoints(x) = <<Resolved(r.source), r.type, Resolved(r.target)>>
    <2>1. PICK g \in 1..m : key[Head(groups[g])] = key[r]
      BY <1>7 DEF Grouped, said
    <2>2. Endpoints(X(g)) = key[r] /\ X(g) \in Range(list)
      <3> HIDE DEF X
      <3> QED  BY <1>9, <1>10, <2>1
    <2>3. key[r] = <<Resolved(r.source), r.type, Resolved(r.target)>>
      BY DEF key
    <2> HIDE DEF X
    <2> QED  BY <2>2, <2>3
  <1>12. \A x \in Range(list) : Stored(x, said)
    <2> HIDE DEF X, m
    <2> QED  BY <1>9, <1>10
  <1> HIDE DEF m, X
  <1> QED  BY <1>9, <1>11, <1>12 DEF list, said

-----------------------------------------------------------------------------
(* Parsing and chunking: what they make of blocks is made of the same words. *)

\* What flattening a list of lists gives.
LEMMA Flattened ==
    ASSUME NEW T, NEW lists \in Seq(Seq(T))
    PROVE  /\ FlattenSeq(lists) \in Seq(T)
           /\ \A x : x \in Range(FlattenSeq(lists)) <=> \E i \in 1..Len(lists) : x \in Range(lists[i])
  <1> DEFINE V == Seq(T)  n == Len(lists)
  <1>1. lists \in Seq(V)
    OBVIOUS
  <1>2. n \in Nat /\ DOMAIN lists = 1..n /\ \A i \in 1..n : lists[i] \in V
    <2> HIDE DEF V
    <2> QED  BY <1>1
  <1>3. Len(lists) = n /\ \A i \in 1..n : lists[i] \in Seq(T)
    BY <1>2
  <1> HIDE DEF n
  <1>4. /\ FlattenSeq(lists) \in Seq(T)
        /\ \A x : x \in Range(FlattenSeq(lists)) <=> \E i \in 1..n : x \in Range(lists[i])
    BY <1>2, <1>3, FlattenList
  <1> QED  BY <1>4 DEF n

\* A part of a list that begins and ends in it, or is empty.
LEMMA PartOf ==
    ASSUME NEW T, NEW s \in Seq(T), NEW a \in Int, NEW b \in Int, a >= 1, b <= Len(s)
    PROVE  SubSeq(s, a, b) \in Seq(T)
  <1>1. \A i \in a..b : s[i] \in T
    <2> SUFFICES ASSUME NEW i \in a..b PROVE s[i] \in T
      OBVIOUS
    <2>1. i \in 1..Len(s)
      OBVIOUS
    <2> QED  BY <2>1
  <1> QED  BY <1>1, SubSeqProperties

\* Cleaned pages are pages.
LEMMA CleanPagesType ==
    ASSUME NEW pages \in Seq(Seq(Block))
    PROVE  CleanPages(pages) \in Seq(Seq(Block))
  <1> DEFINE V == Seq(Block)
             headers == Repeated(pages, Head)
             footers == Repeated(pages, Last)
             WithoutHeader(page) ==
                 IF page # <<>> /\ Head(page).mark \in headers THEN Tail(page) ELSE page
             Clean(page) ==
                 IF page # <<>> /\ WithoutHeader(page) # <<>> /\ Last(page).mark \in footers
                 THEN Front(WithoutHeader(page)) ELSE WithoutHeader(page)
  <1>1. CleanPages(pages) = [i \in DOMAIN pages |-> Clean(pages[i])]
    BY DEF CleanPages
  <1> HIDE DEF headers, footers
  <1>2. ASSUME NEW page \in V PROVE Clean(page) \in V
    <2>1. page # <<>> => Tail(page) \in V
      BY HeadTailProperties
    <2>2. WithoutHeader(page) \in V
      BY <2>1
    <2> HIDE DEF WithoutHeader
    <2>3. ASSUME NEW s \in V PROVE Front(s) \in V
      <3>1. Len(s) \in Nat /\ Len(s) - 1 \in Int /\ Len(s) - 1 <= Len(s)
        OBVIOUS
      <3>2. SubSeq(s, 1, Len(s) - 1) \in V
        BY <3>1, PartOf
      <3> QED  BY <3>2 DEF Front
    <2> HIDE DEF V
    <2> QED  BY <2>2, <2>3
  <1>3. pages \in Seq(V)
    OBVIOUS
  <1> HIDE DEF V, Clean
  <1>4. [i \in DOMAIN pages |-> Clean(pages[i])] \in Seq(V)
    <2>1. Len(pages) \in Nat /\ DOMAIN pages = 1..Len(pages)
          /\ \A i \in 1..Len(pages) : pages[i] \in V
      BY <1>3
    <2>2. \A i \in 1..Len(pages) : Clean(pages[i]) \in V
      BY <1>2, <2>1
    <2> QED  BY <2>1, <2>2
  <1> QED  BY <1>1, <1>4 DEF V

\* Sections as they are stored.
AreSections(list) == list \in Seq(Range(list)) /\ \A s \in Range(list) : s.blocks \in Seq(Block)

\* The sections of a document have its blocks.
LEMMA RecoverType ==
    ASSUME NEW pages \in Seq(Seq(Block))
    PROVE  AreSections(RecoverSections(pages))
  <1> DEFINE blocks == FlattenSeq(pages)
             After(first) == SubSeq(blocks, first + 1, Len(blocks))
             Next1(first) == {i \in DOMAIN After(first) : After(first)[i].heading # NoHeading}
             End(first) == (IF Next1(first) = {} THEN Len(After(first)) + 1 ELSE Min(Next1(first))) - 1
             Body(first) == SubSeq(After(first), 1, End(first))
             Section(i) == [type |-> blocks[i].heading, blocks |-> Body(i)]
             H == {i \in DOMAIN blocks : blocks[i].heading # NoHeading}
             headings == Ascending(H)
             all == IF headings = <<>> THEN <<[type |-> "other", blocks |-> blocks]>>
                    ELSE [i \in DOMAIN headings |-> Section(headings[i])]
             S == {section \in Range(all) : WordsOf(section.blocks) # <<>>}
  <1>1. RecoverSections(pages) = Picked(all, S)
    BY DEF RecoverSections
  <1>2. blocks \in Seq(Block)
    BY Flattened
  <1> HIDE DEF blocks
  <1>3. ASSUME NEW first \in DOMAIN blocks PROVE Body(first) \in Seq(Block)
    <2>1. first \in Int /\ first >= 1 /\ Len(blocks) \in Int
      BY <1>2
    <2>2. After(first) \in Seq(Block)
      <3>1. first + 1 \in Int /\ first + 1 >= 1 /\ Len(blocks) <= Len(blocks)
        BY <2>1
      <3> QED  BY <1>2, <2>1, <3>1, PartOf
    <2> DEFINE after == After(first)  next == Next1(first)
    <2> HIDE DEF after
    <2>3. next \in SUBSET (1..Len(after)) /\ Len(after) \in Nat
      BY <2>2 DEF after
    <2>4. End(first) \in Int /\ End(first) <= Len(after)
      <3>1. CASE next = {}
        BY <2>3, <3>1 DEF after
      <3>2. CASE next # {}
        <4>1. \E i \in next : \A j \in next : i <= j
          <5>1. next \in SUBSET Nat
            BY <2>3
          <5> QED  BY <3>2, <5>1, SmallestNumber
        <4>2. Min(next) \in next
          BY <4>1 DEF Min
        <4>3. Min(next) \in 1..Len(after)
          BY <2>3, <4>2
        <4>4. End(first) = Min(next) - 1
          BY <3>2
        <4> HIDE DEF next, End, Next1
        <4>5. Min(next) \in Int /\ Min(next) <= Len(after)
          BY <2>3, <4>3
        <4> QED  BY <2>3, <4>4, <4>5
      <3> QED  BY <3>1, <3>2
    <2>5. SubSeq(after, 1, End(first)) \in Seq(Block)
      <3>1. after \in Seq(Block) /\ 1 \in Int /\ 1 >= 1
        BY <2>2 DEF after
      <3> HIDE DEF End, Next1
      <3> QED  BY <2>4, <3>1, PartOf
    <2> QED  BY <2>5 DEF after
  <1> HIDE DEF Body
  <1>4. AreSections(all)
    <2>1. CASE headings = <<>>
      <3>1. all = <<[type |-> "other", blocks |-> blocks]>>
        BY <2>1
      <3> DEFINE only == [type |-> "other", blocks |-> blocks]
      <3>2. only.blocks = blocks
        OBVIOUS
      <3> HIDE DEF only, all
      <3>3. DOMAIN all = 1..1 /\ all[1] = only /\ all = [i \in 1..1 |-> all[i]]
        BY <3>1 DEF only
      <3>4. all \in Seq(Range(all)) /\ \A x : x \in Range(all) <=> \E i \in 1..1 : x = all[i]
        BY <3>3, InOrder
      <3> QED  BY <1>2, <3>2, <3>3, <3>4 DEF AreSections
    <2>2. CASE headings # <<>>
      <3> DEFINE n == Cardinality(H)
      <3>1. H \in SUBSET Nat /\ H \subseteq DOMAIN blocks /\ IsFiniteSet(H) /\ n \in Nat
        <4>1. H \subseteq 1..Len(blocks) /\ DOMAIN blocks = 1..Len(blocks) /\ Len(blocks) \in Nat
          BY <1>2
        <4>2. IsFiniteSet(1..Len(blocks))
          BY <4>1, UpTo
        <4>3. IsFiniteSet(H)
          BY <4>1, <4>2, FS_Subset
        <4> HIDE DEF H
        <4> QED  BY <4>1, <4>3, FS_CardinalityType
      <3>2. headings \in [1..n -> H]
        <4> HIDE DEF H
        <4> QED  BY <3>1, AscendingList
      <3>3. all = [i \in 1..n |-> Section(headings[i])]
        BY <2>2, <3>2
      <3> HIDE DEF all, headings, H, n
      <3>4. all = [i \in 1..n |-> all[i]] /\ \A i \in 1..n : all[i].blocks = Body(headings[i])
        BY <3>3
      <3>5. all \in Seq(Range(all)) /\ \A x : x \in Range(all) <=> \E i \in 1..n : x = all[i]
        BY <3>1, <3>4, InOrder
      <3>6. \A i \in 1..n : all[i].blocks \in Seq(Block)
        BY <1>3, <3>1, <3>2, <3>4
      <3> QED  BY <3>5, <3>6 DEF AreSections
    <2> QED  BY <2>1, <2>2
  <1> HIDE DEF all, S
  <1>5. Picked(all, S) \in Seq(Range(all)) /\ Range(Picked(all, S)) = Range(all) \cap S
    <2>1. all \in Seq(Range(all))
      BY <1>4 DEF AreSections
    <2> QED  BY <2>1, PickedSet
  <1>6. Picked(all, S) \in Seq(Range(Picked(all, S)))
    BY <1>5, InList
  <1> QED  BY <1>1, <1>4, <1>5, <1>6 DEF AreSections

Texts == Seq(Seq(Word))

\* The sentences of a block are texts.
LEMMA SentencesType ==
    ASSUME NEW b \in Block
    PROVE  b.sentences \in Seq(Seq(Word))
  <1> DEFINE U == Seq(Word) \ {<<>>}  V == Seq(Word)
  <1>1. b.sentences \in Seq(U)
    BY BlockAssumption
  <1>2. \A u \in U : u \in V
    OBVIOUS
  <1> HIDE DEF U, V
  <1>3. b.sentences \in Seq(V)
    BY <1>1, <1>2
  <1> QED  BY <1>3 DEF V

\* The words of blocks are a text.
LEMMA WordsType ==
    ASSUME NEW section \in Seq(Block)
    PROVE  WordsOf(section) \in Seq(Word)
  <1> DEFINE V == Seq(Word)  list == [i \in DOMAIN section |-> FlattenSeq(section[i].sentences)]
  <1>1. \A i \in DOMAIN section : FlattenSeq(section[i].sentences) \in V
    BY SentencesType, Flattened
  <1>2. list \in Seq(V)
    <2> HIDE DEF V
    <2>1. Len(section) \in Nat /\ DOMAIN section = 1..Len(section)
      OBVIOUS
    <2> QED  BY <1>1, <2>1
  <1>3. FlattenSeq(list) \in Seq(Word)
    <2> HIDE DEF list
    <2> QED  BY <1>2, Flattened
  <1> QED  BY <1>3 DEF WordsOf

\* Cut by words, a sentence is texts.
LEMMA SplitType ==
    ASSUME NEW sentence \in Seq(Word)
    PROVE  SplitByWords(sentence) \in Texts
  <1> DEFINE n == Len(sentence)
             pieces == (n + ChunkSize - 1) \div ChunkSize
             End(i) == IF i * ChunkSize < n THEN i * ChunkSize ELSE n
             Piece(i) == SubSeq(sentence, (i - 1) * ChunkSize + 1, End(i))
             V == Seq(Word)
  <1>1. n \in Nat /\ ChunkSize \in Nat /\ ChunkSize > 0
    BY SizesAssumption
  <1>2. pieces \in Nat
    <2>1. n + ChunkSize - 1 \in Nat
      BY <1>1
    <2> DEFINE total == n + ChunkSize - 1
    <2> HIDE DEF total
    <2>2. total \in Nat => total \div ChunkSize \in Nat
      BY <1>1
    <2> QED  BY <2>1, <2>2 DEF total
  <1>3. ASSUME NEW i \in 1..pieces PROVE Piece(i) \in V
    <2>1. i \in Int /\ i - 1 \in Nat
      BY <1>2
    <2> HIDE DEF pieces
    <2>2. (i - 1) * ChunkSize \in Nat /\ i * ChunkSize \in Int
      BY <1>1, <2>1
    <2> DEFINE low == (i - 1) * ChunkSize  high == i * ChunkSize
    <2> HIDE DEF low, high, n
    <2>3. low + 1 \in Int /\ low + 1 >= 1
      BY <2>2 DEF low
    <2>4. (IF high < n THEN high ELSE n) \in Int /\ (IF high < n THEN high ELSE n) <= n
      BY <1>1, <2>2 DEF high
    <2>5. SubSeq(sentence, low + 1, IF high < n THEN high ELSE n) \in Seq(Word)
      BY <2>3, <2>4, PartOf DEF n
    <2> QED  BY <2>5 DEF low, high
  <1>4. SplitByWords(sentence) = [i \in 1..pieces |-> Piece(i)]
    BY DEF SplitByWords
  <1> HIDE DEF pieces, Piece, V
  <1>5. [i \in 1..pieces |-> Piece(i)] \in Seq(V)
    BY <1>2, <1>3
  <1> QED  BY <1>4, <1>5 DEF V, Texts

\* The units of a section are texts.
LEMMA UnitsType ==
    ASSUME NEW section \in Seq(Block)
    PROVE  UnitsOf(section) \in Texts
  <1> DEFINE V == Seq(Word)
             Sentence(s) == IF Len(s) <= ChunkSize THEN <<s>> ELSE SplitByWords(s)
             Sentences(p) == [i \in DOMAIN p |-> Sentence(p[i])]
             Paragraph(p) == IF Size(p) <= ChunkSize THEN <<FlattenSeq(p)>>
                             ELSE FlattenSeq(Sentences(p))
             paragraphs == [i \in DOMAIN section |-> Paragraph(section[i].sentences)]
  <1>1. ASSUME NEW v \in V PROVE <<v>> \in Seq(V)
    <2> HIDE DEF V
    <2> QED  OBVIOUS
  <1>2. ASSUME NEW s \in V PROVE Sentence(s) \in Seq(V)
    <2>1. <<s>> \in Seq(V) /\ SplitByWords(s) \in Seq(V)
      BY <1>1, SplitType DEF Texts
    <2> HIDE DEF V
    <2> QED  BY <2>1
  <1> HIDE DEF Sentence
  <1>3. ASSUME NEW p \in Seq(V) PROVE Paragraph(p) \in Seq(V)
    <2>1. FlattenSeq(p) \in V
      BY Flattened
    <2>2. Sentences(p) \in Seq(Seq(V))
      <3> DEFINE W == Seq(V)
      <3>1. Len(p) \in Nat /\ DOMAIN p = 1..Len(p) /\ \A i \in DOMAIN p : p[i] \in V
        <4> HIDE DEF V
        <4> QED  OBVIOUS
      <3>2. \A i \in DOMAIN p : Sentence(p[i]) \in W
        BY <1>2, <3>1
      <3> HIDE DEF W, V
      <3>3. Sentences(p) \in Seq(W)
        BY <3>1, <3>2
      <3> QED  BY <3>3 DEF W
    <2>3. FlattenSeq(Sentences(p)) \in Seq(V)
      <3> HIDE DEF V, Sentences
      <3> QED  BY <2>2, Flattened
    <2>4. <<FlattenSeq(p)>> \in Seq(V)
      BY <1>1, <2>1
    <2> HIDE DEF V, Sentences
    <2> QED  BY <2>3, <2>4
  <1> HIDE DEF Paragraph
  <1>4. paragraphs \in Seq(Seq(V))
    <2> DEFINE W == Seq(V)
    <2>1. Len(section) \in Nat /\ DOMAIN section = 1..Len(section)
          /\ \A i \in DOMAIN section : section[i].sentences \in Seq(V)
      BY SentencesType
    <2>2. \A i \in DOMAIN section : Paragraph(section[i].sentences) \in W
      BY <1>3, <2>1
    <2> HIDE DEF W, V
    <2>3. paragraphs \in Seq(W)
      BY <2>1, <2>2
    <2> QED  BY <2>3 DEF W
  <1>5. FlattenSeq(paragraphs) \in Seq(V)
    <2> HIDE DEF V, paragraphs
    <2> QED  BY <1>4, Flattened
  <1>6. UnitsOf(section) = FlattenSeq(paragraphs)
    BY DEF UnitsOf, Paragraph, Sentence
  <1> QED  BY <1>5, <1>6 DEF Texts

\* What is carried over: the last units, as many as fit the overlap.
LEMMA OverlapPart ==
    ASSUME NEW units \in Texts
    PROVE  \E k \in 1..(Len(units) + 1) :
             /\ OverlapTail(units) = SubSeq(units, k, Len(units))
             /\ Size(SubSeq(units, k, Len(units))) <= Overlap
  <1> DEFINE V == Seq(Word)  n == Len(units)
             Fits(k) == Size(SubSeq(units, k, n)) <= Overlap
             D == {k \in 1..(n + 1) : Fits(k)}
             Start1(k) == k \in 1..(n + 1) /\ Fits(k) /\ \A j \in 1..(k - 1) : ~Fits(j)
             start == CHOOSE k \in 1..(n + 1) : Fits(k) /\ \A j \in 1..(k - 1) : ~Fits(j)
  <1>1. units \in Seq(V)
    BY DEF Texts
  <1> HIDE DEF V
  <1>2. n \in Nat
    BY <1>1
  <1>3. Fits(n + 1)
    <2>1. SubSeq(units, n + 1, n) = <<>>
      BY <1>2, SubSeqEmpty
    <2>2. FlattenSeq(<<>>) = <<>>
      BY DEF FlattenSeq
    <2>3. Size(<<>>) = 0
      BY <2>2 DEF Size
    <2>4. 0 <= Overlap
      BY SizesAssumption
    <2>5. Size(SubSeq(units, n + 1, n)) <= Overlap
      <3> HIDE DEF n
      <3> QED  BY <2>1, <2>3, <2>4
    <2> QED  BY <2>5
  <1> HIDE DEF Fits, n
  <1>4. D \in SUBSET Nat /\ n + 1 \in D
    BY <1>2, <1>3
  <1>5. PICK k \in D : \A j \in D : k <= j
    BY <1>4, SmallestNumber
  <1>6. k \in 1..(n + 1) /\ Fits(k)
    OBVIOUS
  <1>7. \A j \in 1..(k - 1) : ~Fits(j)
    <2> SUFFICES ASSUME NEW j \in 1..(k - 1), Fits(j) PROVE FALSE
      OBVIOUS
    <2>1. j \in 1..(n + 1) /\ ~(k <= j)
      BY <1>2, <1>6
    <2> QED  BY <1>5, <2>1
  <1>8. start \in 1..(n + 1) /\ Fits(start)
    BY <1>6, <1>7
  <1>9. OverlapTail(units) = SubSeq(units, start, n)
    BY DEF OverlapTail, Fits, n
  <1> HIDE DEF start
  <1> QED  BY <1>8, <1>9 DEF Fits, n

\* The tail that is carried over is units.
LEMMA OverlapType ==
    ASSUME NEW units \in Texts
    PROVE  OverlapTail(units) \in Texts
  <1> DEFINE V == Seq(Word)  n == Len(units)
  <1>1. units \in Seq(V)
    BY DEF Texts
  <1> HIDE DEF V
  <1>2. PICK k \in 1..(n + 1) : OverlapTail(units) = SubSeq(units, k, n)
    BY OverlapPart
  <1>3. k \in Int /\ k >= 1 /\ n \in Int /\ n <= n
    BY <1>1
  <1>4. SubSeq(units, k, n) \in Seq(V)
    BY <1>1, <1>3, PartOf
  <1> QED  BY <1>2, <1>4 DEF V, Texts

\* One unit more.
Full(acc, unit) == acc.current # <<>> /\ Size(acc.current) + Len(unit) > ChunkSize

Pack(acc, unit) ==
    IF Full(acc, unit)
    THEN [done |-> Append(acc.done, FlattenSeq(acc.current)),
          current |-> Append(OverlapTail(acc.current), unit)]
    ELSE [acc EXCEPT !.current = Append(@, unit)]

\* What is packed of the first units.
IsPacking(f, units) ==
    /\ f \in [0..Len(units) -> [done : Texts, current : Texts]]
    /\ f[0] = [done |-> <<>>, current |-> <<>>]
    /\ \A i \in 1..Len(units) : f[i] = Pack(f[i - 1], units[i])
    /\ PackUnits(units) = Append(f[Len(units)].done, FlattenSeq(f[Len(units)].current))

\* PackUnits, as what is packed of the first units, unit by unit.
LEMMA Packing ==
    ASSUME NEW units \in Texts
    PROVE  \E f : IsPacking(f, units)
  <1> DEFINE V == Seq(Word)
             A == [done : Seq(V), current : Seq(V)]
             n == Len(units)
             zero == [done |-> <<>>, current |-> <<>>]
             Step(f) == [i \in 0..n |-> IF i = 0 THEN zero ELSE Pack(f[i - 1], units[i])]
             packed == CHOOSE f : f = Step(f)
             P == {i \in 0..n : packed[i] \in A}
  <1>1. PackUnits(units) = Append(packed[n].done, FlattenSeq(packed[n].current))
    BY DEF PackUnits, Pack, Full
  <1>2. n \in Nat /\ \A i \in 1..n : units[i] \in V
    <2>1. units \in Seq(V)
      BY DEF Texts
    <2> HIDE DEF V
    <2> QED  BY <2>1
  <1>3. zero \in A
    BY DEF Texts
  <1>4. ASSUME NEW acc \in A, NEW unit \in V PROVE Pack(acc, unit) \in A
    <2>1. acc.done \in Seq(V) /\ acc.current \in Seq(V)
          /\ acc = [done |-> acc.done, current |-> acc.current]
      <3> HIDE DEF V
      <3> QED  OBVIOUS
    <2>2. FlattenSeq(acc.current) \in V
      BY <2>1, Flattened
    <2>3. OverlapTail(acc.current) \in Seq(V)
      BY <2>1, OverlapType DEF Texts
    <2> HIDE DEF V
    <2>4. /\ Append(acc.done, FlattenSeq(acc.current)) \in Seq(V)
          /\ Append(OverlapTail(acc.current), unit) \in Seq(V)
          /\ Append(acc.current, unit) \in Seq(V)
      BY <2>1, <2>2, <2>3, AppendProperties
    <2>5. CASE Full(acc, unit)
      <3>1. Pack(acc, unit) = [done |-> Append(acc.done, FlattenSeq(acc.current)),
                               current |-> Append(OverlapTail(acc.current), unit)]
        BY <2>5 DEF Pack
      <3> QED  BY <2>4, <3>1
    <2>6. CASE ~Full(acc, unit)
      <3>1. Pack(acc, unit) = [acc EXCEPT !.current = Append(acc.current, unit)]
        BY <2>6 DEF Pack
      <3>2. Pack(acc, unit) = [done |-> acc.done, current |-> Append(acc.current, unit)]
        BY <2>1, <3>1
      <3> QED  BY <2>1, <2>4, <3>2
    <2> QED  BY <2>5, <2>6
  <1> HIDE DEF zero, A, V
  <1>5. \E f : f = Step(f)
    <2> DEFINE step == [z \in A \X (1..n) |-> Pack(z[1], units[z[2]])]
    <2>1. step \in [A \X (1..n) -> A]
      <3>1. \A z \in A \X (1..n) : z[1] \in A /\ z[2] \in 1..n
        OBVIOUS
      <3> HIDE DEF n
      <3>2. \A z \in A \X (1..n) : Pack(z[1], units[z[2]]) \in A
        BY <1>2, <1>4, <3>1
      <3> QED  BY <3>2
    <2>2. PICK f : Solves(f, n, A, zero, step)
      <3> HIDE DEF step, n
      <3> QED  BY <1>2, <1>3, <2>1, Recursion
    <2>3. ASSUME NEW i \in 1..n PROVE f[i] = Pack(f[i - 1], units[i])
      <3>1. i - 1 \in 0..n
        BY <1>2
      <3>2. f[i] = step[<<f[i - 1], i>>]
        <4> HIDE DEF step
        <4> QED  BY <2>2 DEF Solves
      <3>3. f[i - 1] \in A
        BY <2>2, <3>1 DEF Solves
      <3>4. <<f[i - 1], i>> \in A \X (1..n) /\ <<f[i - 1], i>>[1] = f[i - 1] /\ <<f[i - 1], i>>[2] = i
        BY <3>3
      <3> QED  BY <3>2, <3>4
    <2>4. f = [i \in 0..n |-> f[i]] /\ f[0] = zero
      BY <2>2 DEF Solves
    <2>5. ASSUME NEW i \in 0..n PROVE f[i] = IF i = 0 THEN zero ELSE Pack(f[i - 1], units[i])
      <3>1. i # 0 => i \in 1..n
        BY <1>2
      <3> HIDE DEF n
      <3> QED  BY <2>3, <2>4, <3>1
    <2>6. f = Step(f)
      <3>1. Step(f) = [i \in 0..n |-> Step(f)[i]] /\ \A i \in 0..n : Step(f)[i] = f[i]
        BY <2>5
      <3> HIDE DEF Step, n
      <3> QED  BY <2>4, <3>1
    <2> HIDE DEF Step
    <2> QED  BY <2>6
  <1>6. packed = Step(packed)
    <2> HIDE DEF Step
    <2> QED  BY <1>5
  <1> HIDE DEF packed
  <1>7. packed[0] = zero /\ \A i \in 1..n : packed[i] = Pack(packed[i - 1], units[i])
    <2>1. 0 \in 0..n /\ \A i \in 1..n : i \in 0..n /\ i # 0
      BY <1>2
    <2> HIDE DEF n
    <2>2. Step(packed)[0] = zero
          /\ \A i \in 1..n : Step(packed)[i] = Pack(packed[i - 1], units[i])
      BY <2>1
    <2> HIDE DEF Step
    <2> QED  BY <1>6, <2>2
  <1>8. P = 0..n
    <2> HIDE DEF n
    <2>1. P \in SUBSET (0..n) /\ 0 \in P
      BY <1>2, <1>3, <1>7
    <2>2. ASSUME NEW i \in 1..n, i - 1 \in P PROVE i \in P
      <3>1. packed[i - 1] \in A /\ i \in 0..n
        BY <1>2, <2>2
      <3>2. Pack(packed[i - 1], units[i]) \in A
        BY <1>2, <1>4, <3>1
      <3> QED  BY <1>7, <3>1, <3>2
    <2> HIDE DEF P
    <2> QED  BY <1>2, <2>1, <2>2, Induction
  <1>9. packed \in [0..n -> A]
    <2>1. packed = [i \in 0..n |-> packed[i]]
      <3>1. packed = Step(packed) /\ Step(packed) = [i \in 0..n |-> Step(packed)[i]]
        BY <1>6
      <3> HIDE DEF Step, n
      <3> QED  BY <3>1
    <2>2. \A i \in 0..n : packed[i] \in A
      BY <1>8
    <2> HIDE DEF n
    <2> QED  BY <2>1, <2>2
  <1>10. A = [done : Texts, current : Texts]
    BY DEF A, V, Texts
  <1> HIDE DEF Step
  <1>11. IsPacking(packed, units)
    BY <1>1, <1>7, <1>9, <1>10 DEF IsPacking, zero, packed, n
  <1> QED  BY <1>11

\* Packed units are texts.
LEMMA PackType ==
    ASSUME NEW units \in Texts
    PROVE  PackUnits(units) \in Texts
  <1> DEFINE V == Seq(Word)  n == Len(units)
  <1>1. PICK f : IsPacking(f, units)
    BY Packing
  <1>2. n \in 0..n
    <2>1. units \in Seq(V)
      BY DEF Texts
    <2> HIDE DEF V
    <2> QED  BY <2>1
  <1>3. f[n].done \in Texts /\ f[n].current \in Texts
        /\ PackUnits(units) = Append(f[n].done, FlattenSeq(f[n].current))
    <2> HIDE DEF n
    <2>1. f[n] \in [done : Texts, current : Texts]
      BY <1>1, <1>2 DEF IsPacking, n
    <2>2. PackUnits(units) = Append(f[n].done, FlattenSeq(f[n].current))
      BY <1>1 DEF IsPacking, n
    <2> QED  BY <2>1, <2>2
  <1>4. FlattenSeq(f[n].current) \in V
    <2>1. f[n].current \in Seq(Seq(Word))
      BY <1>3 DEF Texts
    <2> QED  BY <2>1, Flattened
  <1> HIDE DEF V, n
  <1>5. f[n].done \in Seq(V)
    BY <1>3 DEF Texts, V
  <1>6. Append(f[n].done, FlattenSeq(f[n].current)) \in Seq(V)
    BY <1>4, <1>5, AppendProperties
  <1> QED  BY <1>3, <1>6 DEF V, Texts

\* Merged chunks are texts.
LEMMA MergeType ==
    ASSUME NEW texts \in Texts
    PROVE  MergeTinyTrailing(texts) \in Texts
  <1> DEFINE V == Seq(Word)  n == Len(texts)
  <1>1. texts \in Seq(V)
    BY DEF Texts
  <1>2. ASSUME n > 1 PROVE Append(SubSeq(texts, 1, n - 2), texts[n - 1] \o texts[n]) \in Seq(V)
    <2>1. texts[n - 1] \in V /\ texts[n] \in V
      <3> HIDE DEF V
      <3>1. n - 1 \in 1..n /\ n \in 1..n
        BY <1>1, <1>2
      <3> QED  BY <1>1, <3>1
    <2>2. texts[n - 1] \o texts[n] \in V
      BY <2>1, ConcatProperties
    <2> HIDE DEF V
    <2>3. n - 2 \in Int /\ n - 2 <= n
      BY <1>1
    <2>4. SubSeq(texts, 1, n - 2) \in Seq(V)
      BY <1>1, <2>3, PartOf
    <2> QED  BY <2>2, <2>4, AppendProperties
  <1>3. n \in Int
    <2> HIDE DEF V
    <2> QED  BY <1>1
  <1>4. MergeTinyTrailing(texts) =
          IF n <= 1 \/ Len(texts[n]) >= MinTokens THEN texts
          ELSE Append(SubSeq(texts, 1, n - 2), texts[n - 1] \o texts[n])
    BY DEF MergeTinyTrailing
  <1> HIDE DEF n, V
  <1>5. MergeTinyTrailing(texts) \in Seq(V)
    BY <1>1, <1>2, <1>3, <1>4
  <1> QED  BY <1>5 DEF V, Texts

\* The chunks of a section are texts.
LEMMA ChunksType ==
    ASSUME NEW section \in Seq(Block)
    PROVE  ChunksOfSection(section) \in Texts
  <1> DEFINE V == Seq(Word)  words == WordsOf(section)
  <1>1. words \in V
    BY WordsType
  <1>2. MergeTinyTrailing(PackUnits(UnitsOf(section))) \in Texts
    BY UnitsType, PackType, MergeType
  <1>3. <<>> \in Seq(V) /\ <<words>> \in Seq(V)
    <2> HIDE DEF V, words
    <2> QED  BY <1>1
  <1>4. CASE words = <<>>
    <2>1. ChunksOfSection(section) = <<>>
      BY <1>4 DEF ChunksOfSection
    <2> QED  BY <1>3, <2>1 DEF Texts
  <1>5. CASE words # <<>> /\ Len(words) \in 1..ChunkSize
    <2>1. ChunksOfSection(section) = <<words>>
      BY <1>5 DEF ChunksOfSection
    <2> QED  BY <1>3, <2>1 DEF Texts
  <1>6. CASE words # <<>> /\ Len(words) \notin 1..ChunkSize
    <2>1. ChunksOfSection(section) = MergeTinyTrailing(PackUnits(UnitsOf(section)))
      BY <1>6 DEF ChunksOfSection
    <2> QED  BY <1>2, <2>1
  <1> QED  BY <1>4, <1>5, <1>6

\* Chunks as they are stored: of this paper, and made of words.
AreChunks(p, list) ==
    /\ list \in Seq(Range(list))
    /\ \A c \in Range(list) : c.id \in {p} \X Nat \X Nat /\ c.text \in Seq(Word)

\* The chunks of a document are texts with ids of its paper.
LEMMA ChunkDocumentType ==
    ASSUME NEW p, NEW parsed, AreSections(parsed),
           NEW ChunksOf, ChunksOf = [i \in DOMAIN parsed |->
               [k \in DOMAIN ChunksOfSection(parsed[i].blocks) |->
                   [id |-> <<p, i, k>>, text |-> ChunksOfSection(parsed[i].blocks)[k],
                    type |-> parsed[i].type]]]
    PROVE  AreChunks(p, FlattenSeq(ChunksOf))
  <1> DEFINE V == Seq(Word)  ID == {p} \X Nat \X Nat
             T == [id : ID, text : V, type : {parsed[i].type : i \in DOMAIN parsed}]
  <1>1. DOMAIN parsed = 1..Len(parsed) /\ Len(parsed) \in Nat
        /\ \A i \in DOMAIN parsed : parsed[i].blocks \in Seq(Block)
    BY InList DEF AreSections
  <1>2. ASSUME NEW i \in DOMAIN parsed PROVE ChunksOf[i] \in Seq(T)
    <2> DEFINE texts == ChunksOfSection(parsed[i].blocks)
               type == parsed[i].type
    <2>1. texts \in Seq(V)
      BY <1>1, ChunksType DEF Texts
    <2>2. ChunksOf[i] = [k \in DOMAIN texts |-> [id |-> <<p, i, k>>, text |-> texts[k], type |-> type]]
      OBVIOUS
    <2>3. type \in {parsed[j].type : j \in DOMAIN parsed} /\ i \in Nat
      BY <1>1
    <2> HIDE DEF texts, V, type
    <2>4. Len(texts) \in Nat /\ DOMAIN texts = 1..Len(texts)
          /\ \A k \in DOMAIN texts : texts[k] \in V /\ k \in Nat
      BY <2>1
    <2>5. \A k \in DOMAIN texts : <<p, i, k>> \in ID
      BY <2>3, <2>4
    <2> HIDE DEF ID
    <2>6. \A k \in DOMAIN texts : [id |-> <<p, i, k>>, text |-> texts[k], type |-> type] \in T
      BY <2>3, <2>4, <2>5
    <2> DEFINE Chunk(k) == [id |-> <<p, i, k>>, text |-> texts[k], type |-> type]
               n == Len(texts)
    <2> HIDE DEF T
    <2>7. \A k \in 1..n : Chunk(k) \in T
      BY <2>4, <2>6
    <2>8. ChunksOf[i] = [k \in 1..n |-> Chunk(k)] /\ n \in Nat
      BY <2>2, <2>4
    <2> HIDE DEF Chunk, n
    <2>9. [k \in 1..n |-> Chunk(k)] \in Seq(T)
      BY <2>7, <2>8
    <2> QED  BY <2>8, <2>9
  <1>3. ChunksOf \in Seq(Seq(T))
    <2> DEFINE W == Seq(T)
    <2>1. \A i \in DOMAIN parsed : ChunksOf[i] \in W
      BY <1>2
    <2>2. DOMAIN ChunksOf = DOMAIN parsed /\ ChunksOf = [i \in DOMAIN parsed |-> ChunksOf[i]]
      OBVIOUS
    <2> HIDE DEF W
    <2>3. ChunksOf \in Seq(W)
      BY <1>1, <2>1, <2>2
    <2> QED  BY <2>3 DEF W
  <1> HIDE DEF T
  <1>4. FlattenSeq(ChunksOf) \in Seq(T)
    BY <1>3, Flattened
  <1>5. FlattenSeq(ChunksOf) \in Seq(Range(FlattenSeq(ChunksOf))) /\ Range(FlattenSeq(ChunksOf)) \subseteq T
    BY <1>4, InList
  <1>6. \A c \in T : c.id \in ID /\ c.text \in V
    BY DEF T
  <1> HIDE DEF ID, V
  <1>7. \A c \in Range(FlattenSeq(ChunksOf)) : c.id \in ID /\ c.text \in V
    BY <1>5, <1>6
  <1> QED  BY <1>5, <1>7 DEF AreChunks, ID, V

-----------------------------------------------------------------------------
(* The artifact of an extraction. *)

\* The citations of a paper: a fact for each arXiv id in each references chunk.
References(p) == {c \in Range(chunks[p]) : c.type = "references"}
Cites(p, c) == {Fact(PaperId(p), "cites", PaperId(ArxivId[w]), c.id) :
                    w \in CitedIn(c.text)}
Citing(p) == UNION {Cites(p, c) : c \in References(p)}

\* The citations of a paper are those its references chunks hold.
LEMMA CitationsList ==
    ASSUME NEW p, AreChunks(p, chunks[p])
    PROVE  Citations(p) \in Seq(Citing(p)) /\ Range(Citations(p)) = Citing(p)
  <1> DEFINE references == OfSections(p, {"references"})
             ids(c) == Picked(c.text, CitedIn(c.text))
             InChunk(c) == [i \in DOMAIN ids(c) |->
                                Fact(PaperId(p), "cites", PaperId(ArxivId[ids(c)[i]]), c.id)]
             lists == [i \in DOMAIN references |-> InChunk(references[i])]
             S == {c \in Range(chunks[p]) : c.type \in {"references"}}
  <1>1. Citations(p) = FlattenSeq(lists)
    BY DEF Citations
  <1>2. references = Picked(chunks[p], S) /\ S = References(p)
    BY DEF OfSections, References
  <1>3. references \in Seq(Range(chunks[p])) /\ Range(references) = References(p)
    <2>1. Picked(chunks[p], S) \in Seq(Range(chunks[p]))
          /\ Range(Picked(chunks[p], S)) = Range(chunks[p]) \cap S
      <3> HIDE DEF S
      <3> QED  BY PickedSet DEF AreChunks
    <2>2. S \subseteq Range(chunks[p])
      OBVIOUS
    <2> HIDE DEF S, references
    <2> QED  BY <1>2, <2>1, <2>2
  <1> HIDE DEF references
  <1>4. /\ Len(references) \in Nat /\ DOMAIN references = 1..Len(references)
        /\ \A x : x \in References(p) <=> \E i \in 1..Len(references) : x = references[i]
    BY <1>3, InList
  <1>5. ASSUME NEW c \in References(p)
        PROVE  InChunk(c) \in Seq(Cites(p, c)) /\ Range(InChunk(c)) = Cites(p, c)
    <2>1. c.text \in Seq(Word)
      BY DEF AreChunks, References
    <2>2. ids(c) \in Seq(Word) /\ Range(ids(c)) = CitedIn(c.text)
      <3>1. Range(c.text) \cap CitedIn(c.text) = CitedIn(c.text)
        BY DEF CitedIn
      <3> QED  BY <2>1, <3>1, PickedSet
    <2> DEFINE list == ids(c)  n == Len(list)  made == InChunk(c)
               F(w) == Fact(PaperId(p), "cites", PaperId(ArxivId[w]), c.id)
    <2>3. made = [i \in DOMAIN list |-> F(list[i])]
      OBVIOUS
    <2> HIDE DEF list, made, F
    <2>4. n \in Nat /\ DOMAIN list = 1..n
          /\ \A w : w \in CitedIn(c.text) <=> \E i \in 1..n : w = list[i]
      <3>1. list \in Seq(Word) /\ Range(list) = CitedIn(c.text)
        BY <2>2 DEF list
      <3> QED  BY <3>1, InList
    <2>5. Cites(p, c) = {F(w) : w \in CitedIn(c.text)}
      BY DEF Cites, F
    <2> HIDE DEF n
    <2>6. made = [i \in 1..n |-> made[i]] /\ \A i \in 1..n : made[i] = F(list[i])
      BY <2>3, <2>4
    <2>7. made \in Seq(Range(made)) /\ \A x : x \in Range(made) <=> \E i \in 1..n : x = made[i]
      BY <2>4, <2>6, InOrder
    <2>8. Range(made) = Cites(p, c)
      <3> DEFINE W == CitedIn(c.text)
      <3>1. ASSUME NEW x \in Range(made) PROVE x \in {F(w) : w \in W}
        <4>1. PICK i \in 1..n : x = made[i]
          BY <2>7
        <4>2. x = F(list[i]) /\ list[i] \in W
          BY <2>4, <2>6, <4>1
        <4> QED  BY <4>2
      <3>2. ASSUME NEW w \in W PROVE F(w) \in Range(made)
        <4>1. PICK i \in 1..n : w = list[i]
          BY <2>4
        <4>2. made[i] \in Range(made)
          BY <2>7
        <4> QED  BY <2>6, <4>1, <4>2
      <3> QED  BY <2>5, <3>1, <3>2
    <2>9. made \in Seq(Cites(p, c)) /\ Range(made) = Cites(p, c)
      BY <2>7, <2>8
    <2> QED  BY <2>9 DEF made
  <1> HIDE DEF InChunk
  <1>6. \A i \in 1..Len(references) : references[i] \in References(p)
    BY <1>4
  <1>7. lists \in Seq(Seq(Citing(p)))
    <2> DEFINE W == Seq(Citing(p))
    <2>1. \A c \in References(p) : InChunk(c) \in W
      <3> SUFFICES ASSUME NEW c \in References(p) PROVE InChunk(c) \in W
        OBVIOUS
      <3>1. Cites(p, c) \subseteq Citing(p)
        BY DEF Citing
      <3> QED  BY <1>5, <3>1
    <2> HIDE DEF W
    <2>2. \A i \in 1..Len(references) : InChunk(references[i]) \in W
      BY <1>6, <2>1
    <2>3. lists \in Seq(W)
      BY <1>4, <2>2
    <2> QED  BY <2>3 DEF W
  <1>8. Len(lists) = Len(references) /\ \A i \in 1..Len(references) : lists[i] = InChunk(references[i])
    BY <1>4
  <1> HIDE DEF lists
  <1>9. /\ FlattenSeq(lists) \in Seq(Citing(p))
        /\ \A x : x \in Range(FlattenSeq(lists)) <=> \E i \in 1..Len(lists) : x \in Range(lists[i])
    BY <1>7, Flattened
  <1>10. \A x : x \in Range(FlattenSeq(lists)) <=> \E i \in 1..Len(references) : x \in Cites(p, references[i])
    BY <1>5, <1>6, <1>8, <1>9
  <1>11. \A x : x \in Citing(p) <=> \E c \in References(p) : x \in Cites(p, c)
    BY DEF Citing
  <1>12. Range(FlattenSeq(lists)) = Citing(p)
    BY <1>4, <1>6, <1>10, <1>11
  <1> QED  BY <1>1, <1>9, <1>12 DEF lists

\* Two lists, joined.
LEMMA Joined ==
    ASSUME NEW s, s \in Seq(Range(s)), NEW t, t \in Seq(Range(t))
    PROVE  s \o t \in Seq(Range(s \o t)) /\ Range(s \o t) = Range(s) \cup Range(t)
  <1> DEFINE U == Range(s) \cup Range(t)
  <1>1. s \in Seq(U) /\ t \in Seq(U)
    <2>1. Len(s) \in Nat /\ DOMAIN s = 1..Len(s) /\ \A i \in 1..Len(s) : s[i] \in Range(s)
      BY InList
    <2>2. Len(t) \in Nat /\ DOMAIN t = 1..Len(t) /\ \A i \in 1..Len(t) : t[i] \in Range(t)
      BY InList
    <2>3. s \in Seq(U)
      BY <2>1
    <2> QED  BY <2>2, <2>3
  <1>2. s \o t \in Seq(U) /\ Range(s \o t) = U
    <2> HIDE DEF U
    <2>1. s \o t \in Seq(U) /\ Range(s \o t) = Range(s) \cup Range(t)
      BY <1>1, ConcatProperties, RangeConcatenation
    <2> QED  BY <2>1 DEF U
  <1> QED  BY <1>2

\* A list of what is made of each element of another.
Made(list, names, made) == list = [i \in DOMAIN names |-> made[names[i]]]

\* A list that is made of names has what is made of each.
LEMMA MadeList ==
    ASSUME NEW names, names \in Seq(Range(names)), NEW made, NEW list, Made(list, names, made)
    PROVE  /\ list \in Seq(Range(list)) /\ Len(list) = Len(names)
           /\ \A e : e \in Range(list) <=> \E x \in Range(names) : e = made[x]
  <1> DEFINE n == Len(names)
  <1>1. /\ n \in Nat /\ DOMAIN names = 1..n
        /\ \A x : x \in Range(names) <=> \E i \in 1..n : x = names[i]
    BY InList
  <1>2. list = [i \in 1..n |-> list[i]] /\ \A i \in 1..n : list[i] = made[names[i]]
    BY <1>1 DEF Made
  <1> HIDE DEF n
  <1>3. /\ list \in Seq(Range(list)) /\ Len(list) = n
        /\ \A e : e \in Range(list) <=> \E i \in 1..n : e = list[i]
    BY <1>1, <1>2, InOrder
  <1>4. ASSUME NEW e \in Range(list) PROVE \E x \in Range(names) : e = made[x]
    <2>1. PICK i \in 1..n : e = list[i]
      BY <1>3
    <2>2. names[i] \in Range(names) /\ e = made[names[i]]
      BY <1>1, <1>2, <2>1
    <2> QED  BY <2>2
  <1>5. ASSUME NEW x \in Range(names) PROVE made[x] \in Range(list)
    <2>1. PICK i \in 1..n : x = names[i]
      BY <1>1
    <2> QED  BY <1>2, <1>3, <2>1
  <1> QED  BY <1>3, <1>4, <1>5 DEF n

\* With its repetitions removed, it has one for each id.
LEMMA MadeOnce ==
    ASSUME NEW names, names \in Seq(Range(names)), NEW made, NEW list, Made(list, names, made)
    PROVE  LET once == DedupeEntities(list)
           IN  /\ once \in Seq(Range(once))
               /\ \A e \in Range(once) : \E x \in Range(names) : e = made[x]
               /\ \A x \in Range(names) : \E e \in Range(once) : e.id = made[x].id
  <1> DEFINE once == DedupeEntities(list)
  <1>1. /\ list \in Seq(Range(list))
        /\ \A e : e \in Range(list) <=> \E x \in Range(names) : e = made[x]
    BY MadeList
  <1>2. /\ once \in Seq(Range(list)) /\ Range(once) \subseteq Range(list)
        /\ \A e \in Range(list) : \E d \in Range(once) : d.id = e.id
    BY <1>1, DedupeList
  <1> HIDE DEF once
  <1>3. once \in Seq(Range(once))
    BY <1>2, InList
  <1>4. ASSUME NEW x \in Range(names) PROVE \E e \in Range(once) : e.id = made[x].id
    BY <1>1, <1>2
  <1> QED  BY <1>1, <1>2, <1>3, <1>4 DEF once

\* The authors of a paper are author entities.
LEMMA AuthorsList ==
    ASSUME NEW p \in Paper
    PROVE  /\ AuthorsOf(p) \in Seq(Range(AuthorsOf(p)))
           /\ \A e \in Range(AuthorsOf(p)) : \E x : e = Entity("author", x)
  <1> DEFINE names == Authors[p]
             made == [x \in Range(names) |-> Entity("author", x)]
             list == [i \in DOMAIN names |-> Entity("author", names[i])]
  <1>1. names \in Seq(Range(names))
    BY AuthorsAssumption
  <1>2. Made(list, names, made)
    <2>1. \A i \in DOMAIN names : names[i] \in Range(names)
      BY DEF Range
    <2> QED  BY <2>1 DEF Made
  <1>3. AuthorsOf(p) = DedupeEntities(list)
    BY DEF AuthorsOf
  <1>4. \A x \in Range(names) : made[x] = Entity("author", x)
    OBVIOUS
  <1> HIDE DEF names, made, list
  <1> QED  BY <1>1, <1>2, <1>3, <1>4, MadeOnce

\* The entities of the valid proposals.
LEMMA ProposedList ==
    ASSUME NEW said, said \in Seq(Range(said))
    PROVE  /\ EntitiesOf(said) \in Seq(Range(EntitiesOf(said)))
           /\ \A e \in Range(EntitiesOf(said)) : \E x \in Range(said) : e = Entity(x.type, x.name)
  <1> DEFINE made == [x \in Range(said) |-> Entity(x.type, x.name)]
             list == [i \in DOMAIN said |-> Entity(said[i].type, said[i].name)]
  <1>2. Made(list, said, made)
    <2>1. \A i \in DOMAIN said : said[i] \in Range(said)
      BY DEF Range
    <2> QED  BY <2>1 DEF Made
  <1>3. EntitiesOf(said) = DedupeEntities(list)
    BY DEF EntitiesOf
  <1>4. \A x \in Range(said) : made[x] = Entity(x.type, x.name)
    OBVIOUS
  <1> HIDE DEF made, list
  <1> QED  BY <1>2, <1>3, <1>4, MadeOnce

\* An entity that only relationships name is there as well.
LEMMA ImplicitList ==
    ASSUME NEW proposed, NEW said, said \in Seq(Range(said))
    PROVE  LET implicit == ImplicitEntities(proposed, said)
           IN  /\ implicit \in Seq(Range(implicit))
               /\ \A e \in Range(implicit) : \E x \in Range(said) : e = Entity(x.target, x.name)
               /\ \A x \in Range(said) : \E e \in Range(proposed) \cup Range(implicit) :
                    e.id = EntityId(x.target, x.name)
  <1> DEFINE made == [x \in Range(said) |-> Entity(x.target, x.name)]
             list == [i \in DOMAIN said |-> Entity(said[i].target, said[i].name)]
             once == DedupeEntities(list)
             implicit == ImplicitEntities(proposed, said)
  <1>1. Made(list, said, made)
    <2>1. \A i \in DOMAIN said : said[i] \in Range(said)
      BY DEF Range
    <2> QED  BY <2>1 DEF Made
  <1>2. implicit = Unknown(once, proposed)
    BY DEF ImplicitEntities
  <1>3. \A x \in Range(said) : made[x] = Entity(x.target, x.name)
                               /\ made[x].id = EntityId(x.target, x.name)
    BY DEF Entity
  <1> HIDE DEF made, list, implicit
  <1>4. /\ once \in Seq(Range(once))
        /\ \A e \in Range(once) : \E x \in Range(said) : e = made[x]
        /\ \A x \in Range(said) : \E e \in Range(once) : e.id = made[x].id
    BY <1>1, MadeOnce
  <1> HIDE DEF once
  <1>5. /\ implicit \in Seq(Range(once))
        /\ \A e : e \in Range(implicit) <=> e \in Range(once) /\ \A k \in Range(proposed) : k.id # e.id
    BY <1>2, <1>4, UnknownList
  <1>6. implicit \in Seq(Range(implicit))
    BY <1>5, InList
  <1>7. \A e \in Range(implicit) : \E x \in Range(said) : e = Entity(x.target, x.name)
    BY <1>3, <1>4, <1>5
  <1>8. ASSUME NEW x \in Range(said)
        PROVE  \E e \in Range(proposed) \cup Range(implicit) : e.id = EntityId(x.target, x.name)
    <2>1. PICK e \in Range(once) : e.id = EntityId(x.target, x.name)
      BY <1>3, <1>4
    <2> QED  BY <1>5, <2>1
  <1> QED  BY <1>6, <1>7, <1>8 DEF implicit

\* What was heard and is kept.
Valid(heard) == {c \in heard : ValidRelationship(c)}

\* An author of the paper.
Wrote(r, p) ==
    /\ r.target.type = "author" /\ r.target.of = "name"
    /\ r = Fact(PaperId(p), "authored_by", r.target, None)

EntitiesOK(p, a) ==
    /\ a.entities \in Seq(Range(a.entities))
    /\ \A e \in Range(a.entities) : /\ e.id.type \in EntityType
                                    /\ e.id.of = "arxiv_id" => e.id = PaperId(p)
    /\ \E e \in Range(a.entities) : e.id = PaperId(p)

\* A relationship is one of an author, of a citation or of what was heard, and all that
\* was heard and every citation is there.
RelationshipsOK(p, a) ==
    /\ a.relationships \in Seq(Range(a.relationships))
    /\ \A r \in Range(a.relationships) :
         /\ Wrote(r, p) \/ r \in Citing(p) \/ Claim(r, p, Valid(a.heard))
         /\ r.type # "cites" => \E e \in Range(a.entities) : e.id = r.target
    /\ Citing(p) \subseteq Range(a.relationships)
    /\ \A c \in Valid(a.heard) : \E r \in Range(a.relationships) :
         Claim(r, p, Valid(a.heard)) /\ r.type = c.type /\ r.target = EntityId(c.target, c.name)

ArtifactOK(p, a) ==
    /\ EntitiesOK(p, a) /\ RelationshipsOK(p, a)
    /\ \A c \in a.heard : c.chunk # None

\* What an extraction has kept: named entities and claims, all of them valid.
Kept(said, rels) ==
    /\ said \in Seq(Range(said)) /\ \A e \in Range(said) : ValidEntity(e)
    /\ rels \in Seq(Range(rels)) /\ \A c \in Range(rels) : ValidRelationship(c)

\* The authors and what the claims are about are among the entities.
Listed(p, rels, a) ==
    /\ \A x \in Range(AuthorsOf(p)) : x \in Range(a.entities)
    /\ \A c \in Range(rels) : \E e \in Range(a.entities) : e.id = EntityId(c.target, c.name)

\* An artifact lists its paper, the authors, and what the proposals are about (Finish).
LEMMA FinishedEntities ==
    ASSUME NEW p \in Paper, NEW said, NEW rels, Kept(said, rels),
           NEW self, self.id = PaperId(p), NEW a,
           a.entities = <<self>> \o AuthorsOf(p) \o EntitiesOf(said)
                                 \o ImplicitEntities(EntitiesOf(said), rels)
    PROVE  EntitiesOK(p, a) /\ Listed(p, rels, a)
  <1> DEFINE authors == AuthorsOf(p)
             proposed == EntitiesOf(said)
             implicit == ImplicitEntities(proposed, rels)
             first == <<self>>
  <1>0. /\ said \in Seq(Range(said)) /\ \A e \in Range(said) : ValidEntity(e)
        /\ rels \in Seq(Range(rels)) /\ \A c \in Range(rels) : ValidRelationship(c)
    BY DEF Kept
  <1>1. first \in Seq(Range(first)) /\ Range(first) = {self}
    <2>1. Range(first) = {self}
      BY DEF Range
    <2> QED  BY <2>1
  <1>2. /\ authors \in Seq(Range(authors))
        /\ \A e \in Range(authors) : \E x : e = Entity("author", x)
    BY AuthorsList
  <1>3. /\ proposed \in Seq(Range(proposed))
        /\ \A e \in Range(proposed) : \E x \in Range(said) : e = Entity(x.type, x.name)
    BY <1>0, ProposedList
  <1>4. /\ implicit \in Seq(Range(implicit))
        /\ \A e \in Range(implicit) : \E x \in Range(rels) : e = Entity(x.target, x.name)
        /\ \A x \in Range(rels) : \E e \in Range(proposed) \cup Range(implicit) :
             e.id = EntityId(x.target, x.name)
    BY <1>0, ImplicitList
  <1>5. a.entities = ((first \o authors) \o proposed) \o implicit
    OBVIOUS
  <1> HIDE DEF first, authors, proposed, implicit
  <1>6. /\ first \o authors \in Seq(Range(first \o authors))
        /\ Range(first \o authors) = Range(first) \cup Range(authors)
    BY <1>1, <1>2, Joined
  <1> DEFINE two == first \o authors
  <1> HIDE DEF two
  <1>7. two \o proposed \in Seq(Range(two \o proposed))
        /\ Range(two \o proposed) = Range(two) \cup Range(proposed)
    BY <1>3, <1>6, Joined DEF two
  <1> DEFINE three == two \o proposed
  <1> HIDE DEF three
  <1>8. three \o implicit \in Seq(Range(three \o implicit))
        /\ Range(three \o implicit) = Range(three) \cup Range(implicit)
    BY <1>4, <1>7, Joined DEF three
  <1>9. a.entities \in Seq(Range(a.entities))
        /\ Range(a.entities) = {self} \cup Range(authors) \cup Range(proposed) \cup Range(implicit)
    BY <1>1, <1>5, <1>6, <1>7, <1>8 DEF two, three
  <1>10. \A type, name : Entity(type, name).id.type = type /\ Entity(type, name).id.of = "name"
    BY DEF Entity, EntityId
  <1>11. ASSUME NEW e \in Range(a.entities)
         PROVE  e.id.type \in EntityType /\ (e.id.of = "arxiv_id" => e.id = PaperId(p))
    <2>1. CASE e = self
      BY <2>1 DEF PaperId, EntityType
    <2>2. CASE e \in Range(authors)
      <3>1. PICK x : e = Entity("author", x)
        BY <1>2, <2>2
      <3> QED  BY <1>10, <3>1 DEF EntityType
    <2>3. CASE e \in Range(proposed)
      <3>1. PICK x \in Range(said) : e = Entity(x.type, x.name)
        BY <1>3, <2>3
      <3>2. x.type \in EntityType
        BY <1>0 DEF ValidEntity
      <3> QED  BY <1>10, <3>1, <3>2
    <2>4. CASE e \in Range(implicit)
      <3>1. PICK x \in Range(rels) : e = Entity(x.target, x.name)
        BY <1>4, <2>4
      <3>2. x.target \in EntityType
        <4>1. x.type \in DOMAIN Compatible /\ <<x.source, x.target>> = Compatible[x.type]
          BY <1>0 DEF ValidRelationship
        <4>2. \A type \in DOMAIN Compatible : Compatible[type][2] \in EntityType
          BY DEF Compatible, EntityType
        <4>3. <<x.source, x.target>>[2] = x.target
          OBVIOUS
        <4> QED  BY <4>1, <4>2, <4>3
      <3> QED  BY <1>10, <3>1, <3>2
    <2> QED  BY <1>9, <2>1, <2>2, <2>3, <2>4
  <1>12. EntitiesOK(p, a)
    <2>1. self \in Range(a.entities)
      BY <1>9
    <2> QED  BY <1>9, <1>11, <2>1 DEF EntitiesOK
  <1>13. \A c \in Range(rels) : \E e \in Range(a.entities) : e.id = EntityId(c.target, c.name)
    BY <1>4, <1>9
  <1> QED  BY <1>9, <1>12, <1>13 DEF authors, Listed

\* An artifact says who wrote the paper, what it cites and what was heard, no more and
\* no less (Finish).
LEMMA FinishedRelationships ==
    ASSUME NEW p \in Paper, AreChunks(p, chunks[p]),
           NEW rels, rels \in Seq(Range(rels)), NEW a, Range(rels) = Valid(a.heard),
           Listed(p, rels, a), NEW facts, facts = [i \in DOMAIN AuthorsOf(p) |->
                                  Fact(PaperId(p), "authored_by", AuthorsOf(p)[i].id, None)],
           a.relationships = facts \o Citations(p) \o RelationshipsOf(p, rels)
    PROVE  RelationshipsOK(p, a)
  <1> USE DEF Listed
  <1> DEFINE authors == AuthorsOf(p)
             made == [x \in Range(authors) |-> Fact(PaperId(p), "authored_by", x.id, None)]
             cited == Citations(p)
             heard == RelationshipsOf(p, rels)
  <1>1. /\ authors \in Seq(Range(authors))
        /\ \A e \in Range(authors) : \E x : e = Entity("author", x)
    BY AuthorsList
  <1>2. Made(facts, authors, made)
    <2>1. \A i \in DOMAIN authors : authors[i] \in Range(authors)
      BY DEF Range
    <2> QED  BY <2>1 DEF Made
  <1>3. \A x \in Range(authors) : made[x] = Fact(PaperId(p), "authored_by", x.id, None)
    OBVIOUS
  <1> HIDE DEF authors, made
  <1>4. /\ facts \in Seq(Range(facts))
        /\ \A r : r \in Range(facts) <=> \E x \in Range(authors) : r = made[x]
    BY <1>1, <1>2, MadeList
  <1>5. cited \in Seq(Citing(p)) /\ Range(cited) = Citing(p)
    BY CitationsList
  <1>6. /\ heard \in Seq(Range(heard))
        /\ \A r \in Range(heard) : Claim(r, p, Range(rels))
        /\ \A c \in Range(rels) : \E r \in Range(heard) :
             r.type = c.type /\ r.target = EntityId(c.target, c.name)
    BY RelationshipsList
  <1> HIDE DEF cited, heard
  <1>7. facts \o cited \in Seq(Range(facts \o cited))
        /\ Range(facts \o cited) = Range(facts) \cup Range(cited)
    BY <1>4, <1>5, Joined
  <1> DEFINE two == facts \o cited
  <1> HIDE DEF two
  <1>8. two \o heard \in Seq(Range(two \o heard))
        /\ Range(two \o heard) = Range(two) \cup Range(heard)
    BY <1>6, <1>7, Joined DEF two
  <1>9. a.relationships = (facts \o cited) \o heard
    BY DEF cited, heard
  <1>10. a.relationships \in Seq(Range(a.relationships))
         /\ Range(a.relationships) = Range(facts) \cup Citing(p) \cup Range(heard)
    BY <1>5, <1>7, <1>8, <1>9 DEF two
  <1>11. ASSUME NEW r \in Range(facts)
         PROVE  Wrote(r, p) /\ \E e \in Range(a.entities) : e.id = r.target
    <2>0. PICK x \in Range(authors) : r = made[x]
      BY <1>4
    <2>1. r = Fact(PaperId(p), "authored_by", x.id, None)
      BY <1>3, <2>0
    <2>2. r.target = x.id
      BY <2>1 DEF Fact
    <2>3. x.id.type = "author" /\ x.id.of = "name"
      <3>1. PICK y : x = Entity("author", y)
        BY <1>1
      <3> QED  BY <3>1 DEF Entity, EntityId
    <2>4. x \in Range(a.entities)
      BY DEF authors
    <2> QED  BY <2>1, <2>2, <2>3, <2>4 DEF Wrote
  <1>12. ASSUME NEW r \in Range(heard)
         PROVE  Claim(r, p, Valid(a.heard)) /\ \E e \in Range(a.entities) : e.id = r.target
    <2>1. Claim(r, p, Range(rels))
      BY <1>6
    <2>2. PICK c \in Range(rels) : EntityId(c.target, c.name) = r.target
      BY <2>1 DEF Claim, Saying
    <2> QED  BY <2>1, <2>2
  <1>13. \A r \in Citing(p) : r.type = "cites"
    BY DEF Citing, Cites, Fact
  <1>14. \A r \in Range(a.relationships) :
           /\ Wrote(r, p) \/ r \in Citing(p) \/ Claim(r, p, Valid(a.heard))
           /\ r.type # "cites" => \E e \in Range(a.entities) : e.id = r.target
    BY <1>10, <1>11, <1>12, <1>13
  <1>15. ASSUME NEW c \in Valid(a.heard)
         PROVE  \E r \in Range(a.relationships) :
                  Claim(r, p, Valid(a.heard)) /\ r.type = c.type /\ r.target = EntityId(c.target, c.name)
    <2>1. PICK r \in Range(heard) : r.type = c.type /\ r.target = EntityId(c.target, c.name)
      BY <1>6
    <2> QED  BY <1>10, <1>12, <2>1
  <1>16. Citing(p) \subseteq Range(a.relationships)
    BY <1>10
  <1> QED  BY <1>10, <1>14, <1>15, <1>16 DEF RelationshipsOK

-----------------------------------------------------------------------------
(* Indexing an artifact. *)

\* Prepared for indexing, every relationship has its target among the entities
\* (_prepare_entities).
LEMMA PreparedList ==
    ASSUME NEW p, NEW a, EntitiesOK(p, a), RelationshipsOK(p, a)
    PROVE  /\ Prepared(a) \in Seq(Range(Prepared(a)))
           /\ Range(a.entities) \subseteq Range(Prepared(a))
           /\ \A e \in Range(Prepared(a)) :
                e \in Range(a.entities)
                \/ \E r \in Range(a.relationships) : r.type = "cites" /\ e = CitationTarget(r.target)
           /\ \A r \in Range(a.relationships) : \E e \in Range(Prepared(a)) : e.id = r.target
  <1> DEFINE S == {r \in Range(a.relationships) : r.type = "cites"}
             cites == Picked(a.relationships, S)
             made == [r \in S |-> CitationTarget(r.target)]
             list == [i \in DOMAIN cites |-> CitationTarget(cites[i].target)]
             targets == DedupeEntities(list)
             unknown == Unknown(targets, a.entities)
  <1>1. Prepared(a) = a.entities \o unknown
    BY DEF Prepared
  <1>2. cites \in Seq(Range(cites)) /\ Range(cites) = S
    <2>1. a.relationships \in Seq(Range(a.relationships))
      BY DEF RelationshipsOK
    <2>2. S \subseteq Range(a.relationships)
      OBVIOUS
    <2> HIDE DEF S
    <2>3. cites \in Seq(Range(a.relationships)) /\ Range(cites) = Range(a.relationships) \cap S
      BY <2>1, PickedSet
    <2> HIDE DEF cites
    <2>4. cites \in Seq(Range(cites))
      BY <2>3, InList
    <2> QED  BY <2>2, <2>3, <2>4
  <1> HIDE DEF cites, S
  <1>3. Made(list, cites, made)
    <2>1. \A i \in DOMAIN cites : cites[i] \in S
      BY <1>2 DEF Range
    <2> QED  BY <2>1 DEF Made
  <1>4. \A r \in S : made[r] = CitationTarget(r.target) /\ made[r].id = r.target
    BY DEF CitationTarget
  <1> HIDE DEF made, list
  <1>5. /\ targets \in Seq(Range(targets))
        /\ \A e \in Range(targets) : \E r \in S : e = made[r]
        /\ \A r \in S : \E e \in Range(targets) : e.id = made[r].id
    BY <1>2, <1>3, MadeOnce
  <1> HIDE DEF targets
  <1>6. /\ unknown \in Seq(Range(targets))
        /\ \A e : e \in Range(unknown) <=>
             e \in Range(targets) /\ \A k \in Range(a.entities) : k.id # e.id
    BY <1>5, UnknownList
  <1> HIDE DEF unknown
  <1>7. unknown \in Seq(Range(unknown)) /\ a.entities \in Seq(Range(a.entities))
    BY <1>6, InList DEF EntitiesOK
  <1>8. /\ Prepared(a) \in Seq(Range(Prepared(a)))
        /\ Range(Prepared(a)) = Range(a.entities) \cup Range(unknown)
    BY <1>1, <1>7, Joined
  <1>9. ASSUME NEW e \in Range(unknown)
        PROVE  \E r \in Range(a.relationships) : r.type = "cites" /\ e = CitationTarget(r.target)
    <2>1. PICK r \in S : e = made[r]
      BY <1>5, <1>6
    <2>2. r \in Range(a.relationships) /\ r.type = "cites"
      BY DEF S
    <2> QED  BY <1>4, <2>1, <2>2
  <1>10. ASSUME NEW r \in Range(a.relationships)
         PROVE  \E e \in Range(Prepared(a)) : e.id = r.target
    <2>1. CASE r.type = "cites"
      <3>1. r \in S
        BY <2>1 DEF S
      <3>2. PICK e \in Range(targets) : e.id = r.target
        BY <1>4, <1>5, <3>1
      <3> QED  BY <1>6, <1>8, <3>2
    <2>2. CASE r.type # "cites"
      BY <1>8, <2>2 DEF RelationshipsOK
    <2> QED  BY <2>1, <2>2
  <1> QED  BY <1>8, <1>9, <1>10

\* A relationship of an artifact starts at its paper and is of the ontology.
LEMMA RelationshipForm ==
    ASSUME NEW p, NEW heard, NEW r,
           Wrote(r, p) \/ r \in Citing(p) \/ Claim(r, p, Valid(heard))
    PROVE  IsRelationship(r) /\ r.source = PaperId(p) /\ r.type \in DOMAIN Compatible
  <1>1. ASSUME NEW type, NEW target, NEW chunk, r = Fact(PaperId(p), type, target, chunk)
        PROVE  IsRelationship(r) /\ r.source = PaperId(p) /\ r.type = type
    BY <1>1 DEF Fact, IsRelationship
  <1>2. CASE Wrote(r, p)
    <2>1. r = Fact(PaperId(p), "authored_by", r.target, None)
      BY <1>2 DEF Wrote
    <2>2. IsRelationship(r) /\ r.source = PaperId(p) /\ r.type = "authored_by"
      BY <1>1, <2>1
    <2> QED  BY <2>2 DEF Compatible
  <1>3. CASE r \in Citing(p)
    <2>0. PICK c \in References(p) : r \in Cites(p, c)
      BY <1>3 DEF Citing
    <2>1. PICK w \in CitedIn(c.text) :
            r = Fact(PaperId(p), "cites", PaperId(ArxivId[w]), c.id)
      BY <2>0 DEF Cites
    <2>2. IsRelationship(r) /\ r.source = PaperId(p) /\ r.type = "cites"
      BY <1>1, <2>1
    <2> QED  BY <2>2 DEF Compatible
  <1>4. CASE Claim(r, p, Valid(heard))
    <2>1. IsRelationship(r) /\ r.source = PaperId(p)
      BY <1>4 DEF Claim, IsRelationship
    <2>2. PICK c \in Valid(heard) : c.type = r.type
      BY <1>4 DEF Claim, Saying
    <2> QED  BY <2>1, <2>2 DEF Valid, ValidRelationship
  <1> QED  BY <1>2, <1>3, <1>4

\* The edges of a paper are those of its artifact, and the edges of others stay.
EdgesOf(p, rels, before, after) ==
    /\ \A k : k \in DOMAIN after /\ k[1] = PaperId(p)
                <=> \E r \in rels : k = <<PaperId(p), r.type, Resolved(r.target)>>
    /\ \A k \in DOMAIN after : k[1] = PaperId(p) =>
         \E x : /\ Endpoints(x) = k /\ Stored(x, rels)
                /\ after[k].chunk = x.chunk /\ after[k].supporting = x.supporting
                /\ after[k].confidence = x.confidence
    /\ \A k : k[1] # PaperId(p) =>
         /\ k \in DOMAIN after <=> k \in DOMAIN before
         /\ k \in DOMAIN before => after[k] = before[k]

\* A node's title is an entity's, or is what it was.
Titled(id, entities, after) ==
    \/ id \in DOMAIN node /\ after[id].title = node[id].title
    \/ \E e \in Range(entities) : e.id = id /\ after[id].title = NodeInput(e).title

\* Every entity has a node afterwards.
LEMMA UpsertedNodes ==
    ASSUME NEW entities, NEW after, after = Upserted(entities)
    PROVE  /\ DOMAIN after = {e.id : e \in Range(entities)} \cup DOMAIN node
           /\ \A id \in DOMAIN after : Titled(id, entities, after)
  <1> DEFINE ids == {e.id : e \in Range(entities)}
             New1(id) == NodeInput(CHOOSE e \in Range(entities) : e.id = id)
             Matched(old, new) == [name |-> old.name, placeholder |-> old.placeholder \/ new.placeholder,
                                   title |-> IF new.title # None THEN new.title ELSE old.title]
  <1>1. after = [id \in ids \cup DOMAIN node |->
                   IF id \notin ids THEN node[id]
                   ELSE IF id \in DOMAIN node THEN Matched(node[id], New1(id)) ELSE New1(id)]
    BY DEF Upserted
  <1>2. \A old, new : Matched(old, new).title = IF new.title # None THEN new.title ELSE old.title
    OBVIOUS
  <1> HIDE DEF Matched
  <1>3. ASSUME NEW id \in ids PROVE \E e \in Range(entities) : e.id = id /\ New1(id) = NodeInput(e)
    <2> DEFINE chosen == CHOOSE e \in Range(entities) : e.id = id
    <2>1. chosen \in Range(entities) /\ chosen.id = id
      <3>1. \E e \in Range(entities) : e.id = id
        OBVIOUS
      <3> QED  BY <3>1
    <2>2. New1(id) = NodeInput(chosen)
      OBVIOUS
    <2> HIDE DEF chosen, New1
    <2> QED  BY <2>1, <2>2
  <1> HIDE DEF New1, ids
  <1>4. DOMAIN after = ids \cup DOMAIN node
    BY <1>1
  <1>5. ASSUME NEW id \in DOMAIN after
        PROVE  \/ id \in DOMAIN node /\ after[id].title = node[id].title
               \/ \E e \in Range(entities) : e.id = id /\ after[id].title = NodeInput(e).title
    <2>1. CASE id \notin ids
      BY <1>1, <1>4, <2>1
    <2>2. CASE id \in ids /\ id \notin DOMAIN node
      <3>1. after[id] = New1(id)
        BY <1>1, <2>2
      <3> QED  BY <1>3, <2>2, <3>1
    <2>3. CASE id \in ids /\ id \in DOMAIN node
      <3>1. after[id] = Matched(node[id], New1(id))
        BY <1>1, <2>3
      <3>2. after[id].title = New1(id).title \/ after[id].title = node[id].title
        BY <1>2, <3>1
      <3> QED  BY <1>3, <2>3, <3>2
    <2> QED  BY <2>1, <2>2, <2>3
  <1> QED  BY <1>4, <1>5 DEF ids, Titled

\* Indexing writes the edges of the artifact and deletes the other edges of its paper,
\* no others.
LEMMA IndexedEdges ==
    ASSUME NEW p \in Paper, Index(p), EntitiesOK(p, artifact[p]), RelationshipsOK(p, artifact[p])
    PROVE  /\ EdgesOf(p, Range(artifact[p].relationships), edge, edge')
           /\ \E entities :
                /\ node' = Upserted(entities)
                /\ \A e \in Range(entities) : \E x \in Range(Prepared(artifact[p])) : e = ResolveEntity(x)
                /\ \A x \in Range(Prepared(artifact[p])) : \E e \in Range(entities) : e.id = Resolved(x.id)
           /\ \A r \in Range(artifact[p].relationships) : \E x \in Range(Prepared(artifact[p])) : x.id = r.target
           /\ \E x \in Range(Prepared(artifact[p])) : x.id = PaperId(p)
  <1> DEFINE a == artifact[p]  rels == Range(a.relationships)
             prepared == Prepared(a)
             entities == CanonicalEntities(prepared)
             list == CanonicalRelationships(prepared, a.relationships)
             S == {r \in Range(list) : {r.source, r.target} \subseteq DOMAIN node'}
             matched == Picked(list, S)
             Properties(r) == [chunk |-> r.chunk, supporting |-> r.supporting, confidence |-> r.confidence]
             written == {Endpoints(r) : r \in Range(matched)}
             stale == IF matched = list THEN {k \in DOMAIN edge : k[1] = PaperId(p)} ELSE {}
  <1>1. /\ node' = Upserted(entities)
        /\ edge' = [k \in written \cup (DOMAIN edge \ stale) |->
                      IF k \in written THEN Properties(CHOOSE r \in Range(matched) : Endpoints(r) = k)
                      ELSE edge[k]]
    BY DEF Index
  <1>2. /\ prepared \in Seq(Range(prepared))
        /\ Range(a.entities) \subseteq Range(prepared)
        /\ \A r \in rels : \E e \in Range(prepared) : e.id = r.target
    BY PreparedList
  <1>3. \E x \in Range(prepared) : x.id = PaperId(p)
    BY <1>2 DEF EntitiesOK
  <1>4. \A r \in rels : /\ IsRelationship(r) /\ r.source = PaperId(p) /\ r.type \in DOMAIN Compatible
                        /\ \E e \in Range(prepared) : e.id = r.source
                        /\ \E e \in Range(prepared) : e.id = r.target
    <2> SUFFICES ASSUME NEW r \in rels
                 PROVE  IsRelationship(r) /\ r.source = PaperId(p) /\ r.type \in DOMAIN Compatible
      BY <1>2, <1>3
    <2>1. Wrote(r, p) \/ r \in Citing(p) \/ Claim(r, p, Valid(a.heard))
      BY DEF RelationshipsOK
    <2> QED  BY <2>1, RelationshipForm
  <1>5. a.relationships \in Seq(rels)
    BY DEF RelationshipsOK
  <1>6. /\ list \in Seq(Range(list))
        /\ \A x \in Range(list) : Stored(x, rels)
        /\ \A r \in rels : \E x \in Range(list) :
             Endpoints(x) = <<Resolved(r.source), r.type, Resolved(r.target)>>
    <2> HIDE DEF prepared, list
    <2> QED  BY <1>2, <1>4, <1>5, CanonicalRelationshipsList DEF list
  <1>7. /\ \A e \in Range(entities) : \E x \in Range(prepared) : e = ResolveEntity(x)
        /\ \A x \in Range(prepared) : \E e \in Range(entities) : e.id = Resolved(x.id)
    <2> HIDE DEF prepared
    <2> QED  BY <1>2, CanonicalEntitiesList
  <1> HIDE DEF prepared, list, entities, rels
  <1>8. Resolved(PaperId(p)) = PaperId(p)
    BY DEF Resolved, PaperId
  <1>9. ASSUME NEW x \in Range(list)
        PROVE  \E r \in rels : Endpoints(x) = <<PaperId(p), r.type, Resolved(r.target)>>
    <2>1. PICK r \in rels : <<Resolved(r.source), r.type, Resolved(r.target)>> = Endpoints(x)
      BY <1>6 DEF Stored, Colliding
    <2> QED  BY <1>4, <1>8, <2>1
  <1>10. \A x \in Range(prepared) : Resolved(x.id) \in DOMAIN node'
    <2>1. DOMAIN node' = {e.id : e \in Range(entities)} \cup DOMAIN node
      BY <1>1, UpsertedNodes
    <2> QED  BY <1>7, <2>1
  <1>11. ASSUME NEW x \in Range(list) PROVE x \in S
    <2>1. PICK r \in rels : Endpoints(x) = <<PaperId(p), r.type, Resolved(r.target)>>
      BY <1>9
    <2>2. x.source = PaperId(p) /\ x.target = Resolved(r.target)
      BY <2>1 DEF Endpoints
    <2>3. x.source \in DOMAIN node'
      BY <1>3, <1>8, <1>10, <2>2
    <2>4. x.target \in DOMAIN node'
      BY <1>4, <1>10, <2>2
    <2> QED  BY <2>3, <2>4
  <1>12. matched = list
    <2>1. \A i \in 1..Len(list) : list[i] \in S
      <3>1. \A i \in 1..Len(list) : list[i] \in Range(list)
        BY <1>6, InList
      <3> HIDE DEF S
      <3> QED  BY <1>11, <3>1
    <2> HIDE DEF S
    <2> QED  BY <1>6, <2>1, PickedAll
  <1> DEFINE W == {Endpoints(x) : x \in Range(list)}
             kept == {k \in DOMAIN edge : k[1] # PaperId(p)}
             Chosen(k) == CHOOSE r \in Range(list) : Endpoints(r) = k
  <1>13. edge' = [k \in W \cup kept |-> IF k \in W THEN Properties(Chosen(k)) ELSE edge[k]]
    <2>1. written = W /\ DOMAIN edge \ stale = kept
      BY <1>12
    <2>2. \A k : Properties(CHOOSE r \in Range(matched) : Endpoints(r) = k) = Properties(Chosen(k))
      BY <1>12
    <2> HIDE DEF written, stale, W, kept, Properties, Chosen, matched
    <2> QED  BY <1>1, <2>1, <2>2
  <1>14. \A k : k \in W <=> \E r \in rels : k = <<PaperId(p), r.type, Resolved(r.target)>>
    <2>1. ASSUME NEW k \in W PROVE \E r \in rels : k = <<PaperId(p), r.type, Resolved(r.target)>>
      BY <1>9
    <2>2. ASSUME NEW r \in rels PROVE <<PaperId(p), r.type, Resolved(r.target)>> \in W
      <3>1. PICK x \in Range(list) : Endpoints(x) = <<Resolved(r.source), r.type, Resolved(r.target)>>
        BY <1>6
      <3>2. Endpoints(x) = <<PaperId(p), r.type, Resolved(r.target)>>
        BY <1>4, <1>8, <3>1
      <3> QED  BY <3>2
    <2> HIDE DEF W
    <2> QED  BY <2>1, <2>2
  <1>15. \A k \in W : k[1] = PaperId(p)
    <2> HIDE DEF W
    <2> QED  BY <1>14
  <1>16. ASSUME NEW k \in W
         PROVE  /\ Chosen(k) \in Range(list) /\ Endpoints(Chosen(k)) = k
                /\ edge'[k].chunk = Chosen(k).chunk /\ edge'[k].supporting = Chosen(k).supporting
                /\ edge'[k].confidence = Chosen(k).confidence
    <2>1. \E x \in Range(list) : Endpoints(x) = k
      OBVIOUS
    <2>2. Chosen(k) \in Range(list) /\ Endpoints(Chosen(k)) = k
      BY <2>1
    <2>3. edge'[k] = Properties(Chosen(k))
      <3> HIDE DEF W, kept, Properties, Chosen
      <3> QED  BY <1>13
    <2> HIDE DEF Chosen, W
    <2> QED  BY <2>2, <2>3
  <1> HIDE DEF W, Chosen, Properties, matched, written, stale
  <1>17. EdgesOf(p, rels, edge, edge')
    <2>1. DOMAIN edge' = W \cup kept
      BY <1>13
    <2>2. \A k : k \in DOMAIN edge' /\ k[1] = PaperId(p) <=> k \in W
      BY <1>15, <2>1
    <2>3. \A k \in DOMAIN edge' : k[1] = PaperId(p) =>
            \E x : /\ Endpoints(x) = k /\ Stored(x, rels)
                   /\ edge'[k].chunk = x.chunk /\ edge'[k].supporting = x.supporting
                   /\ edge'[k].confidence = x.confidence
      BY <1>6, <1>16, <2>2
    <2>4. ASSUME NEW k, k[1] # PaperId(p)
          PROVE  (k \in DOMAIN edge' <=> k \in DOMAIN edge) /\ (k \in DOMAIN edge => edge'[k] = edge[k])
      <3>1. k \notin W
        BY <1>15, <2>4
      <3>2. k \in DOMAIN edge' <=> k \in DOMAIN edge
        BY <2>1, <2>4, <3>1
      <3>3. ASSUME k \in DOMAIN edge PROVE edge'[k] = edge[k]
        <4>1. k \in kept
          BY <2>4, <3>3
        <4> HIDE DEF kept
        <4> QED  BY <1>13, <3>1, <4>1
      <3> QED  BY <3>2, <3>3
    <2>5. \A k : k \in DOMAIN edge' /\ k[1] = PaperId(p)
                   <=> \E r \in rels : k = <<PaperId(p), r.type, Resolved(r.target)>>
      BY <1>14, <2>2
    <2> HIDE DEF kept
    <2> QED  BY <2>3, <2>4, <2>5 DEF EdgesOf
  <1>18. \A r \in rels : \E x \in Range(prepared) : x.id = r.target
    BY <1>4
  <1> QED  BY <1>1, <1>3, <1>7, <1>17, <1>18 DEF prepared, rels

\* ClaimsAreEdges and CitationsAreEdges, of any artifact, chunks and edges.
ClaimsHold(p, heard, edges) ==
    LET said == {r \in heard : Asked(r)}
        Claims(k) == {r \in said : r.type = k[2] /\ Canonical(r) = k[3]}
        claimed == {<<PaperId(p), r.type, Canonical(r)>> : r \in said}
    IN  /\ claimed = {k \in DOMAIN edges : k[1] = PaperId(p) /\ k[2] \notin {"cites", "authored_by"}}
        /\ \A k \in claimed : /\ edges[k].supporting = {r.chunk : r \in Claims(k)}
                              /\ edges[k].chunk \in edges[k].supporting
                              /\ edges[k].confidence = Max({r.confidence : r \in Claims(k)})

CitationsHold(p, list, edges) ==
    LET Holding(q) == {c \in Range(list) : /\ c.type = "references"
                                           /\ \E w \in CitedIn(c.text) : ArxivId[w] = q}
        Cited(q) == <<PaperId(p), "cites", PaperId(q)>>
    IN  \A q \in Range(ArxivId) :
          /\ Cited(q) \in DOMAIN edges <=> Holding(q) # {}
          /\ Holding(q) # {} => /\ edges[Cited(q)].supporting = {c.id : c \in Holding(q)}
                                /\ edges[Cited(q)].chunk \in edges[Cited(q)].supporting

\* The types that say what a paper does.
ClaimType == {"addresses", "uses_method", "evaluated_on"}

\* What the prompt asks for is what validation lets through, of the types that say what
\* a paper does.
LEMMA AskedIsValid ==
    ASSUME NEW c
    PROVE  /\ Asked(c) <=> ValidRelationship(c) /\ c.type \in ClaimType
           /\ Asked(c) => Canonical(c) = Resolved(EntityId(c.target, c.name)) /\ c.confidence \in 0..One
  <1>1. /\ DOMAIN Compatible = {"authored_by", "cites"} \cup ClaimType
        /\ Compatible["addresses"] = <<"paper", "task">>
        /\ Compatible["uses_method"] = <<"paper", "method">>
        /\ Compatible["evaluated_on"] = <<"paper", "dataset">>
    BY DEF Compatible, ClaimType
  <1>2. \A source, target, t : <<source, target>> = <<"paper", t>> <=> source = "paper" /\ target = t
    OBVIOUS
  <1>3. ASSUME ValidRelationship(c), c.type \in ClaimType PROVE Asked(c)
    <2>1. /\ <<c.source, c.target>> = Compatible[c.type] /\ c.confidence \in 0..One /\ Key[c.name] # Blank
          /\ c.type \in UsageSensitive => c.usage = "used_by_this_paper"
      BY <1>3 DEF ValidRelationship, InRange
    <2>2. CASE c.type = "addresses"
      BY <1>1, <1>2, <2>1, <2>2 DEF Asked
    <2>3. CASE c.type = "uses_method"
      BY <1>1, <1>2, <2>1, <2>3 DEF Asked, UsageSensitive
    <2>4. CASE c.type = "evaluated_on"
      BY <1>1, <1>2, <2>1, <2>4 DEF Asked, UsageSensitive
    <2> QED  BY <1>3, <2>2, <2>3, <2>4 DEF ClaimType
  <1>4. ASSUME Asked(c)
        PROVE  /\ ValidRelationship(c) /\ c.type \in ClaimType
               /\ c.target # "paper" /\ c.confidence \in 0..One
    <2>1. c.source = "paper" /\ c.confidence \in 0..One /\ Key[c.name] # Blank
      BY <1>4 DEF Asked
    <2>2. \/ c.type = "addresses" /\ c.target = "task"
          \/ c.type = "uses_method" /\ c.target = "method" /\ c.usage = "used_by_this_paper"
          \/ c.type = "evaluated_on" /\ c.target = "dataset" /\ c.usage = "used_by_this_paper"
      BY <1>4 DEF Asked
    <2>3. c.type \in ClaimType /\ c.target # "paper" /\ c.type \in DOMAIN Compatible
      BY <1>1, <2>2 DEF ClaimType
    <2>4. <<c.source, c.target>> = Compatible[c.type]
      BY <1>1, <2>1, <2>2
    <2>5. c.type \in UsageSensitive => c.usage = "used_by_this_paper"
      BY <2>2 DEF UsageSensitive
    <2> QED  BY <2>1, <2>3, <2>4, <2>5 DEF ValidRelationship, InRange
  <1>5. ASSUME Asked(c) PROVE Canonical(c) = Resolved(EntityId(c.target, c.name))
    <2> DEFINE id == EntityId(c.target, c.name)  alias == <<c.target, Key[c.name]>>
    <2>1. id.type = c.target /\ id.name = Key[c.name]
      BY DEF EntityId
    <2>2. Resolved(id) = IF alias \in DOMAIN Aliases THEN EntityId(c.target, Aliases[alias]) ELSE id
      <3> HIDE DEF id
      <3>1. id.type # "paper"
        BY <1>4, <1>5, <2>1
      <3> QED  BY <2>1, <3>1 DEF Resolved
    <2>3. Canonical(c) = EntityId(c.target, IF alias \in DOMAIN Aliases THEN Aliases[alias] ELSE c.name)
      BY DEF Canonical
    <2> HIDE DEF alias
    <2> QED  BY <2>2, <2>3
  <1> QED  BY <1>3, <1>4, <1>5

\* The greatest of the greatest.
LEMMA GreatestOfAll ==
    ASSUME NEW n \in Nat, NEW S \in SUBSET (0..n), NEW m \in S, \A x \in S : x <= m
    PROVE  m = Max(S)
  <1>1. Max(S) \in S /\ \A x \in S : x <= Max(S)
    BY Greatest
  <1>2. m \in Int /\ Max(S) \in Int
    <2>1. \A x \in 0..n : x \in Int
      OBVIOUS
    <2> QED  BY <1>1, <2>1
  <1> QED  BY <1>1, <1>2

\* The edges of an artifact make all claims that were heard, and no others.
LEMMA ClaimsStored ==
    ASSUME NEW p, NEW a, RelationshipsOK(p, a), \A c \in a.heard : c.chunk # None,
           NEW before, NEW after, EdgesOf(p, Range(a.relationships), before, after)
    PROVE  ClaimsHold(p, a.heard, after)
  <1> DEFINE rels == Range(a.relationships)  valid == Valid(a.heard)
             said == {c \in a.heard : Asked(c)}
             Claims(k) == {c \in said : c.type = k[2] /\ Canonical(c) = k[3]}
             claimed == {<<PaperId(p), c.type, Canonical(c)>> : c \in said}
             stored == {k \in DOMAIN after : k[1] = PaperId(p) /\ k[2] \notin {"cites", "authored_by"}}
  <1>1. \A c \in said : /\ c \in valid /\ c.type \in ClaimType /\ c.confidence \in 0..One
                        /\ Canonical(c) = Resolved(EntityId(c.target, c.name)) /\ c.chunk # None
    BY AskedIsValid DEF Valid
  <1>2. \A c \in valid : c.type \in ClaimType => c \in said
    BY AskedIsValid DEF Valid
  <1>3. ASSUME NEW r \in rels
        PROVE  /\ r.type \in {"cites", "authored_by"} \/ r.type \in ClaimType
               /\ r.type \in ClaimType => Claim(r, p, valid)
    <2>1. Wrote(r, p) \/ r \in Citing(p) \/ Claim(r, p, valid)
      BY DEF RelationshipsOK
    <2>2. r.type \in DOMAIN Compatible
      BY <2>1, RelationshipForm
    <2>3. Wrote(r, p) => r.type = "authored_by"
      BY DEF Wrote, Fact
    <2>4. r \in Citing(p) => r.type = "cites"
      BY DEF Citing, Cites, Fact
    <2> QED  BY <2>1, <2>2, <2>3, <2>4 DEF Compatible, ClaimType
  <1>4. \A c \in valid : \E r \in rels :
          Claim(r, p, valid) /\ r.type = c.type /\ r.target = EntityId(c.target, c.name)
    BY DEF RelationshipsOK
  <1>5. /\ \A k : k \in DOMAIN after /\ k[1] = PaperId(p)
                    <=> \E r \in rels : k = <<PaperId(p), r.type, Resolved(r.target)>>
        /\ \A k \in DOMAIN after : k[1] = PaperId(p) =>
             \E x : /\ Endpoints(x) = k /\ Stored(x, rels)
                    /\ after[k].chunk = x.chunk /\ after[k].supporting = x.supporting
                    /\ after[k].confidence = x.confidence
    BY DEF EdgesOf
  <1> HIDE DEF rels, valid, said
  <1>6. ASSUME NEW c \in said
        PROVE  LET k == <<PaperId(p), c.type, Canonical(c)>>
               IN  k \in stored /\ k[1] = PaperId(p) /\ k[2] = c.type /\ k[3] = Canonical(c)
    <2> DEFINE k == <<PaperId(p), c.type, Canonical(c)>>
    <2>1. PICK r \in rels : r.type = c.type /\ r.target = EntityId(c.target, c.name)
      BY <1>1, <1>4
    <2>2. k = <<PaperId(p), r.type, Resolved(r.target)>>
      BY <1>1, <2>1
    <2>3. k[1] = PaperId(p) /\ k[2] = c.type /\ k[3] = Canonical(c)
      OBVIOUS
    <2> HIDE DEF k
    <2>4. k \in DOMAIN after
      BY <1>5, <2>2
    <2>5. c.type \notin {"cites", "authored_by"}
      BY <1>1 DEF ClaimType
    <2> QED  BY <2>3, <2>4, <2>5 DEF k
  <1>7. ASSUME NEW k \in stored
        PROVE  \E r \in rels : /\ k = <<PaperId(p), r.type, Resolved(r.target)>>
                               /\ k[2] = r.type /\ k[3] = Resolved(r.target) /\ r.type \in ClaimType
    <2>1. PICK r \in rels : k = <<PaperId(p), r.type, Resolved(r.target)>>
      BY <1>5
    <2>2. k[2] = r.type /\ k[3] = Resolved(r.target)
      BY <2>1
    <2>3. r.type \notin {"cites", "authored_by"}
      BY <2>2
    <2> QED  BY <1>3, <2>1, <2>2, <2>3
  <1>8. ASSUME NEW r \in rels, r.type \in ClaimType
        PROVE  /\ Saying(valid, r.type, r.target) # {}
               /\ \A c \in Saying(valid, r.type, r.target) :
                    c \in said /\ c.type = r.type /\ Canonical(c) = Resolved(r.target)
    <2>1. Claim(r, p, valid)
      BY <1>3, <1>8
    <2>2. Saying(valid, r.type, r.target) # {}
      BY <2>1 DEF Claim
    <2>3. \A c \in Saying(valid, r.type, r.target) :
            c \in valid /\ c.type = r.type /\ EntityId(c.target, c.name) = r.target
      BY DEF Saying
    <2>4. \A c \in Saying(valid, r.type, r.target) :
            c \in said /\ c.type = r.type /\ Canonical(c) = Resolved(r.target)
      BY <1>1, <1>2, <1>8, <2>3
    <2> QED  BY <2>2, <2>4
  <1>9. claimed = stored
    <2>1. ASSUME NEW k \in stored PROVE k \in claimed
      <3>1. PICK r \in rels : k = <<PaperId(p), r.type, Resolved(r.target)>> /\ r.type \in ClaimType
        BY <1>7
      <3>2. PICK c \in said : c.type = r.type /\ Canonical(c) = Resolved(r.target)
        BY <1>8, <3>1
      <3> QED  BY <3>1, <3>2
    <2>2. ASSUME NEW k \in claimed PROVE k \in stored
      BY <1>6
    <2> HIDE DEF claimed, stored
    <2> QED  BY <2>1, <2>2
  <1>10. ASSUME NEW k \in stored
         PROVE  /\ after[k].supporting = {c.chunk : c \in Claims(k)}
                /\ after[k].chunk \in after[k].supporting
                /\ after[k].confidence = Max({c.confidence : c \in Claims(k)})
    <2>1. k \in DOMAIN after /\ k[1] = PaperId(p)
      OBVIOUS
    <2>2. PICK x : /\ Endpoints(x) = k /\ Stored(x, rels)
                   /\ after[k].chunk = x.chunk /\ after[k].supporting = x.supporting
                   /\ after[k].confidence = x.confidence
      BY <1>5, <2>1
    <2>3. k[2] \in ClaimType
      BY <1>7
    <2> DEFINE own == Colliding(rels, k)
    <2>4. /\ own # {}
          /\ x.supporting = UNION {r.supporting \cup ({r.chunk} \ {None}) : r \in own}
          /\ x.confidence = Max({r.confidence : r \in own})
          /\ \/ \A r \in own : r.chunk = None
             \/ \E r \in own : r.chunk # None /\ x.chunk = r.chunk
      BY <2>2 DEF Stored
    <2>5. \A r \in own : /\ r \in rels /\ r.type = k[2] /\ Resolved(r.target) = k[3]
                         /\ r.type \in ClaimType
      BY <2>3 DEF Colliding
    <2>6. \A r \in rels : r.type = k[2] /\ Resolved(r.target) = k[3] => r \in own
      <3> SUFFICES ASSUME NEW r \in rels, r.type = k[2], Resolved(r.target) = k[3] PROVE r \in own
        OBVIOUS
      <3>1. PICK s \in rels : k = <<PaperId(p), s.type, Resolved(s.target)>>
        BY <1>7
      <3>2. k = <<k[1], k[2], k[3]>>
        BY <3>1
      <3>3. r.source = PaperId(p) /\ Resolved(r.source) = PaperId(p)
        <4>1. Claim(r, p, valid)
          BY <1>3, <2>3
        <4>2. r.source = PaperId(p)
          BY <4>1 DEF Claim
        <4> QED  BY <4>2 DEF Resolved, PaperId
      <3> QED  BY <2>1, <3>2, <3>3 DEF Colliding
    <2> HIDE DEF own, stored
    <2>7. ASSUME NEW r \in own
          PROVE  /\ r.supporting = {c.chunk : c \in Saying(valid, r.type, r.target)}
                 /\ r.chunk \in r.supporting
                 /\ r.confidence = Max({c.confidence : c \in Saying(valid, r.type, r.target)})
                 /\ Saying(valid, r.type, r.target) # {}
                 /\ Saying(valid, r.type, r.target) \subseteq Claims(k)
      <3>1. Claim(r, p, valid)
        BY <1>3, <2>5
      <3>2. Saying(valid, r.type, r.target) \subseteq Claims(k)
        BY <1>8, <2>5
      <3> HIDE DEF Claims
      <3> QED  BY <3>1, <3>2 DEF Claim
    <2>8. ASSUME NEW c \in Claims(k)
          PROVE  \E r \in own : c \in Saying(valid, r.type, r.target)
      <3>1. c \in valid /\ c.type = k[2] /\ Resolved(EntityId(c.target, c.name)) = k[3]
        BY <1>1
      <3>2. PICK r \in rels : r.type = c.type /\ r.target = EntityId(c.target, c.name)
        BY <1>4, <3>1
      <3>3. r \in own
        BY <2>6, <3>1, <3>2
      <3>4. c \in Saying(valid, r.type, r.target)
        BY <3>1, <3>2 DEF Saying
      <3> QED  BY <3>3, <3>4
    <2>9. \A c \in Claims(k) : c.chunk # None /\ c.confidence \in 0..One
      BY <1>1
    <2> HIDE DEF Claims
    <2>10. ASSUME NEW r \in own PROVE r.chunk # None
      <3> DEFINE own_said == Saying(valid, r.type, r.target)
      <3>1. /\ r.chunk \in r.supporting /\ r.supporting = {c.chunk : c \in own_said}
            /\ own_said \subseteq Claims(k)
        BY <2>7
      <3> HIDE DEF own_said
      <3>2. PICK c \in own_said : r.chunk = c.chunk
        BY <3>1
      <3> QED  BY <2>9, <3>1, <3>2
    <2>11. x.supporting = {c.chunk : c \in Claims(k)}
      <3>1. x.supporting = UNION {r.supporting : r \in own}
        <4>1. \A r \in own : r.supporting \cup ({r.chunk} \ {None}) = r.supporting
          BY <2>7
        <4> QED  BY <2>4, <4>1
      <3>2. ASSUME NEW y \in x.supporting PROVE y \in {c.chunk : c \in Claims(k)}
        <4>1. PICK r \in own : y \in r.supporting
          BY <3>1
        <4>2. PICK c \in Saying(valid, r.type, r.target) : y = c.chunk
          BY <2>7, <4>1
        <4> QED  BY <2>7, <4>2
      <3>3. ASSUME NEW c \in Claims(k) PROVE c.chunk \in x.supporting
        <4>1. PICK r \in own : c \in Saying(valid, r.type, r.target)
          BY <2>8
        <4> QED  BY <2>7, <3>1, <4>1
      <3> QED  BY <3>2, <3>3
    <2>12. x.chunk \in x.supporting
      <3>1. PICK r \in own : x.chunk = r.chunk
        BY <2>4, <2>10
      <3>2. r.chunk \in r.supporting
        BY <2>7
      <3> QED  BY <2>4, <3>1, <3>2
    <2>13. x.confidence = Max({c.confidence : c \in Claims(k)})
      <3> DEFINE all == {c.confidence : c \in Claims(k)}
                 Of(r) == {c.confidence : c \in Saying(valid, r.type, r.target)}
                 tops == {r.confidence : r \in own}
      <3>1. One \in Nat /\ all \in SUBSET (0..One)
        BY <2>9, OneAssumption
      <3>2. ASSUME NEW r \in own
            PROVE  r.confidence \in Of(r) /\ (\A y \in Of(r) : y <= r.confidence) /\ Of(r) \subseteq all
        <4>1. Of(r) \subseteq all /\ Of(r) # {} /\ r.confidence = Max(Of(r))
          BY <2>7
        <4> HIDE DEF Of, all
        <4>2. Of(r) \in SUBSET (0..One)
          BY <3>1, <4>1
        <4> QED  BY <3>1, <4>1, <4>2, Greatest
      <3>3. tops \in SUBSET (0..One) /\ tops # {}
        <4>1. \A r \in own : r.confidence \in all
          BY <3>2
        <4> HIDE DEF all
        <4>2. \A r \in own : r.confidence \in 0..One
          BY <3>1, <4>1
        <4>3. \E r : r \in own
          BY <2>4
        <4> QED  BY <4>2, <4>3
      <3>4. x.confidence \in tops /\ \A y \in tops : y <= x.confidence
        <4> HIDE DEF tops
        <4>1. Max(tops) \in tops /\ \A y \in tops : y <= Max(tops)
          BY <3>1, <3>3, Greatest
        <4> QED  BY <2>4, <4>1 DEF tops
      <3>5. x.confidence \in all
        <4>1. PICK r \in own : x.confidence = r.confidence
          BY <3>4
        <4> HIDE DEF all, Of
        <4> QED  BY <3>2, <4>1
      <3>6. ASSUME NEW y \in all PROVE y <= x.confidence
        <4>1. PICK c \in Claims(k) : y = c.confidence
          OBVIOUS
        <4>2. PICK r \in own : c \in Saying(valid, r.type, r.target)
          BY <2>8
        <4>3. y <= r.confidence /\ r.confidence \in all
          BY <3>2, <4>1, <4>2
        <4>4. r.confidence <= x.confidence
          BY <3>4
        <4>5. y \in Int /\ r.confidence \in Int /\ x.confidence \in Int
          <5>1. \A z \in 0..One : z \in Int
            OBVIOUS
          <5> HIDE DEF all
          <5> QED  BY <3>1, <3>5, <4>3, <5>1
        <4> HIDE DEF all
        <4> QED  BY <4>3, <4>4, <4>5
      <3> HIDE DEF all, tops
      <3>7. x.confidence = Max(all)
        BY <3>1, <3>5, <3>6, GreatestOfAll
      <3> QED  BY <3>7 DEF all
    <2> QED  BY <2>2, <2>11, <2>12, <2>13
  <1>11. \A k \in claimed : /\ after[k].supporting = {c.chunk : c \in Claims(k)}
                            /\ after[k].chunk \in after[k].supporting
                            /\ after[k].confidence = Max({c.confidence : c \in Claims(k)})
    <2> HIDE DEF claimed, stored, Claims
    <2> QED  BY <1>9, <1>10
  <1> QED  BY <1>9, <1>11 DEF ClaimsHold, said

\* The edges of an artifact have all citations of the references, and no others.
LEMMA CitationsStored ==
    ASSUME NEW p \in Paper, NEW a, RelationshipsOK(p, a), AreChunks(p, chunks[p]),
           NEW before, NEW after, EdgesOf(p, Range(a.relationships), before, after)
    PROVE  CitationsHold(p, chunks[p], after)
  <1> DEFINE rels == Range(a.relationships)
             Holding(q) == {c \in Range(chunks[p]) :
                              /\ c.type = "references"
                              /\ \E w \in CitedIn(c.text) : ArxivId[w] = q}
             Cited(q) == <<PaperId(p), "cites", PaperId(q)>>
             CitingOf(q) == {r \in Citing(p) : r.target = PaperId(q)}
  <1>1. \A q, s : PaperId(q) = PaperId(s) <=> q = s
    BY DEF PaperId
  <1>2. \A q : Resolved(PaperId(q)) = PaperId(q) /\ PaperId(q).of = "arxiv_id"
    BY DEF Resolved, PaperId
  <1>3. ASSUME NEW r \in Citing(p)
        PROVE  \E c \in References(p) : \E w \in CitedIn(c.text) :
                 /\ r.source = PaperId(p) /\ r.type = "cites" /\ r.target = PaperId(ArxivId[w])
                 /\ r.chunk = c.id /\ r.supporting = {}
    <2>1. PICK c \in References(p) : r \in Cites(p, c)
      BY DEF Citing
    <2>2. PICK w \in CitedIn(c.text) :
            r = Fact(PaperId(p), "cites", PaperId(ArxivId[w]), c.id)
      BY <2>1 DEF Cites
    <2> QED  BY <2>2 DEF Fact
  <1>4. ASSUME NEW c \in References(p), NEW w \in CitedIn(c.text)
        PROVE  \E r \in Citing(p) : r.target = PaperId(ArxivId[w]) /\ r.chunk = c.id
    <2> DEFINE r == Fact(PaperId(p), "cites", PaperId(ArxivId[w]), c.id)
    <2>1. r \in Citing(p)
      BY DEF Citing, Cites
    <2>2. r.target = PaperId(ArxivId[w]) /\ r.chunk = c.id
      BY DEF Fact
    <2> QED  BY <2>1, <2>2
  <1>5. \A c \in References(p) : c.id # None
    <2>1. \A c \in References(p) : c.id \in {p} \X Nat \X Nat
      BY DEF References, AreChunks
    <2>2. {p} \X Nat \X Nat \subseteq Paper \X Nat \X Nat
      OBVIOUS
    <2> QED  BY <2>1, <2>2, NoneAssumption
  <1>6. ASSUME NEW r \in rels, NEW q PROVE r \in Colliding(rels, Cited(q)) <=> r \in CitingOf(q)
    <2>1. Wrote(r, p) \/ r \in Citing(p) \/ Claim(r, p, Valid(a.heard))
      BY DEF RelationshipsOK
    <2>2. r \in Colliding(rels, Cited(q))
            <=> Resolved(r.source) = PaperId(p) /\ r.type = "cites" /\ Resolved(r.target) = PaperId(q)
      BY DEF Colliding
    <2>3. CASE r \in Citing(p)
      <3>1. r.source = PaperId(p) /\ r.type = "cites" /\ \E s : r.target = PaperId(s)
        BY <1>3, <2>3
      <3> QED  BY <1>2, <2>2, <2>3, <3>1
    <2>4. CASE Wrote(r, p) /\ r \notin Citing(p)
      <3>1. r.type = "authored_by"
        BY <2>4 DEF Wrote, Fact
      <3> QED  BY <2>2, <2>4, <3>1
    <2>5. CASE Claim(r, p, Valid(a.heard)) /\ r \notin Citing(p)
      <3>1. PICK c : r.target = EntityId(c.target, c.name)
        BY <2>5 DEF Claim, Saying
      <3>2. Resolved(r.target).of = "name"
        BY <3>1 DEF Resolved, EntityId
      <3> QED  BY <1>2, <2>2, <2>5, <3>2
    <2> QED  BY <2>1, <2>3, <2>4, <2>5
  <1>7. Citing(p) \subseteq rels
    BY DEF RelationshipsOK
  <1>8. /\ \A k : k \in DOMAIN after /\ k[1] = PaperId(p)
                    <=> \E r \in rels : k = <<PaperId(p), r.type, Resolved(r.target)>>
        /\ \A k \in DOMAIN after : k[1] = PaperId(p) =>
             \E x : /\ Endpoints(x) = k /\ Stored(x, rels)
                    /\ after[k].chunk = x.chunk /\ after[k].supporting = x.supporting
                    /\ after[k].confidence = x.confidence
    BY DEF EdgesOf
  <1> HIDE DEF rels
  <1> SUFFICES ASSUME NEW q \in Range(ArxivId)
               PROVE  /\ Cited(q) \in DOMAIN after <=> Holding(q) # {}
                      /\ Holding(q) # {} => /\ after[Cited(q)].supporting = {c.id : c \in Holding(q)}
                                            /\ after[Cited(q)].chunk \in after[Cited(q)].supporting
    BY DEF CitationsHold
  <1> DEFINE k == Cited(q)
  <1>9. Colliding(rels, k) = CitingOf(q)
    <2>1. Colliding(rels, k) \subseteq rels /\ CitingOf(q) \subseteq rels
      BY <1>7 DEF Colliding
    <2> HIDE DEF k, CitingOf
    <2>2. \A r \in rels : r \in Colliding(rels, k) <=> r \in CitingOf(q)
      BY <1>6 DEF k
    <2> QED  BY <2>1, <2>2
  <1>10. ASSUME NEW r \in CitingOf(q) PROVE r.chunk \in {c.id : c \in Holding(q)} /\ r.supporting = {}
    <2>1. PICK c \in References(p) : \E w \in CitedIn(c.text) :
            r.target = PaperId(ArxivId[w]) /\ r.chunk = c.id /\ r.supporting = {}
      BY <1>3
    <2>2. c \in Holding(q)
      BY <1>1, <2>1 DEF References
    <2> HIDE DEF Holding
    <2> QED  BY <2>1, <2>2
  <1>11. ASSUME NEW c \in Holding(q) PROVE \E r \in CitingOf(q) : r.chunk = c.id
    <2>1. c \in References(p)
      BY DEF References
    <2>2. PICK w \in CitedIn(c.text) : ArxivId[w] = q
      OBVIOUS
    <2> HIDE DEF Holding
    <2> QED  BY <1>4, <2>1, <2>2
  <1>12. \A c \in Holding(q) : c.id # None
    BY <1>5 DEF References
  <1>13. k[1] = PaperId(p) /\ k[2] = "cites" /\ k[3] = PaperId(q)
    OBVIOUS
  <1> HIDE DEF Holding, k
  <1>14. k \in DOMAIN after <=> Holding(q) # {}
    <2>1. ASSUME k \in DOMAIN after PROVE Holding(q) # {}
      <3>1. PICK x : Endpoints(x) = k /\ Stored(x, rels)
        BY <1>8, <1>13, <2>1
      <3>2. Colliding(rels, k) # {}
        BY <3>1 DEF Stored
      <3> QED  BY <1>9, <1>10, <3>2
    <2>2. ASSUME Holding(q) # {} PROVE k \in DOMAIN after
      <3>1. PICK r \in CitingOf(q) : TRUE
        BY <1>11, <2>2
      <3>2. r \in rels /\ r.type = "cites" /\ Resolved(r.target) = PaperId(q)
        BY <1>2, <1>3, <1>7
      <3>3. k = <<PaperId(p), r.type, Resolved(r.target)>>
        BY <3>2 DEF k
      <3> QED  BY <1>8, <3>2, <3>3
    <2> QED  BY <2>1, <2>2
  <1>15. ASSUME Holding(q) # {}
         PROVE  /\ after[k].supporting = {c.id : c \in Holding(q)}
                /\ after[k].chunk \in after[k].supporting
    <2> DEFINE own == CitingOf(q)
    <2>1. PICK x : /\ Endpoints(x) = k /\ Stored(x, rels)
                   /\ after[k].chunk = x.chunk /\ after[k].supporting = x.supporting
      BY <1>8, <1>13, <1>14, <1>15
    <2>2. /\ own # {}
          /\ x.supporting = UNION {r.supporting \cup ({r.chunk} \ {None}) : r \in own}
          /\ \/ \A r \in own : r.chunk = None
             \/ \E r \in own : r.chunk # None /\ x.chunk = r.chunk
      <3> HIDE DEF own
      <3> QED  BY <1>9, <2>1 DEF Stored, own
    <2> HIDE DEF own
    <2>3. ASSUME NEW r \in own
          PROVE  r.chunk \in {c.id : c \in Holding(q)} /\ r.chunk # None
                 /\ r.supporting \cup ({r.chunk} \ {None}) = {r.chunk}
      <3>1. r.chunk \in {c.id : c \in Holding(q)} /\ r.supporting = {}
        BY <1>10 DEF own
      <3>2. r.chunk # None
        BY <1>12, <3>1
      <3> QED  BY <3>1, <3>2
    <2>4. x.supporting = UNION {{r.chunk} : r \in own}
      BY <2>2, <2>3
    <2>5. ASSUME NEW c \in Holding(q) PROVE \E r \in own : r.chunk = c.id
      BY <1>11 DEF own
    <2>6. x.supporting = {c.id : c \in Holding(q)}
      BY <2>3, <2>4, <2>5
    <2>7. x.chunk \in x.supporting
      BY <2>2, <2>3, <2>4
    <2> QED  BY <2>1, <2>6, <2>7
  <1> QED  BY <1>14, <1>15 DEF k

-----------------------------------------------------------------------------
(* The inductive invariant *)

\* What is parsed and chunked, of papers that are discovered.
TextOK ==
    /\ pdf \in Pdfs /\ discovered \subseteq Paper
    /\ DOMAIN sections = Paper /\ DOMAIN chunks = Paper
    /\ \A p \in Paper : sections[p] # None => p \in discovered /\ AreSections(sections[p])
    /\ \A p \in Paper : chunks[p] # None => sections[p] # None /\ AreChunks(p, chunks[p])

\* The extraction that runs keeps what is valid of what it heard.
WorkOK ==
    /\ work = [paper |-> work.paper, todo |-> work.todo, attempt |-> work.attempt,
               entities |-> work.entities, relationships |-> work.relationships,
               heard |-> work.heard]
    /\ work.paper = None => work = Idle
    /\ work.paper # None => work.paper \in Paper /\ chunks[work.paper] # None
    /\ work.attempt \in 0..(MaxRetries + 1)
    /\ work.todo \in Seq(Range(work.todo))
    /\ \A c \in Range(work.todo) : c.type \in Semantic /\ c.id # None
    /\ work.entities \in Seq(Range(work.entities))
    /\ \A e \in Range(work.entities) : ValidEntity(e)
    /\ work.relationships \in Seq(Range(work.relationships))
    /\ Range(work.relationships) = Valid(work.heard)
    /\ \A c \in work.heard : c.chunk # None

\* Artifacts, and the edges of those that are indexed.
ArtifactsOK ==
    /\ DOMAIN artifact = Paper /\ DOMAIN indexed = Paper
    /\ \A p \in Paper : artifact[p] # None => chunks[p] # None /\ ArtifactOK(p, artifact[p])
    /\ \A p \in Paper : indexed[p] # None =>
         /\ chunks[p] # None
         /\ ClaimsHold(p, indexed[p].heard, edge) /\ CitationsHold(p, chunks[p], edge)

NodesOK ==
    \A id \in DOMAIN node : /\ id.type \in EntityType
                            /\ id.of = "arxiv_id" /\ node[id].title # None => id.name \in discovered

EdgesOK ==
    \A k \in DOMAIN edge : /\ {k[1], k[3]} \subseteq DOMAIN node
                           /\ k[2] \in DOMAIN Compatible /\ edge[k].confidence \in 0..One

IInv == TextOK /\ WorkOK /\ ArtifactsOK /\ NodesOK /\ EdgesOK

\* The invariant holds at first.
LEMMA InitHolds == Init => IInv
  <1> SUFFICES ASSUME Init PROVE IInv
    OBVIOUS
  <1>1. TextOK
    BY DEF Init, TextOK
  <1>2. WorkOK
    <2>1. Range(<<>>) = {}
      BY DEF Range
    <2>2. work = Idle /\ work.todo = <<>> /\ work.entities = <<>> /\ work.relationships = <<>>
          /\ work.heard = {} /\ work.attempt = 0 /\ work.paper = None
      BY DEF Init, Idle
    <2>3. Valid({}) = {}
      BY DEF Valid
    <2>4. work = [paper |-> work.paper, todo |-> work.todo, attempt |-> work.attempt,
                  entities |-> work.entities, relationships |-> work.relationships,
                  heard |-> work.heard]
      BY <2>2 DEF Idle
    <2>5. 0 \in 0..(MaxRetries + 1)
      BY RetriesAssumption
    <2>6. <<>> \in Seq({})
      OBVIOUS
    <2> QED  BY <2>1, <2>2, <2>3, <2>4, <2>5, <2>6 DEF WorkOK
  <1>3. ArtifactsOK
    BY DEF Init, ArtifactsOK
  <1>4. NodesOK /\ EdgesOK
    BY DEF Init, NodesOK, EdgesOK
  <1> QED  BY <1>1, <1>2, <1>3, <1>4 DEF IInv

\* What holds of a paper's citations is a matter of its chunks.
LEMMA SameChunks ==
    ASSUME NEW p, chunks'[p] = chunks[p]
    PROVE  /\ \A a : ArtifactOK(p, a)' <=> ArtifactOK(p, a)
           /\ Citing(p)' = Citing(p)
  <1>1. References(p)' = References(p)
    BY DEF References
  <1>2. Citing(p)' = Citing(p)
    BY <1>1 DEF Citing, Cites
  <1> QED  BY <1>2 DEF ArtifactOK, EntitiesOK, RelationshipsOK

\* Artifacts and edges stay what they are while the chunks they rest on do.
LEMMA ArtifactsStay ==
    ASSUME ArtifactsOK, UNCHANGED <<artifact, indexed, edge>>, DOMAIN chunks = Paper,
           \A p \in Paper : chunks[p] # None => chunks'[p] = chunks[p]
    PROVE  ArtifactsOK'
  <1>1. ASSUME NEW p \in Paper, artifact[p] # None
        PROVE  chunks'[p] # None /\ ArtifactOK(p, artifact[p])'
    <2>1. chunks[p] # None /\ ArtifactOK(p, artifact[p]) /\ chunks'[p] = chunks[p]
      BY <1>1 DEF ArtifactsOK
    <2>2. PICK a : a = artifact[p]
      OBVIOUS
    <2>3. ArtifactOK(p, a)'
      BY <2>1, <2>2, SameChunks
    <2>4. (ArtifactOK(p, a) <=> ArtifactOK(p, artifact[p]))'
      BY <2>2
    <2> QED  BY <2>1, <2>3, <2>4
  <1>2. ASSUME NEW p \in Paper, indexed[p] # None
        PROVE  /\ chunks'[p] # None /\ ClaimsHold(p, indexed'[p].heard, edge')
               /\ CitationsHold(p, chunks'[p], edge')
    <2>1. /\ chunks[p] # None /\ chunks'[p] = chunks[p]
          /\ ClaimsHold(p, indexed[p].heard, edge) /\ CitationsHold(p, chunks[p], edge)
      BY <1>2 DEF ArtifactsOK
    <2> QED  BY <2>1
  <1> QED  BY <1>1, <1>2 DEF ArtifactsOK

\* Each action keeps the invariant: one lemma for each.
LEMMA DiscoverKeeps ==
    ASSUME IInv, NEW p \in Paper, Discover(p)
    PROVE  IInv'
  <1> USE DEF IInv, Discover
  <1>1. TextOK'
    BY DEF TextOK
  <1>2. WorkOK'
    BY DEF WorkOK
  <1>3. ArtifactsOK'
    BY ArtifactsStay DEF TextOK
  <1>4. NodesOK'
    BY DEF NodesOK
  <1>5. EdgesOK'
    BY DEF EdgesOK
  <1> QED  BY <1>1, <1>2, <1>3, <1>4, <1>5

LEMMA ParseKeeps ==
    ASSUME IInv, NEW p \in Paper, Parse(p)
    PROVE  IInv'
  <1> USE DEF IInv, Parse
  <1>1. TextOK'
    <2>1. pdf[p] \in Seq(Seq(Block))
      BY PdfsAssumption DEF TextOK
    <2>2. AreSections(RecoverSections(CleanPages(pdf[p])))
      BY <2>1, CleanPagesType, RecoverType
    <2>3. \A q \in Paper : sections'[q] # None => q \in discovered' /\ AreSections(sections'[q])
      BY <2>2 DEF TextOK
    <2>4. \A q \in Paper : sections[q] # None => sections'[q] # None
      BY DEF TextOK
    <2>5. \A q \in Paper : chunks'[q] # None => sections'[q] # None /\ AreChunks(q, chunks'[q])
      BY <2>4 DEF TextOK
    <2> QED  BY <2>3, <2>5 DEF TextOK
  <1>2. WorkOK'
    BY DEF WorkOK
  <1>3. ArtifactsOK'
    BY ArtifactsStay DEF TextOK
  <1>4. NodesOK'
    BY DEF NodesOK
  <1>5. EdgesOK'
    BY DEF EdgesOK
  <1> QED  BY <1>1, <1>2, <1>3, <1>4, <1>5

LEMMA ChunkDocumentKeeps ==
    ASSUME IInv, NEW p \in Paper, ChunkDocument(p)
    PROVE  IInv'
  <1> DEFINE Made1(i) == ChunksOfSection(sections[p][i].blocks)
             ChunksOf == [i \in DOMAIN sections[p] |->
                            [k \in DOMAIN Made1(i) |-> [id |-> <<p, i, k>>, text |-> Made1(i)[k],
                                                        type |-> sections[p][i].type]]]
  <1> USE DEF IInv
  <1>1. /\ sections[p] # None /\ chunks[p] = None
        /\ chunks' = [chunks EXCEPT ![p] = FlattenSeq(ChunksOf)]
        /\ UNCHANGED <<pdf, discovered, sections, work, artifact, indexed, node, edge, extractions>>
    BY DEF ChunkDocument
  <1>2. AreChunks(p, FlattenSeq(ChunksOf))
    BY <1>1, ChunkDocumentType DEF TextOK
  <1> HIDE DEF ChunksOf
  <1>3. /\ DOMAIN chunks' = Paper /\ chunks'[p] = FlattenSeq(ChunksOf)
        /\ \A q \in Paper : q # p => chunks'[q] = chunks[q]
    BY <1>1 DEF TextOK
  <1>4. TextOK'
    BY <1>1, <1>2, <1>3 DEF TextOK
  <1>5. \A q \in Paper : chunks[q] # None => chunks'[q] = chunks[q]
    BY <1>1, <1>3
  <1>6. WorkOK'
    BY <1>1, <1>5 DEF WorkOK
  <1>7. ArtifactsOK'
    BY <1>1, <1>5, ArtifactsStay DEF TextOK
  <1>8. NodesOK'
    BY <1>1 DEF NodesOK
  <1>9. EdgesOK'
    BY <1>1 DEF EdgesOK
  <1> QED  BY <1>4, <1>6, <1>7, <1>8, <1>9

\* What is left of a list.
LEMMA TailList ==
    ASSUME NEW list, list \in Seq(Range(list)), list # <<>>
    PROVE  Tail(list) \in Seq(Range(Tail(list))) /\ Range(Tail(list)) \subseteq Range(list)
  <1>1. Tail(list) \in Seq(Range(list))
    OBVIOUS
  <1> QED  BY <1>1, InList

\* A step of the extraction alone.
LEMMA WorkAlone ==
    ASSUME IInv, UNCHANGED <<pdf, discovered, sections, chunks, artifact, indexed, node, edge>>, WorkOK'
    PROVE  IInv'
  <1> USE DEF IInv
  <1>1. TextOK'
    BY DEF TextOK
  <1>2. ArtifactsOK'
    BY ArtifactsStay DEF TextOK
  <1>3. NodesOK' /\ EdgesOK'
    BY DEF NodesOK, EdgesOK
  <1> QED  BY <1>1, <1>2, <1>3

\* No extraction runs.
LEMMA IdleWork ==
    ASSUME work' = Idle
    PROVE  WorkOK'
  <1>1. Range(<<>>) = {} /\ <<>> \in Seq({})
    BY DEF Range
  <1>2. Valid({}) = {}
    BY DEF Valid
  <1>3. 0 \in 0..(MaxRetries + 1)
    BY RetriesAssumption
  <1> QED  BY <1>1, <1>2, <1>3 DEF WorkOK, Idle

LEMMA StartKeeps ==
    ASSUME IInv, NEW p \in Paper, Start(p)
    PROVE  IInv'
  <1> DEFINE list == chunks[p]  S == {c \in Range(list) : c.type \in Semantic}
  <1>1. AreChunks(p, list) /\ chunks[p] # None
    BY DEF Start, IInv, TextOK
  <1>2. /\ OfSections(p, Semantic) = Picked(list, S)
        /\ list \in Seq(Range(list)) /\ \A c \in Range(list) : c.id \in {p} \X Nat \X Nat
    BY <1>1 DEF OfSections, AreChunks
  <1> DEFINE todo == OfSections(p, Semantic)
  <1> HIDE DEF list, S
  <1>3. Picked(list, S) \in Seq(Range(list)) /\ Range(Picked(list, S)) = Range(list) \cap S
    BY <1>2, PickedSet
  <1>4. \A c \in Range(todo) : c.type \in Semantic /\ c.id # None
    <2>1. \A c \in Range(todo) : c \in Range(list) /\ c \in S
      BY <1>2, <1>3
    <2>2. {p} \X Nat \X Nat \subseteq Paper \X Nat \X Nat
      OBVIOUS
    <2> QED  BY <1>2, <2>1, <2>2, NoneAssumption DEF S
  <1> HIDE DEF todo
  <1>5. todo \in Seq(Range(todo))
    BY <1>2, <1>3, InList DEF todo
  <1>6. work' = [Idle EXCEPT !.paper = p, !.attempt = 1, !.todo = todo]
    BY DEF Start, todo
  <1>7. WorkOK'
    <2>1. work' = [paper |-> p, todo |-> todo, attempt |-> 1, entities |-> <<>>,
                   relationships |-> <<>>, heard |-> {}]
      BY <1>6 DEF Idle
    <2>2. Range(<<>>) = {} /\ <<>> \in Seq({})
      BY DEF Range
    <2>3. Valid({}) = {}
      BY DEF Valid
    <2>4. 1 \in 0..(MaxRetries + 1)
      BY RetriesAssumption
    <2>5. p # None /\ chunks'[p] # None
      BY <1>1, NoneAssumption DEF Start
    <2> QED  BY <1>4, <1>5, <2>1, <2>2, <2>3, <2>4, <2>5 DEF WorkOK
  <1> QED  BY <1>7, WorkAlone DEF Start

LEMMA AnswerKeeps ==
    ASSUME IInv, Answer
    PROVE  IInv'
  <1> DEFINE c == Head(work.todo)
             Proposed(reply) == [i \in DOMAIN reply.relationships |-> Proposal(c.id, reply.relationships[i])]
  <1>1. WorkOK /\ work.todo # <<>>
    BY DEF IInv, Answer
  <1>2. PICK reply \in Replies[c.type] :
          work' = [work EXCEPT
              !.todo = Tail(@), !.attempt = 1,
              !.entities = @ \o Picked(reply.entities, {e \in Range(reply.entities) : ValidEntity(e)}),
              !.relationships = @ \o Picked(Proposed(reply), {r \in Range(Proposed(reply)) : ValidRelationship(r)}),
              !.heard = @ \cup Range(Proposed(reply))]
    BY DEF Answer
  <1>3. c \in Range(work.todo) /\ c.type \in Semantic /\ c.id # None
    BY <1>1, InList DEF WorkOK
  <1>4. reply.entities \in Seq(Range(reply.entities)) /\ reply.relationships \in Seq(Range(reply.relationships))
    BY <1>3, RepliesAssumption
  <1> DEFINE proposed == Proposed(reply)
             valid == {r \in Range(proposed) : ValidRelationship(r)}
             named == {e \in Range(reply.entities) : ValidEntity(e)}
             more == Picked(reply.entities, named)
             claims == Picked(proposed, valid)
  <1>5. proposed \in Seq(Range(proposed)) /\ \A r \in Range(proposed) : r.chunk # None
    <2> DEFINE raws == reply.relationships
               U == {Proposal(c.id, raw) : raw \in Range(raws)}
    <2>1. Len(raws) \in Nat /\ DOMAIN raws = 1..Len(raws) /\ \A i \in 1..Len(raws) : raws[i] \in Range(raws)
      BY <1>4, InList
    <2>2. \A i \in 1..Len(raws) : Proposal(c.id, raws[i]) \in U
      BY <2>1
    <2>3. \A raw : Proposal(c.id, raw).chunk = c.id
      BY DEF Proposal
    <2>4. \A r \in U : r.chunk # None
      BY <1>3, <2>3
    <2> HIDE DEF U, c
    <2>5. proposed \in Seq(U)
      BY <2>1, <2>2
    <2> HIDE DEF proposed
    <2> QED  BY <2>4, <2>5, InList
  <1> HIDE DEF c, proposed
  <1>6. claims \in Seq(Range(claims)) /\ Range(claims) = valid
    BY <1>5, PickedSet, InList
  <1>7. more \in Seq(Range(more)) /\ Range(more) = named
    BY <1>4, PickedSet, InList
  <1>8. /\ work'.paper = work.paper /\ work'.todo = Tail(work.todo) /\ work'.attempt = 1
        /\ work'.entities = work.entities \o more
        /\ work'.relationships = work.relationships \o claims
        /\ work'.heard = work.heard \cup Range(proposed)
        /\ work' = [paper |-> work'.paper, todo |-> work'.todo, attempt |-> work'.attempt,
                    entities |-> work'.entities, relationships |-> work'.relationships,
                    heard |-> work'.heard]
    <2>1. work' = [work EXCEPT !.todo = Tail(@), !.attempt = 1, !.entities = @ \o more,
                               !.relationships = @ \o claims, !.heard = @ \cup Range(proposed)]
      BY <1>2 DEF proposed
    <2>2. work = [paper |-> work.paper, todo |-> work.todo, attempt |-> work.attempt,
                  entities |-> work.entities, relationships |-> work.relationships,
                  heard |-> work.heard]
      BY <1>1 DEF WorkOK
    <2> HIDE DEF more, claims
    <2> QED  BY <2>1, <2>2
  <1> HIDE DEF more, claims
  <1>9. /\ work'.entities \in Seq(Range(work'.entities))
        /\ \A e \in Range(work'.entities) : ValidEntity(e)
    <2>1. /\ work.entities \in Seq(Range(work.entities)) /\ \A e \in Range(work.entities) : ValidEntity(e)
      BY <1>1 DEF WorkOK
    <2>2. /\ work.entities \o more \in Seq(Range(work.entities \o more))
          /\ Range(work.entities \o more) = Range(work.entities) \cup Range(more)
      BY <1>7, <2>1, Joined
    <2> QED  BY <1>7, <1>8, <2>1, <2>2
  <1>10. /\ work'.relationships \in Seq(Range(work'.relationships))
         /\ Range(work'.relationships) = Valid(work'.heard)
    <2>1. /\ work.relationships \in Seq(Range(work.relationships))
          /\ Range(work.relationships) = Valid(work.heard)
      BY <1>1 DEF WorkOK
    <2>2. /\ work.relationships \o claims \in Seq(Range(work.relationships \o claims))
          /\ Range(work.relationships \o claims) = Range(work.relationships) \cup Range(claims)
      BY <1>6, <2>1, Joined
    <2>3. Valid(work.heard \cup Range(proposed)) = Valid(work.heard) \cup valid
      BY DEF Valid
    <2> QED  BY <1>6, <1>8, <2>1, <2>2, <2>3
  <1>11. /\ work'.todo \in Seq(Range(work'.todo))
         /\ \A d \in Range(work'.todo) : d.type \in Semantic /\ d.id # None
    <2>1. work.todo \in Seq(Range(work.todo)) /\ \A d \in Range(work.todo) : d.type \in Semantic /\ d.id # None
      BY <1>1 DEF WorkOK
    <2>2. Tail(work.todo) \in Seq(Range(Tail(work.todo))) /\ Range(Tail(work.todo)) \subseteq Range(work.todo)
      BY <1>1, <2>1, TailList
    <2> QED  BY <1>8, <2>1, <2>2
  <1>12. \A r \in work'.heard : r.chunk # None
    BY <1>1, <1>5, <1>8 DEF WorkOK
  <1>13. UNCHANGED <<pdf, discovered, sections, chunks, artifact, indexed, node, edge>>
    BY DEF Answer
  <1>14. /\ work'.paper # None
         /\ work'.paper \in Paper /\ chunks'[work'.paper] # None
    <2>1. work.paper # None
      BY <1>1 DEF WorkOK, Idle
    <2> QED  BY <1>1, <1>8, <1>13, <2>1 DEF WorkOK
  <1>15. work'.attempt \in 0..(MaxRetries + 1)
    BY <1>8, RetriesAssumption
  <1>16. WorkOK'
    BY <1>8, <1>9, <1>10, <1>11, <1>12, <1>14, <1>15 DEF WorkOK
  <1> QED  BY <1>13, <1>16, WorkAlone

LEMMA RetryKeeps ==
    ASSUME IInv, Retry
    PROVE  IInv'
  <1>1. WorkOK /\ work.todo # <<>> /\ work.attempt <= MaxRetries
        /\ work' = [work EXCEPT !.attempt = @ + 1]
        /\ UNCHANGED <<pdf, discovered, sections, chunks, artifact, indexed, node, edge>>
    BY DEF IInv, Retry
  <1>2. work = [paper |-> work.paper, todo |-> work.todo, attempt |-> work.attempt,
                entities |-> work.entities, relationships |-> work.relationships,
                heard |-> work.heard]
    BY <1>1 DEF WorkOK
  <1>3. /\ work'.paper = work.paper /\ work'.todo = work.todo /\ work'.attempt = work.attempt + 1
        /\ work'.entities = work.entities /\ work'.relationships = work.relationships
        /\ work'.heard = work.heard
        /\ work' = [paper |-> work'.paper, todo |-> work'.todo, attempt |-> work'.attempt,
                    entities |-> work'.entities, relationships |-> work'.relationships,
                    heard |-> work'.heard]
    BY <1>1, <1>2
  <1>4. work'.attempt \in 0..(MaxRetries + 1)
    BY <1>1, <1>3, RetriesAssumption DEF WorkOK
  <1>5. work.paper # None
    BY <1>1 DEF WorkOK, Idle
  <1>6. WorkOK'
    BY <1>1, <1>3, <1>4, <1>5 DEF WorkOK
  <1> QED  BY <1>1, <1>6, WorkAlone

LEMMA FailKeeps ==
    ASSUME IInv, Fail
    PROVE  IInv'
  BY IdleWork, WorkAlone DEF Fail

LEMMA FinishKeeps ==
    ASSUME IInv, Finish
    PROVE  IInv'
  <1> DEFINE p == work.paper
             self == [id |-> PaperId(p), name |-> p, placeholder |-> FALSE]
             facts == [i \in DOMAIN AuthorsOf(p) |-> Fact(PaperId(p), "authored_by", AuthorsOf(p)[i].id, None)]
             a == [entities |-> <<self>> \o AuthorsOf(p) \o EntitiesOf(work.entities)
                                         \o ImplicitEntities(EntitiesOf(work.entities), work.relationships),
                   relationships |-> facts \o Citations(p) \o RelationshipsOf(p, work.relationships),
                   heard |-> work.heard]
  <1>1. /\ p # None /\ artifact' = [artifact EXCEPT ![p] = a] /\ work' = Idle
        /\ UNCHANGED <<pdf, discovered, sections, chunks, indexed, node, edge>>
    BY DEF Finish
  <1>2. p \in Paper /\ chunks[p] # None /\ AreChunks(p, chunks[p])
    BY <1>1 DEF IInv, WorkOK, TextOK
  <1>3. /\ work.entities \in Seq(Range(work.entities)) /\ \A e \in Range(work.entities) : ValidEntity(e)
        /\ work.relationships \in Seq(Range(work.relationships))
        /\ Range(work.relationships) = Valid(work.heard) /\ \A c \in work.heard : c.chunk # None
    BY DEF IInv, WorkOK
  <1>4. self.id = PaperId(p)
    OBVIOUS
  <1>5. /\ a.entities = <<self>> \o AuthorsOf(p) \o EntitiesOf(work.entities)
                                 \o ImplicitEntities(EntitiesOf(work.entities), work.relationships)
        /\ a.relationships = facts \o Citations(p) \o RelationshipsOf(p, work.relationships)
        /\ a.heard = work.heard
    OBVIOUS
  <1> HIDE DEF a, p, self
  <1>6. \A c \in Range(work.relationships) : ValidRelationship(c)
    BY <1>3 DEF Valid
  <1>7. /\ EntitiesOK(p, a)
        /\ Listed(p, work.relationships, a)
    <2> DEFINE said == work.entities  rels == work.relationships
    <2>1. Kept(said, rels)
      BY <1>3, <1>6 DEF Kept
    <2>2. a.entities = <<self>> \o AuthorsOf(p) \o EntitiesOf(said) \o ImplicitEntities(EntitiesOf(said), rels)
      BY <1>5
    <2> HIDE DEF said, rels, facts
    <2>3. /\ EntitiesOK(p, a)
          /\ Listed(p, rels, a)
      BY ONLY <1>2, <1>4, <2>1, <2>2, FinishedEntities
    <2> QED  BY <2>3 DEF rels
  <1>8. RelationshipsOK(p, a)
    <2>1. facts = [i \in DOMAIN AuthorsOf(p) |-> Fact(PaperId(p), "authored_by", AuthorsOf(p)[i].id, None)]
      OBVIOUS
    <2>2. Range(work.relationships) = Valid(a.heard)
      BY <1>3, <1>5
    <2> HIDE DEF facts
    <2> QED  BY <1>2, <1>3, <1>5, <1>7, <2>1, <2>2, FinishedRelationships
  <1>9. ArtifactOK(p, a)
    BY <1>3, <1>5, <1>7, <1>8 DEF ArtifactOK
  <1>10. ArtifactsOK'
    <2>1. \A q \in Paper : artifact[q] # None => chunks[q] # None /\ ArtifactOK(q, artifact[q])
      BY DEF IInv, ArtifactsOK
    <2>2. PICK later : later = artifact'
      OBVIOUS
    <2>3. DOMAIN later = Paper /\ \A q \in Paper : later[q] = IF q = p THEN a ELSE artifact[q]
      BY <1>1, <2>2 DEF IInv, ArtifactsOK
    <2>4. \A q \in Paper : later[q] # None => chunks[q] # None /\ ArtifactOK(q, later[q])
      BY <1>2, <1>9, <2>1, <2>3
    <2>5. \A q \in Paper : ArtifactOK(q, later[q])' <=> ArtifactOK(q, later[q])
      BY <1>1, SameChunks
    <2>6. \A q \in Paper : artifact'[q] # None => chunks'[q] # None /\ ArtifactOK(q, artifact[q])'
      BY <1>1, <2>2, <2>4, <2>5
    <2>7. /\ DOMAIN indexed = Paper
          /\ \A q \in Paper : indexed[q] # None =>
               /\ chunks[q] # None
               /\ ClaimsHold(q, indexed[q].heard, edge) /\ CitationsHold(q, chunks[q], edge)
      BY DEF IInv, ArtifactsOK
    <2>8. DOMAIN artifact' = Paper
      BY <2>2, <2>3
    <2> QED  BY <1>1, <2>6, <2>7, <2>8 DEF ArtifactsOK
  <1>11. WorkOK'
    BY <1>1, IdleWork
  <1>12. TextOK'
    BY <1>1 DEF IInv, TextOK
  <1>13. NodesOK' /\ EdgesOK'
    BY <1>1 DEF IInv, NodesOK, EdgesOK
  <1> QED  BY <1>10, <1>11, <1>12, <1>13 DEF IInv

\* The confidence of an edge is that of a relationship, and in range.
LEMMA StoredConfidence ==
    ASSUME NEW p, NEW a, RelationshipsOK(p, a), NEW x, Stored(x, Range(a.relationships))
    PROVE  x.confidence \in 0..One
  <1> DEFINE rels == Range(a.relationships)  own == Colliding(rels, Endpoints(x))
             tops == {r.confidence : r \in own}
  <1>1. \A type, target, chunk : Fact(PaperId(p), type, target, chunk).confidence = One
    BY DEF Fact
  <1>2. One \in Nat /\ One \in 0..One
    BY OneAssumption
  <1>3. ASSUME NEW r \in rels PROVE r.confidence \in 0..One
    <2>1. Wrote(r, p) \/ r \in Citing(p) \/ Claim(r, p, Valid(a.heard))
      BY DEF RelationshipsOK
    <2>2. CASE Wrote(r, p)
      BY <1>1, <1>2, <2>2 DEF Wrote
    <2>3. CASE r \in Citing(p)
      BY <1>1, <1>2, <2>3 DEF Citing, Cites
    <2>4. CASE Claim(r, p, Valid(a.heard))
      <3> DEFINE own1 == Saying(Valid(a.heard), r.type, r.target)
                 S == {c.confidence : c \in own1}
      <3>1. own1 # {} /\ r.confidence = Max(S)
        BY <2>4 DEF Claim
      <3>2. \A c \in own1 : c.confidence \in 0..One
        BY DEF Saying, Valid, ValidRelationship, InRange
      <3> HIDE DEF own1
      <3>3. S \in SUBSET (0..One) /\ S # {}
        BY <3>1, <3>2
      <3> HIDE DEF S
      <3>4. Max(S) \in S
        BY <1>2, <3>3, Greatest
      <3> QED  BY <3>1, <3>3, <3>4
    <2> QED  BY <2>1, <2>2, <2>3, <2>4
  <1>4. own # {} /\ x.confidence = Max(tops)
    BY DEF Stored
  <1>5. own \subseteq rels
    BY DEF Colliding
  <1> HIDE DEF own, rels
  <1>6. tops \in SUBSET (0..One) /\ tops # {}
    BY <1>3, <1>4, <1>5
  <1> HIDE DEF tops
  <1>7. Max(tops) \in tops
    BY <1>2, <1>6, Greatest
  <1> QED  BY <1>4, <1>6, <1>7

\* What was stored for one paper is not touched when another is indexed.
LEMMA OthersStay ==
    ASSUME NEW p, NEW rels, NEW before, NEW after, EdgesOf(p, rels, before, after), NEW q, q # p
    PROVE  /\ \A heard : ClaimsHold(q, heard, before) => ClaimsHold(q, heard, after)
           /\ \A list : CitationsHold(q, list, before) => CitationsHold(q, list, after)
  <1>1. PaperId(q) # PaperId(p)
    BY DEF PaperId
  <1>2. \A k : k[1] = PaperId(q) => /\ k \in DOMAIN after <=> k \in DOMAIN before
                                    /\ k \in DOMAIN before => after[k] = before[k]
    BY <1>1 DEF EdgesOf
  <1>3. ASSUME NEW heard, ClaimsHold(q, heard, before) PROVE ClaimsHold(q, heard, after)
    <2> DEFINE said == {r \in heard : Asked(r)}
               Claims(k) == {r \in said : r.type = k[2] /\ Canonical(r) = k[3]}
               claimed == {<<PaperId(q), r.type, Canonical(r)>> : r \in said}
               Own(edges) == {k \in DOMAIN edges : k[1] = PaperId(q) /\ k[2] \notin {"cites", "authored_by"}}
               Told(edges, k) == /\ edges[k].supporting = {r.chunk : r \in Claims(k)}
                                 /\ edges[k].chunk \in edges[k].supporting
                                 /\ edges[k].confidence = Max({r.confidence : r \in Claims(k)})
    <2>1. claimed = Own(before) /\ \A k \in claimed : Told(before, k)
      BY <1>3 DEF ClaimsHold
    <2>2. Own(after) = Own(before)
      BY <1>2
    <2>3. \A k \in Own(before) : after[k] = before[k]
      BY <1>2
    <2>4. \A k : after[k] = before[k] => (Told(after, k) <=> Told(before, k))
      OBVIOUS
    <2> HIDE DEF claimed, Own, Told
    <2>5. claimed = Own(after) /\ \A k \in claimed : Told(after, k)
      BY <2>1, <2>2, <2>3, <2>4
    <2> QED  BY <2>5 DEF ClaimsHold, claimed, Own, Told
  <1>4. ASSUME NEW list, CitationsHold(q, list, before) PROVE CitationsHold(q, list, after)
    <2> DEFINE Holding(s) == {c \in Range(list) : /\ c.type = "references"
                                                  /\ \E w \in CitedIn(c.text) : ArxivId[w] = s}
               Cited(s) == <<PaperId(q), "cites", PaperId(s)>>
               Told(edges, s) == /\ Cited(s) \in DOMAIN edges <=> Holding(s) # {}
                                 /\ Holding(s) # {} => /\ edges[Cited(s)].supporting = {c.id : c \in Holding(s)}
                                                       /\ edges[Cited(s)].chunk \in edges[Cited(s)].supporting
    <2>1. \A s \in Range(ArxivId) : Told(before, s)
      BY <1>4 DEF CitationsHold
    <2>2. ASSUME NEW s \in Range(ArxivId) PROVE Told(after, s)
      <3>1. Cited(s)[1] = PaperId(q)
        OBVIOUS
      <3>2. Told(before, s)
        BY <2>1
      <3> DEFINE k == Cited(s)  H == Holding(s)
      <3> HIDE DEF k, H
      <3>3. /\ k \in DOMAIN before <=> H # {}
            /\ H # {} => before[k].supporting = {c.id : c \in H} /\ before[k].chunk \in before[k].supporting
        BY <3>2 DEF k, H
      <3>4. k \in DOMAIN after <=> k \in DOMAIN before
        BY <1>2, <3>1 DEF k
      <3>5. k \in DOMAIN before => after[k] = before[k]
        BY <1>2, <3>1 DEF k
      <3>6. /\ k \in DOMAIN after <=> H # {}
            /\ H # {} => after[k].supporting = {c.id : c \in H} /\ after[k].chunk \in after[k].supporting
        BY <3>3, <3>4, <3>5
      <3> QED  BY <3>6 DEF k, H
    <2> HIDE DEF Told
    <2>3. \A s \in Range(ArxivId) : Told(after, s)
      BY <2>2
    <2> QED  BY <2>3 DEF CitationsHold, Told
  <1> QED  BY <1>3, <1>4

\* Indexing keeps the invariant: its own edges are new, those of other papers stay.
LEMMA IndexKeeps ==
    ASSUME IInv, NEW p \in Paper, Index(p)
    PROVE  IInv'
  <1>1. /\ artifact[p] # None
        /\ indexed' = [indexed EXCEPT ![p] = artifact[p]]
        /\ UNCHANGED <<pdf, discovered, sections, chunks, work, artifact, extractions>>
    BY DEF Index
  <1> DEFINE a == artifact[p]  rels == Range(a.relationships)  prepared == Range(Prepared(a))
  <1>2. /\ EntitiesOK(p, a) /\ RelationshipsOK(p, a) /\ \A c \in a.heard : c.chunk # None
        /\ chunks[p] # None /\ AreChunks(p, chunks[p]) /\ p \in discovered
    BY <1>1 DEF IInv, TextOK, ArtifactsOK, ArtifactOK
  <1>3. /\ EdgesOf(p, rels, edge, edge')
        /\ \E entities :
             /\ node' = Upserted(entities)
             /\ \A e \in Range(entities) : \E x \in prepared : e = ResolveEntity(x)
             /\ \A x \in prepared : \E e \in Range(entities) : e.id = Resolved(x.id)
        /\ \A r \in rels : \E x \in prepared : x.id = r.target
        /\ \E x \in prepared : x.id = PaperId(p)
    BY <1>2, IndexedEdges
  <1>4. PICK entities :
          /\ node' = Upserted(entities)
          /\ \A e \in Range(entities) : \E x \in prepared : e = ResolveEntity(x)
          /\ \A x \in prepared : \E e \in Range(entities) : e.id = Resolved(x.id)
    BY <1>3
  <1>5. \A x \in prepared :
          x \in Range(a.entities) \/ \E r \in rels : r.type = "cites" /\ x = CitationTarget(r.target)
    BY <1>2, PreparedList
  <1>6. \A r \in rels : r.source = PaperId(p) /\ r.type \in DOMAIN Compatible
    <2> SUFFICES ASSUME NEW r \in rels PROVE r.source = PaperId(p) /\ r.type \in DOMAIN Compatible
      OBVIOUS
    <2>1. Wrote(r, p) \/ r \in Citing(p) \/ Claim(r, p, Valid(a.heard))
      BY <1>2 DEF RelationshipsOK
    <2> QED  BY <2>1, RelationshipForm
  <1> HIDE DEF prepared, rels, a
  <1>7. ASSUME NEW x \in prepared
        PROVE  /\ x.id.type \in EntityType
               /\ x.id.of = "arxiv_id" => \/ x.id.name \in discovered
                                          \/ x.id.type = "paper" /\ x.placeholder
    <2>1. CASE x \in Range(a.entities)
      <3>1. x.id.type \in EntityType /\ (x.id.of = "arxiv_id" => x.id = PaperId(p))
        BY <1>2, <2>1 DEF EntitiesOK
      <3> QED  BY <1>2, <3>1 DEF PaperId
    <2>2. CASE \E r \in rels : r.type = "cites" /\ x = CitationTarget(r.target)
      <3>1. PICK r \in rels : r.type = "cites" /\ x = CitationTarget(r.target)
        BY <2>2
      <3>2. x.id = r.target
        BY <3>1 DEF CitationTarget
      <3>3. Wrote(r, p) \/ r \in Citing(p) \/ Claim(r, p, Valid(a.heard))
        BY <1>2 DEF RelationshipsOK, rels
      <3>4. CASE Wrote(r, p)
        BY <3>1, <3>4 DEF Wrote, Fact
      <3>5. CASE r \in Citing(p)
        <4>1. PICK q : r.target = PaperId(q)
          BY <3>5 DEF Citing, Cites, Fact
        <4>2. x.id.type = "paper" /\ x.id.type \in EntityType
          BY <3>2, <4>1 DEF PaperId, EntityType
        <4>3. x.id.name \in discovered \/ x.placeholder
          <5>1. CASE r.target.name \in discovered
            BY <3>2, <5>1
          <5>2. CASE r.target.name \notin discovered
            BY <3>1, <5>2 DEF CitationTarget
          <5> QED  BY <5>1, <5>2
        <4> QED  BY <4>2, <4>3
      <3>6. CASE Claim(r, p, Valid(a.heard))
        <4>1. PICK c \in Valid(a.heard) : EntityId(c.target, c.name) = r.target
          BY <3>6 DEF Claim, Saying
        <4>2. c.type \in DOMAIN Compatible /\ <<c.source, c.target>> = Compatible[c.type]
          BY <4>1 DEF Valid, ValidRelationship
        <4>3. \A type \in DOMAIN Compatible : Compatible[type][2] \in EntityType
          BY DEF Compatible, EntityType
        <4>4. <<c.source, c.target>>[2] = c.target
          OBVIOUS
        <4>5. c.target \in EntityType
          BY <4>2, <4>3, <4>4
        <4>6. r.target.type = c.target /\ r.target.of = "name"
          BY <4>1 DEF EntityId
        <4> QED  BY <3>2, <4>5, <4>6
      <3> QED  BY <3>3, <3>4, <3>5, <3>6
    <2> QED  BY <1>5, <2>1, <2>2
  <1>8. /\ DOMAIN node' = {e.id : e \in Range(entities)} \cup DOMAIN node
        /\ \A id \in DOMAIN node' :
             \/ id \in DOMAIN node /\ node'[id].title = node[id].title
             \/ \E e \in Range(entities) : e.id = id /\ node'[id].title = NodeInput(e).title
    <2>1. PICK after : after = node'
      OBVIOUS
    <2>2. after = Upserted(entities)
      BY <1>4, <2>1
    <2>3. /\ DOMAIN after = {e.id : e \in Range(entities)} \cup DOMAIN node
          /\ \A id \in DOMAIN after : Titled(id, entities, after)
      BY ONLY <2>2, UpsertedNodes
    <2> QED  BY <2>1, <2>3 DEF Titled
  <1>9. ASSUME NEW e \in Range(entities)
        PROVE  /\ e.id.type \in EntityType
               /\ e.id.of = "arxiv_id" /\ NodeInput(e).title # None => e.id.name \in discovered
    <2>1. PICK x \in prepared : e = ResolveEntity(x)
      BY <1>4
    <2>2. CASE x.id.type # "paper" /\ <<x.id.type, x.id.name>> \in DOMAIN Aliases
      <3>1. e = Entity(x.id.type, Aliases[<<x.id.type, x.id.name>>])
        BY <2>1, <2>2 DEF ResolveEntity
      <3>2. e.id.type = x.id.type /\ e.id.of = "name"
        BY <3>1 DEF Entity, EntityId
      <3> QED  BY <1>7, <3>2
    <2>3. CASE ~(x.id.type # "paper" /\ <<x.id.type, x.id.name>> \in DOMAIN Aliases)
      <3>1. e = x
        BY <2>1, <2>3 DEF ResolveEntity
      <3>2. e.id.type = "paper" /\ e.placeholder => NodeInput(e).title = None
        BY DEF NodeInput
      <3> QED  BY <1>7, <3>1, <3>2
    <2> QED  BY <2>2, <2>3
  <1>10. NodesOK'
    <2> SUFFICES ASSUME NEW id \in DOMAIN node'
                 PROVE  /\ id.type \in EntityType
                        /\ id.of = "arxiv_id" /\ node'[id].title # None => id.name \in discovered
      BY <1>1 DEF NodesOK
    <2>1. CASE id \in DOMAIN node
      <3>1. /\ id.type \in EntityType
            /\ id.of = "arxiv_id" /\ node[id].title # None => id.name \in discovered
        BY <2>1 DEF IInv, NodesOK
      <3> QED  BY <1>8, <1>9, <3>1
    <2>2. CASE id \notin DOMAIN node
      <3>1. PICK e \in Range(entities) : e.id = id /\ node'[id].title = NodeInput(e).title
        BY <1>8, <2>2
      <3> QED  BY <1>9, <3>1
    <2> QED  BY <2>1, <2>2
  <1>11. \A x \in prepared : Resolved(x.id) \in DOMAIN node'
    BY <1>4, <1>8
  <1>12. EdgesOK'
    <2> SUFFICES ASSUME NEW k \in DOMAIN edge'
                 PROVE  /\ {k[1], k[3]} \subseteq DOMAIN node'
                        /\ k[2] \in DOMAIN Compatible /\ edge'[k].confidence \in 0..One
      BY DEF EdgesOK
    <2>1. CASE k[1] = PaperId(p)
      <3>1. PICK r \in rels : k = <<PaperId(p), r.type, Resolved(r.target)>>
        BY <1>3, <2>1 DEF EdgesOf
      <3>2. k[2] = r.type /\ k[3] = Resolved(r.target)
        BY <3>1
      <3>3. k[3] \in DOMAIN node'
        BY <1>3, <1>11, <3>2
      <3>4. k[1] \in DOMAIN node'
        <4>1. Resolved(PaperId(p)) = PaperId(p)
          BY DEF Resolved, PaperId
        <4> QED  BY <1>3, <1>11, <2>1, <4>1
      <3>5. PICK x : Stored(x, rels) /\ edge'[k].confidence = x.confidence
        BY <1>3, <2>1 DEF EdgesOf
      <3>6. x.confidence \in 0..One
        BY <1>2, <3>5, StoredConfidence DEF rels
      <3> QED  BY <1>6, <3>2, <3>3, <3>4, <3>5, <3>6
    <2>2. CASE k[1] # PaperId(p)
      <3>1. k \in DOMAIN edge /\ edge'[k] = edge[k]
        BY <1>3, <2>2 DEF EdgesOf
      <3>2. /\ {k[1], k[3]} \subseteq DOMAIN node
            /\ k[2] \in DOMAIN Compatible /\ edge[k].confidence \in 0..One
        BY <3>1 DEF IInv, EdgesOK
      <3> QED  BY <1>8, <3>1, <3>2
    <2> QED  BY <2>1, <2>2
  <1>13. ArtifactsOK'
    <2>1. /\ ClaimsHold(p, a.heard, edge') /\ CitationsHold(p, chunks[p], edge')
      <3>1. PICK after : after = edge'
        OBVIOUS
      <3>2. EdgesOf(p, Range(a.relationships), edge, after)
        BY <1>3, <3>1 DEF rels
      <3>3. ClaimsHold(p, a.heard, after)
        BY <1>2, <3>2, ClaimsStored
      <3>4. CitationsHold(p, chunks[p], after)
        BY <1>2, <3>2, CitationsStored
      <3> QED  BY <3>1, <3>3, <3>4
    <2>2. /\ DOMAIN indexed = Paper /\ DOMAIN artifact = Paper
          /\ \A q \in Paper : artifact[q] # None => chunks[q] # None /\ ArtifactOK(q, artifact[q])
          /\ \A q \in Paper : indexed[q] # None =>
               /\ chunks[q] # None
               /\ ClaimsHold(q, indexed[q].heard, edge) /\ CitationsHold(q, chunks[q], edge)
      BY DEF IInv, ArtifactsOK
    <2>3. DOMAIN indexed' = Paper /\ \A q \in Paper : indexed'[q] = IF q = p THEN a ELSE indexed[q]
      BY <1>1, <2>2 DEF a
    <2>4. ASSUME NEW q \in Paper, indexed'[q] # None
          PROVE  /\ chunks'[q] # None
                 /\ ClaimsHold(q, indexed'[q].heard, edge') /\ CitationsHold(q, chunks'[q], edge')
      <3>1. CASE q = p
        <4>1. indexed'[q] = a /\ chunks'[q] = chunks[p]
          BY <1>1, <2>3, <3>1
        <4> QED  BY <1>2, <2>1, <3>1, <4>1
      <3>2. CASE q # p
        <4>1. indexed'[q] = indexed[q] /\ chunks'[q] = chunks[q]
          BY <1>1, <2>3, <3>2
        <4>2. /\ chunks[q] # None
              /\ ClaimsHold(q, indexed[q].heard, edge) /\ CitationsHold(q, chunks[q], edge)
          BY <2>2, <2>4, <4>1
        <4>3. /\ ClaimsHold(q, indexed[q].heard, edge') /\ CitationsHold(q, chunks[q], edge')
          BY <1>3, <3>2, <4>2, OthersStay
        <4> QED  BY <4>1, <4>2, <4>3
      <3> QED  BY <3>1, <3>2
    <2>5. ASSUME NEW q \in Paper, artifact[q] # None
          PROVE  chunks'[q] # None /\ ArtifactOK(q, artifact[q])'
      <3>1. PICK b : b = artifact[q]
        OBVIOUS
      <3>2. ArtifactOK(q, b)'
        BY <1>1, <2>2, <2>5, <3>1, SameChunks
      <3>3. artifact'[q] = b
        BY <1>1, <3>1
      <3> QED  BY <1>1, <2>2, <2>5, <3>2, <3>3
    <2> QED  BY <1>1, <2>2, <2>3, <2>4, <2>5 DEF ArtifactsOK
  <1>14. TextOK'
    BY <1>1 DEF IInv, TextOK
  <1>15. WorkOK'
    BY <1>1 DEF IInv, WorkOK
  <1> QED  BY <1>10, <1>12, <1>13, <1>14, <1>15 DEF IInv

\* Every step keeps the invariant.
LEMMA StepKeeps == IInv /\ [Next]_vars => IInv'
  <1> SUFFICES ASSUME IInv, [Next]_vars PROVE IInv'
    OBVIOUS
  <1>1. CASE \E p \in Paper : Discover(p)
    BY <1>1, DiscoverKeeps
  <1>2. CASE \E p \in Paper : Parse(p)
    BY <1>2, ParseKeeps
  <1>3. CASE \E p \in Paper : ChunkDocument(p)
    BY <1>3, ChunkDocumentKeeps
  <1>4. CASE \E p \in Paper : Start(p)
    BY <1>4, StartKeeps
  <1>5. CASE \E p \in Paper : Index(p)
    BY <1>5, IndexKeeps
  <1>6. CASE Answer
    BY <1>6, AnswerKeeps
  <1>7. CASE Retry
    BY <1>7, RetryKeeps
  <1>8. CASE Fail
    BY <1>8, FailKeeps
  <1>9. CASE Finish
    BY <1>9, FinishKeeps
  <1>10. CASE UNCHANGED vars
    <2>1. UNCHANGED <<pdf, discovered, sections, chunks, work, artifact, indexed, node, edge>>
      BY <1>10 DEF vars
    <2>2. WorkOK'
      BY <2>1 DEF IInv, WorkOK
    <2> QED  BY <2>1, <2>2, WorkAlone
  <1> QED  BY <1>1, <1>2, <1>3, <1>4, <1>5, <1>6, <1>7, <1>8, <1>9, <1>10 DEF Next

\* The invariant holds always.
LEMMA AlwaysIInv == Spec => []IInv
  BY InitHolds, StepKeeps, PTL DEF Spec

-----------------------------------------------------------------------------
(* Theorems *)

\* Whatever the LLM answers and however often it fails: every name that is stored is of
\* the ontology, every confidence is in range, and a chunk is asked about no more than
\* MaxRetries + 1 times (generate_structured, _validate_candidates).
THEOREM TypeCorrect == Spec => []TypeOK
  <1>1. IInv => TypeOK
    <2> SUFFICES ASSUME IInv PROVE TypeOK
      OBVIOUS
    <2>1. discovered \subseteq Paper
      BY DEF IInv, TextOK
    <2>2. work.attempt \in 0..(MaxRetries + 1) /\ (work.paper = None <=> work = Idle)
      BY DEF IInv, WorkOK, Idle
    <2>3. \A id \in DOMAIN node : id.type \in EntityType
      BY DEF IInv, NodesOK
    <2>4. \A k \in DOMAIN edge : k[2] \in DOMAIN Compatible /\ edge[k].confidence \in 0..One
      BY DEF IInv, EdgesOK
    <2> QED  BY <2>1, <2>2, <2>3, <2>4 DEF TypeOK
  <1> QED  BY <1>1, AlwaysIInv, PTL

\* The edges of an indexed paper say what the LLM said of it in the extraction that was
\* indexed, all of it and nothing else, with every chunk it was said of and the highest
\* confidence, and what its references hold; both ends of every edge exist; no paper has
\* a title before it is discovered (build_canonical_graph, upsert_entities).
THEOREM GraphGrounded == Spec => []GraphIsGrounded
  <1>1. IInv => GraphIsGrounded
    <2> SUFFICES ASSUME IInv PROVE GraphIsGrounded
      OBVIOUS
    <2>1. ASSUME NEW p \in Paper, indexed[p] # None PROVE ClaimsAreEdges(p) /\ CitationsAreEdges(p)
      <3>1. ClaimsHold(p, indexed[p].heard, edge) /\ CitationsHold(p, chunks[p], edge)
        BY <2>1 DEF IInv, ArtifactsOK
      <3>2. ClaimsAreEdges(p)
        BY <3>1 DEF ClaimsHold, ClaimsAreEdges
      <3>3. CitationsAreEdges(p)
        BY <3>1 DEF CitationsHold, CitationsAreEdges
      <3> QED  BY <3>2, <3>3
    <2>2. \A k \in DOMAIN edge : {k[1], k[3]} \subseteq DOMAIN node
      BY DEF IInv, EdgesOK
    <2>3. \A id \in DOMAIN node : id.of = "arxiv_id" /\ node[id].title # None => id.name \in discovered
      BY DEF IInv, NodesOK
    <2> QED  BY <2>1, <2>2, <2>3 DEF GraphIsGrounded
  <1> QED  BY <1>1, AlwaysIInv, PTL

-----------------------------------------------------------------------------
(* Flattening: the parts of what is joined. *)

\* The first lists, joined.
Upto(lists, i) == FlattenSeq(SubSeq(lists, 1, i))

\* What is joined one list at a time is the flattened list.
LEMMA FlattenUnique ==
    ASSUME NEW T, NEW lists \in Seq(Seq(T)), NEW f, f[0] = <<>>,
           \A i \in 1..Len(lists) : f[i] = f[i - 1] \o lists[i]
    PROVE  FlattenSeq(lists) = f[Len(lists)]
  <1> DEFINE V == Seq(T)  n == Len(lists)
             Step(g) == [i \in 1..n |-> IF i = 1 THEN lists[i] ELSE g[i - 1] \o lists[i]]
             flatten == CHOOSE g : g = Step(g)
             P == {m \in 0..n : m # 0 => flatten[m] = f[m]}
  <1>1. n \in Nat /\ \A i \in 1..n : lists[i] \in V
    <2>1. lists \in Seq(V)
      OBVIOUS
    <2> HIDE DEF V
    <2> QED  BY <2>1
  <1>2. FlattenSeq(lists) = IF n = 0 THEN lists ELSE flatten[n]
    BY DEF FlattenSeq
  <1>3. 1 \in 1..n => f[1] = lists[1]
    <2> SUFFICES ASSUME 1 \in 1..n PROVE f[1] = lists[1]
      OBVIOUS
    <2>1. f[1] = f[0] \o lists[1]
      <3>1. 1 - 1 = 0
        OBVIOUS
      <3> QED  BY <3>1
    <2>2. lists[1] \in Seq(T)
      BY <1>1
    <2> QED  BY <2>1, <2>2, ConcatEmptySeq
  <1>4. \E g : g = Step(g)
    <2> DEFINE g == [i \in 1..n |-> f[i]]
    <2>1. ASSUME NEW i \in 1..n PROVE g[i] = IF i = 1 THEN lists[i] ELSE g[i - 1] \o lists[i]
      <3>1. CASE i = 1
        BY <1>3, <3>1
      <3>2. CASE i # 1
        <4>1. i - 1 \in 1..n /\ f[i] = f[i - 1] \o lists[i]
          <5>1. i - 1 \in 1..n
            BY <1>1, <3>2
          <5> QED  BY <5>1
        <4>2. g[i - 1] = f[i - 1] /\ g[i] = f[i]
          BY <4>1
        <4> HIDE DEF g, n
        <4> QED  BY <3>2, <4>1, <4>2
      <3> QED  BY <3>1, <3>2
    <2>2. g = [i \in 1..n |-> g[i]]
      OBVIOUS
    <2> HIDE DEF g, n
    <2>3. g = Step(g)
      BY <2>1, <2>2
    <2> HIDE DEF Step
    <2> QED  BY <2>3
  <1>5. flatten = Step(flatten)
    <2> HIDE DEF Step
    <2> QED  BY <1>4
  <1> HIDE DEF flatten
  <1>6. \A i \in 1..n : flatten[i] = IF i = 1 THEN lists[i] ELSE flatten[i - 1] \o lists[i]
    <2>1. \A i \in 1..n : Step(flatten)[i] = IF i = 1 THEN lists[i] ELSE flatten[i - 1] \o lists[i]
      OBVIOUS
    <2> HIDE DEF Step, n
    <2> QED  BY <1>5, <2>1
  <1> HIDE DEF n
  <1>7. ASSUME NEW m \in 1..n, m - 1 \in P PROVE m \in P
    <2>1. CASE m = 1
      <3>1. 1 \in 1..n /\ m \in 0..n
        BY <1>1, <2>1
      <3>2. flatten[m] = lists[1]
        BY <1>6, <2>1
      <3> QED  BY <1>3, <2>1, <3>1, <3>2 DEF n
    <2>2. CASE m # 1
      <3>1. m \in 0..n /\ m - 1 # 0 /\ flatten[m - 1] = f[m - 1]
        BY <1>1, <1>7, <2>2
      <3>2. flatten[m] = flatten[m - 1] \o lists[m] /\ f[m] = f[m - 1] \o lists[m]
        BY <1>6, <2>2 DEF n
      <3> QED  BY <3>1, <3>2
    <2> QED  BY <2>1, <2>2
  <1>8. P = 0..n
    <2>1. P \in SUBSET (0..n) /\ 0 \in P
      BY <1>1
    <2> HIDE DEF P
    <2> QED  BY <1>1, <1>7, <2>1, Induction
  <1>9. CASE n = 0
    <2>1. lists = <<>>
      BY <1>9 DEF n
    <2> QED  BY <1>2, <1>9, <2>1 DEF n
  <1>10. CASE n # 0
    <2>1. n \in P
      <3> HIDE DEF P
      <3> QED  BY <1>1, <1>8
    <2> QED  BY <1>2, <1>10, <2>1 DEF n
  <1> QED  BY <1>9, <1>10

\* Lists are joined one after the other.
LEMMA Joining ==
    ASSUME NEW T, NEW lists \in Seq(Seq(T))
    PROVE  \E f : /\ f \in [0..Len(lists) -> Seq(T)]
                  /\ f[0] = <<>> /\ \A i \in 1..Len(lists) : f[i] = f[i - 1] \o lists[i]
  <1> DEFINE V == Seq(T)  n == Len(lists)
             step == [z \in V \X (1..n) |-> z[1] \o lists[z[2]]]
             empty == <<>>
  <1>0. n \in Nat /\ \A i \in 1..n : lists[i] \in V
    <2>1. lists \in Seq(V)
      OBVIOUS
    <2> HIDE DEF V
    <2> QED  BY <2>1
  <1> HIDE DEF n
  <1>1. step \in [V \X (1..n) -> V]
    <2>1. \A v \in V, i \in 1..n : v \o lists[i] \in V
      BY <1>0, ConcatProperties
    <2>2. \A z \in V \X (1..n) : z[1] \in V /\ z[2] \in 1..n
      OBVIOUS
    <2> HIDE DEF V
    <2> QED  BY <2>1, <2>2
  <1>2. empty \in V
    OBVIOUS
  <1> HIDE DEF V, empty
  <1>3. PICK f : Solves(f, n, V, empty, step)
    <2> HIDE DEF step
    <2> QED  BY <1>0, <1>1, <1>2, Recursion
  <1>4. f \in [0..n -> V] /\ f[0] = empty
    BY <1>3 DEF Solves
  <1>5. ASSUME NEW i \in 1..n PROVE f[i] = f[i - 1] \o lists[i]
    <2>1. i - 1 \in 0..n
      BY <1>0
    <2>2. f[i] = step[<<f[i - 1], i>>]
      <3> HIDE DEF step
      <3> QED  BY <1>3 DEF Solves
    <2>3. f[i - 1] \in V
      BY <1>4, <2>1
    <2>4. <<f[i - 1], i>> \in V \X (1..n) /\ <<f[i - 1], i>>[1] = f[i - 1] /\ <<f[i - 1], i>>[2] = i
      BY <2>3
    <2> QED  BY <2>2, <2>4
  <1> QED  BY <1>4, <1>5 DEF V, n, empty

\* What is joined of the first lists.
LEMMA FirstLists ==
    ASSUME NEW T, NEW lists \in Seq(Seq(T))
    PROVE  /\ \A i \in 0..Len(lists) : Upto(lists, i) \in Seq(T)
           /\ Upto(lists, 0) = <<>>
           /\ \A i \in 1..Len(lists) : Upto(lists, i) = Upto(lists, i - 1) \o lists[i]
           /\ Upto(lists, Len(lists)) = FlattenSeq(lists)
  <1> DEFINE V == Seq(T)  n == Len(lists)
  <1>0. n \in Nat /\ \A i \in 1..n : lists[i] \in V
    <2>1. lists \in Seq(V)
      OBVIOUS
    <2> HIDE DEF V
    <2> QED  BY <2>1
  <1>1. PICK f : /\ f \in [0..n -> V]
                 /\ f[0] = <<>> /\ \A i \in 1..n : f[i] = f[i - 1] \o lists[i]
    BY Joining
  <1>2. ASSUME NEW m \in 0..n PROVE Upto(lists, m) = f[m]
    <2> DEFINE first == SubSeq(lists, 1, m)
    <2>1. lists \in Seq(V)
      OBVIOUS
    <2>2. first \in Seq(V) /\ Len(first) = m /\ \A i \in 1..m : first[i] = lists[i]
      <3> HIDE DEF V
      <3>1. m \in Int /\ m <= n /\ 1 \in Int /\ n = Len(lists) /\ 1 >= 1
        BY <1>0
      <3>2. first \in Seq(V)
        BY <2>1, <3>1, PartOf
      <3> QED  BY <1>0, <2>1, <3>1, <3>2, SubSeqProperties
    <2> HIDE DEF first
    <2>3. \A i \in 1..Len(first) : f[i] = f[i - 1] \o first[i]
      <3>1. \A i \in 1..m : i \in 1..n
        BY <1>0
      <3> QED  BY <1>1, <2>2, <3>1
    <2>4. first \in Seq(Seq(T))
      BY <2>2
    <2>5. FlattenSeq(first) = f[Len(first)]
      <3> HIDE DEF V, n
      <3> QED  BY <1>1, <2>3, <2>4, FlattenUnique
    <2> QED  BY <2>2, <2>5 DEF Upto, first
  <1>3. FlattenSeq(lists) = f[n]
    BY <1>1, FlattenUnique
  <1> HIDE DEF n, V
  <1>4. \A i \in 1..n : i \in 0..n /\ i - 1 \in 0..n
    BY <1>0
  <1>5. 0 \in 0..n /\ n \in 0..n
    BY <1>0
  <1>6. \A i \in 0..n : Upto(lists, i) \in V
    BY <1>1, <1>2
  <1>7. Upto(lists, 0) = <<>> /\ Upto(lists, n) = FlattenSeq(lists)
    BY <1>1, <1>2, <1>3, <1>5
  <1>8. \A i \in 1..n : Upto(lists, i) = Upto(lists, i - 1) \o lists[i]
    BY <1>1, <1>2, <1>4
  <1>9. \A i \in 0..Len(lists) : Upto(lists, i) \in Seq(T)
    BY <1>6 DEF n, V
  <1> QED  BY <1>7, <1>8, <1>9 DEF n

\* Where a list ends in the flattened list.
End(lists, i) == Len(Upto(lists, i))

\* A list that begins with another.
Begins(s, t) == Len(s) <= Len(t) /\ \A x \in 1..Len(s) : t[x] = s[x]

\* Where the lists end in the flattened list.
LEMMA Ends ==
    ASSUME NEW T, NEW lists \in Seq(Seq(T))
    PROVE  /\ \A i \in 0..Len(lists) : End(lists, i) \in Nat
           /\ End(lists, 0) = 0 /\ End(lists, Len(lists)) = Len(FlattenSeq(lists))
           /\ \A i \in 1..Len(lists) : End(lists, i) = End(lists, i - 1) + Len(lists[i])
           /\ \A i, j \in 0..Len(lists) : i <= j => Begins(Upto(lists, i), Upto(lists, j))
           /\ \A i, j \in 0..Len(lists) : i <= j => End(lists, i) <= End(lists, j)
  <1> DEFINE V == Seq(T)  n == Len(lists)
  <1>1. n \in Nat /\ \A i \in 1..n : lists[i] \in V
    <2>1. lists \in Seq(V)
      OBVIOUS
    <2> HIDE DEF V
    <2> QED  BY <2>1
  <1>2. /\ \A i \in 0..n : Upto(lists, i) \in V
        /\ Upto(lists, 0) = <<>> /\ Upto(lists, n) = FlattenSeq(lists)
        /\ \A i \in 1..n : Upto(lists, i) = Upto(lists, i - 1) \o lists[i]
    BY FirstLists
  <1> HIDE DEF n
  <1>3. \A i \in 0..n : End(lists, i) \in Nat
    BY <1>2 DEF End
  <1>4. End(lists, 0) = 0 /\ End(lists, n) = Len(FlattenSeq(lists))
    BY <1>2 DEF End
  <1>5. ASSUME NEW i \in 1..n
        PROVE  /\ End(lists, i) = End(lists, i - 1) + Len(lists[i])
               /\ Len(lists[i]) \in Nat
               /\ Begins(Upto(lists, i - 1), Upto(lists, i))
    <2>1. i - 1 \in 0..n /\ i \in 0..n
      BY <1>1
    <2> DEFINE s == Upto(lists, i - 1)  t == lists[i]
    <2>2. s \in V /\ t \in V /\ Upto(lists, i) = s \o t
      BY <1>1, <1>2, <2>1
    <2> HIDE DEF s, t
    <2>3. /\ Len(s \o t) = Len(s) + Len(t) /\ Len(s) \in Nat /\ Len(t) \in Nat
          /\ \A x \in 1..Len(s) + Len(t) : (s \o t)[x] = IF x <= Len(s) THEN s[x] ELSE t[x - Len(s)]
      BY <2>2, ConcatProperties
    <2>4. Begins(s, s \o t)
      BY <2>3 DEF Begins
    <2> QED  BY <2>2, <2>3, <2>4 DEF End, s, t
  <1>6. ASSUME NEW j \in 0..n PROVE \A i \in 0..j : Begins(Upto(lists, i), Upto(lists, j))
    <2> DEFINE P == {m \in 0..n : \A i \in 0..m : Begins(Upto(lists, i), Upto(lists, m))}
    <2>1. 0 \in P
      <3>1. \A i \in 0..0 : i = 0
        OBVIOUS
      <3>2. Begins(Upto(lists, 0), Upto(lists, 0))
        BY <1>3, <1>1 DEF Begins, End
      <3> QED  BY <1>1, <3>1, <3>2
    <2>2. ASSUME NEW m \in 1..n, m - 1 \in P PROVE m \in P
      <3>1. m \in 0..n /\ m - 1 \in 0..n
        BY <1>1
      <3>2. ASSUME NEW i \in 0..m PROVE Begins(Upto(lists, i), Upto(lists, m))
        <4>1. CASE i = m
          <5>1. Len(Upto(lists, m)) \in Nat
            BY <1>3, <3>1 DEF End
          <5> QED  BY <4>1, <5>1 DEF Begins
        <4>2. CASE i # m
          <5>1. i \in 0..(m - 1) /\ i \in 0..n
            BY <1>1, <3>1, <4>2
          <5>2. Begins(Upto(lists, i), Upto(lists, m - 1))
            BY <2>2, <5>1
          <5>3. Begins(Upto(lists, m - 1), Upto(lists, m))
            BY <1>5
          <5>4. Len(Upto(lists, i)) \in Nat /\ Len(Upto(lists, m - 1)) \in Nat /\ Len(Upto(lists, m)) \in Nat
            BY <1>3, <3>1, <5>1 DEF End
          <5> QED  BY <5>2, <5>3, <5>4 DEF Begins
        <4> QED  BY <4>1, <4>2
      <3> QED  BY <3>1, <3>2
    <2>3. P = 0..n
      <3>1. P \in SUBSET (0..n)
        OBVIOUS
      <3> HIDE DEF P
      <3> QED  BY <1>1, <2>1, <2>2, <3>1, Induction
    <2> QED  BY <2>3
  <1>7. \A i, j \in 0..n : i <= j => Begins(Upto(lists, i), Upto(lists, j))
    <2>1. \A i, j \in 0..n : i <= j => i \in 0..j
      BY <1>1
    <2> QED  BY <1>6, <2>1
  <1>8. \A i, j \in 0..n : i <= j => End(lists, i) <= End(lists, j)
    BY <1>7 DEF End, Begins
  <1>9. \A i \in 1..n : End(lists, i) = End(lists, i - 1) + Len(lists[i])
    BY <1>5
  <1> QED  BY <1>3, <1>4, <1>7, <1>8, <1>9 DEF n

\* Where the elements of the lists are in the flattened list.
LEMMA Places ==
    ASSUME NEW T, NEW lists \in Seq(Seq(T))
    PROVE  /\ \A i \in 1..Len(lists) : \A k \in 1..Len(lists[i]) :
                /\ End(lists, i - 1) + k \in 1..Len(FlattenSeq(lists))
                /\ FlattenSeq(lists)[End(lists, i - 1) + k] = lists[i][k]
           /\ \A x \in 1..Len(FlattenSeq(lists)) :
                \E i \in 1..Len(lists) : \E k \in 1..Len(lists[i]) : x = End(lists, i - 1) + k
  <1> DEFINE V == Seq(T)  n == Len(lists)  all == FlattenSeq(lists)
  <1>1. n \in Nat /\ \A i \in 1..n : lists[i] \in V
    <2>1. lists \in Seq(V)
      OBVIOUS
    <2> HIDE DEF V
    <2> QED  BY <2>1
  <1>2. /\ \A i \in 0..n : End(lists, i) \in Nat
        /\ End(lists, 0) = 0 /\ End(lists, n) = Len(all)
        /\ \A i \in 1..n : End(lists, i) = End(lists, i - 1) + Len(lists[i])
        /\ \A i \in 0..n : i <= n => Begins(Upto(lists, i), Upto(lists, n))
        /\ \A i \in 0..n : i <= n => End(lists, i) <= End(lists, n)
    BY <1>1, Ends
  <1>3. /\ \A i \in 0..n : Upto(lists, i) \in V
        /\ Upto(lists, n) = all
        /\ \A i \in 1..n : Upto(lists, i) = Upto(lists, i - 1) \o lists[i]
    BY FirstLists
  <1> HIDE DEF n, all
  <1>4. ASSUME NEW i \in 1..n, NEW k \in 1..Len(lists[i])
        PROVE  End(lists, i - 1) + k \in 1..Len(all) /\ all[End(lists, i - 1) + k] = lists[i][k]
    <2>1. i - 1 \in 0..n /\ i \in 0..n /\ i <= n
      BY <1>1
    <2> DEFINE s == Upto(lists, i - 1)  t == lists[i]
    <2>2. s \in V /\ t \in V /\ Upto(lists, i) = s \o t /\ k \in 1..Len(t)
      BY <1>1, <1>3, <2>1
    <2>3. Len(s) = End(lists, i - 1)
      BY DEF End
    <2> HIDE DEF s, t
    <2>4. /\ Len(s \o t) = Len(s) + Len(t) /\ Len(s) \in Nat /\ Len(t) \in Nat
          /\ \A x \in 1..Len(s) + Len(t) : (s \o t)[x] = IF x <= Len(s) THEN s[x] ELSE t[x - Len(s)]
      BY <2>2, ConcatProperties
    <2>5. (s \o t)[Len(s) + k] = t[k] /\ Len(s) + k \in 1..Len(s \o t)
      <3>1. Len(s) + k \in 1..Len(s) + Len(t) /\ ~(Len(s) + k <= Len(s)) /\ Len(s) + k - Len(s) = k
        BY <2>2, <2>4
      <3> QED  BY <2>4, <3>1
    <2>6. Begins(s \o t, all)
      BY <1>2, <1>3, <2>1, <2>2
    <2>7. all[Len(s) + k] = t[k] /\ Len(s \o t) <= Len(all)
      BY <2>5, <2>6 DEF Begins
    <2>8. Len(all) \in Nat
      <3>1. n \in 0..n
        BY <1>1
      <3> QED  BY <1>2, <3>1
    <2>9. Len(s) + k \in 1..Len(all)
      BY <2>2, <2>4, <2>5, <2>7, <2>8
    <2> QED  BY <2>3, <2>7, <2>9 DEF t
  <1>5. ASSUME NEW x \in 1..Len(all)
        PROVE  \E i \in 1..n : \E k \in 1..Len(lists[i]) : x = End(lists, i - 1) + k
    <2> DEFINE At1(m) == \E i \in 1..m : \E k \in 1..Len(lists[i]) : x = End(lists, i - 1) + k
               P == {m \in 0..n : x <= End(lists, m) => At1(m)}
    <2>1. 0 \in P
      BY <1>1, <1>2
    <2>2. ASSUME NEW m \in 1..n, m - 1 \in P PROVE m \in P
      <3>1. m \in 0..n /\ m - 1 \in 0..n /\ m \in 1..m /\ \A i \in 1..(m - 1) : i \in 1..m
        BY <1>1
      <3>2. End(lists, m) = End(lists, m - 1) + Len(lists[m]) /\ End(lists, m - 1) \in Nat
        BY <1>2, <3>1
      <3>3. Len(lists[m]) \in Nat
        BY <1>1
      <3>4. CASE x <= End(lists, m - 1)
        <4>1. At1(m - 1)
          BY <2>2, <3>4
        <4>2. At1(m)
          BY <3>1, <4>1
        <4> HIDE DEF At1
        <4> QED  BY <3>1, <4>2
      <3>5. CASE ~(x <= End(lists, m - 1)) /\ x <= End(lists, m)
        <4>1. x - End(lists, m - 1) \in 1..Len(lists[m])
              /\ x = End(lists, m - 1) + (x - End(lists, m - 1))
          BY <3>2, <3>3, <3>5
        <4>2. At1(m)
          BY <3>1, <4>1
        <4> HIDE DEF At1
        <4> QED  BY <3>1, <4>2
      <3>6. CASE ~(x <= End(lists, m))
        BY <3>1, <3>6
      <3> QED  BY <3>4, <3>5, <3>6
    <2>3. P = 0..n
      <3>1. P \in SUBSET (0..n)
        OBVIOUS
      <3> HIDE DEF P
      <3> QED  BY <1>1, <2>1, <2>2, <3>1, Induction
    <2>4. n \in P /\ x <= End(lists, n)
      <3>1. n \in 0..n
        BY <1>1
      <3>2. x <= End(lists, n)
        BY <1>2
      <3> HIDE DEF P
      <3> QED  BY <2>3, <3>1, <3>2
    <2> QED  BY <2>4
  <1> QED  BY <1>4, <1>5 DEF n, all

\* Joining is associative.
LEMMA Associative ==
    ASSUME NEW T
    PROVE  \A x, y, z \in Seq(T) : (x \o y) \o z = x \o (y \o z)
  BY ConcatAssociative

\* Two parts of a list in a row are a part of it.
LEMMA Adjacent ==
    ASSUME NEW T, NEW s \in Seq(T), NEW p \in Nat, NEW q \in Nat, NEW r \in Nat,
           p <= q, q <= r, r <= Len(s)
    PROVE  SubSeq(s, p + 1, q) \o SubSeq(s, q + 1, r) = SubSeq(s, p + 1, r)
  <1> DEFINE m == p + 1
  <1>1. m \in 1..(Len(s) + 1) /\ q \in (m - 1)..Len(s) /\ r \in q..Len(s)
    OBVIOUS
  <1> HIDE DEF m
  <1>2. SubSeq(s, m, q) \o SubSeq(s, q + 1, r) = SubSeq(s, m, r)
    BY <1>1, ConcatAdjacentSubSeq
  <1> QED  BY <1>2 DEF m

\* One list, flattened.
LEMMA FlattenOne ==
    ASSUME NEW T, NEW s \in Seq(T)
    PROVE  FlattenSeq(<<s>>) = s
  <1> DEFINE V == Seq(T)  f == [i \in 0..1 |-> IF i = 0 THEN <<>> ELSE s]
  <1>1. <<s>> \in Seq(V) /\ Len(<<s>>) = 1 /\ <<s>>[1] = s
    <2>1. s \in V
      OBVIOUS
    <2> HIDE DEF V
    <2> QED  BY <2>1
  <1>2. f[0] = <<>> /\ f[1] = s
    OBVIOUS
  <1>3. <<>> \o s = s
    BY ConcatEmptySeq
  <1>4. \A i \in 1..1 : i = 1 /\ i - 1 = 0
    OBVIOUS
  <1> HIDE DEF f
  <1> DEFINE one == <<s>>
  <1> HIDE DEF one
  <1>5. \A i \in 1..Len(one) : f[i] = f[i - 1] \o one[i]
    BY <1>1, <1>2, <1>3, <1>4 DEF one
  <1>6. one \in Seq(Seq(T))
    BY <1>1 DEF one
  <1>7. FlattenSeq(one) = f[Len(one)]
    BY <1>2, <1>5, <1>6, FlattenUnique
  <1> QED  BY <1>1, <1>2, <1>7 DEF one

\* What is joined of two parts.
LEMMA FlattenBoth ==
    ASSUME NEW T, NEW a \in Seq(Seq(T)), NEW b \in Seq(Seq(T))
    PROVE  FlattenSeq(a \o b) = FlattenSeq(a) \o FlattenSeq(b)
  <1> DEFINE V == Seq(T)  n == Len(a)  m == Len(b)  all == a \o b
             f == [i \in 0..(n + m) |-> IF i <= n THEN Upto(a, i) ELSE FlattenSeq(a) \o Upto(b, i - n)]
  <1>0. \A u, v, w \in V : (u \o v) \o w = u \o (v \o w)
    BY Associative
  <1>1. a \in Seq(V) /\ b \in Seq(V)
    OBVIOUS
  <1>2. /\ n \in Nat /\ m \in Nat /\ all \in Seq(V) /\ Len(all) = n + m
        /\ \A i \in 1..(n + m) : all[i] = IF i <= n THEN a[i] ELSE b[i - n]
        /\ \A i \in 1..m : b[i] \in V
    <2> HIDE DEF V
    <2>1. /\ a \o b \in Seq(V) /\ Len(a \o b) = Len(a) + Len(b)
          /\ \A i \in 1..Len(a) + Len(b) : (a \o b)[i] = IF i <= Len(a) THEN a[i] ELSE b[i - Len(a)]
      BY <1>1, ConcatProperties
    <2> QED  BY <1>1, <2>1
  <1>3. /\ Upto(a, 0) = <<>> /\ Upto(a, n) = FlattenSeq(a)
        /\ \A i \in 1..n : Upto(a, i) = Upto(a, i - 1) \o a[i]
        /\ \A i \in 0..n : Upto(a, i) \in V
    BY FirstLists
  <1>4. /\ Upto(b, 0) = <<>> /\ Upto(b, m) = FlattenSeq(b)
        /\ \A i \in 1..m : Upto(b, i) = Upto(b, i - 1) \o b[i]
        /\ \A i \in 0..m : Upto(b, i) \in V
    BY FirstLists
  <1> HIDE DEF n, m, all, V
  <1>5. FlattenSeq(a) \in V
    <2>1. n \in 0..n
      BY <1>2
    <2> QED  BY <1>3, <2>1
  <1>6. FlattenSeq(a) \o Upto(b, 0) = FlattenSeq(a)
    BY <1>4, <1>5, ConcatEmptySeq DEF V
  <1>7. \A i \in 0..(n + m) : f[i] = IF i <= n THEN Upto(a, i) ELSE FlattenSeq(a) \o Upto(b, i - n)
    OBVIOUS
  <1>8. f[0] = <<>> /\ f[n + m] = FlattenSeq(a) \o FlattenSeq(b)
    <2>1. 0 \in 0..(n + m) /\ 0 <= n /\ n + m \in 0..(n + m) /\ n + m - n = m
      BY <1>2
    <2>2. CASE n + m <= n
      <3>1. m = 0 /\ n + m = n
        BY <1>2, <2>2
      <3> HIDE DEF f
      <3> QED  BY <1>3, <1>4, <1>6, <1>7, <2>1, <3>1
    <2>3. CASE ~(n + m <= n)
      <3> HIDE DEF f
      <3>0. PICK k \in 0..(n + m) : k = n + m /\ k - n = m
        BY <1>2, <2>1
      <3>1. f[k] = FlattenSeq(a) \o Upto(b, k - n)
        BY <1>7, <2>3, <3>0
      <3>2. f[0] = Upto(a, 0)
        BY <1>7, <2>1
      <3> QED  BY <1>3, <1>4, <2>1, <3>0, <3>1, <3>2
    <2> QED  BY <2>2, <2>3
  <1> HIDE DEF f
  <1>9. ASSUME NEW i \in 1..(n + m) PROVE f[i] = f[i - 1] \o all[i]
    <2>1. i \in 0..(n + m) /\ i - 1 \in 0..(n + m)
      BY <1>2
    <2>2. CASE i <= n
      <3>1. i \in 1..n /\ i - 1 <= n
        BY <1>2, <2>2
      <3> QED  BY <1>2, <1>3, <1>7, <2>1, <2>2, <3>1
    <2>3. CASE ~(i <= n)
      <3> DEFINE j == i - n
      <3>1. j \in 1..m /\ j - 1 = i - 1 - n /\ j \in 0..m /\ j - 1 \in 0..m
        BY <1>2, <2>3
      <3>2. f[i] = FlattenSeq(a) \o Upto(b, j) /\ all[i] = b[j]
        BY <1>2, <1>7, <2>1, <2>3
      <3>3. f[i - 1] = FlattenSeq(a) \o Upto(b, j - 1)
        <4>1. CASE i - 1 <= n
          <5>1. i - 1 = n /\ j - 1 = 0
            BY <1>2, <2>3, <4>1
          <5> HIDE DEF j
          <5> QED  BY <1>3, <1>6, <1>7, <2>1, <4>1, <5>1
        <4>2. CASE ~(i - 1 <= n)
          <5>1. f[i - 1] = FlattenSeq(a) \o Upto(b, i - 1 - n)
            BY <1>7, <2>1, <4>2
          <5> HIDE DEF j
          <5> QED  BY <3>1, <5>1
        <4> QED  BY <4>1, <4>2
      <3> HIDE DEF j
      <3>4. Upto(b, j) = Upto(b, j - 1) \o b[j] /\ Upto(b, j - 1) \in V /\ b[j] \in V
        BY <1>2, <1>4, <3>1
      <3>5. FlattenSeq(a) \o (Upto(b, j - 1) \o b[j]) = (FlattenSeq(a) \o Upto(b, j - 1)) \o b[j]
        BY <1>0, <1>5, <3>4
      <3> QED  BY <3>2, <3>3, <3>4, <3>5
    <2> QED  BY <2>2, <2>3
  <1>10. FlattenSeq(all) = f[Len(all)]
    <2>1. all \in Seq(Seq(T))
      BY <1>2 DEF V
    <2>2. \A i \in 1..Len(all) : f[i] = f[i - 1] \o all[i]
      BY <1>2, <1>9
    <2> QED  BY <1>8, <2>1, <2>2, FlattenUnique
  <1> QED  BY <1>2, <1>8, <1>10 DEF all

\* To join joined texts is to join them all.
LEMMA FlattenTwice ==
    ASSUME NEW T, NEW lists \in Seq(Seq(Seq(T))), NEW joined, DOMAIN joined = 1..Len(lists),
           joined \in Seq(Seq(T)), Len(joined) = Len(lists),
           \A i \in 1..Len(lists) : joined[i] = FlattenSeq(lists[i])
    PROVE  FlattenSeq(FlattenSeq(lists)) = FlattenSeq(joined)
  <1> DEFINE V == Seq(T)  W == Seq(V)  n == Len(lists)
             f == [i \in 0..n |-> FlattenSeq(Upto(lists, i))]
  <1>1. lists \in Seq(W)
    OBVIOUS
  <1>2. n \in Nat /\ \A i \in 1..n : lists[i] \in W
    <2> HIDE DEF W
    <2> QED  BY <1>1
  <1>3. /\ Upto(lists, 0) = <<>> /\ Upto(lists, n) = FlattenSeq(lists)
        /\ \A i \in 1..n : Upto(lists, i) = Upto(lists, i - 1) \o lists[i]
        /\ \A i \in 0..n : Upto(lists, i) \in W
    <2> HIDE DEF V
    <2> QED  BY <1>1, FirstLists DEF W
  <1> HIDE DEF n
  <1>4. f[0] = <<>>
    <2>1. 0 \in 0..n
      BY <1>2
    <2>2. FlattenSeq(<<>>) = <<>>
      BY DEF FlattenSeq
    <2> QED  BY <1>3, <2>1, <2>2
  <1>5. \A i \in 0..n : f[i] = FlattenSeq(Upto(lists, i))
    OBVIOUS
  <1> HIDE DEF f
  <1>6. ASSUME NEW i \in 1..n PROVE f[i] = f[i - 1] \o joined[i]
    <2>1. i - 1 \in 0..n /\ i \in 0..n
      BY <1>2
    <2> DEFINE a == Upto(lists, i - 1)  b == lists[i]
    <2>2. a \in Seq(Seq(T)) /\ b \in Seq(Seq(T)) /\ Upto(lists, i) = a \o b
      BY <1>2, <1>3, <2>1
    <2> HIDE DEF a, b
    <2>3. FlattenSeq(a \o b) = FlattenSeq(a) \o FlattenSeq(b)
      BY <2>2, FlattenBoth
    <2>4. joined[i] = FlattenSeq(b)
      BY DEF b, n
    <2> QED  BY <1>5, <2>1, <2>2, <2>3, <2>4 DEF a
  <1>7. FlattenSeq(joined) = f[Len(joined)]
    <2>1. \A i \in 1..Len(joined) : f[i] = f[i - 1] \o joined[i]
      BY <1>6 DEF n
    <2> HIDE DEF V, W
    <2> QED  BY <1>4, <2>1, FlattenUnique
  <1>8. n \in 0..n
    BY <1>2
  <1> QED  BY <1>3, <1>5, <1>7, <1>8 DEF n

\* Some lists in a row, joined, are a part of the flattened list.
LEMMA FlattenPart ==
    ASSUME NEW T, NEW lists \in Seq(Seq(T)), NEW a \in 1..(Len(lists) + 1), NEW b \in (a - 1)..Len(lists)
    PROVE  FlattenSeq(SubSeq(lists, a, b))
               = SubSeq(FlattenSeq(lists), End(lists, a - 1) + 1, End(lists, b))
  <1> DEFINE V == Seq(T)  n == Len(lists)  all == FlattenSeq(lists)  m == b - (a - 1)
             part == SubSeq(lists, a, b)
             f == [i \in 0..m |-> SubSeq(all, End(lists, a - 1) + 1, End(lists, a - 1 + i))]
  <1>1. lists \in Seq(V)
    OBVIOUS
  <1>2. n \in Nat /\ m \in Nat /\ a \in Nat /\ b \in Int /\ b <= n /\ a - 1 \in 0..n
    <2> HIDE DEF V
    <2> QED  BY <1>1
  <1>3. part \in Seq(V) /\ Len(part) = m /\ \A i \in 1..m : part[i] = lists[a - 1 + i]
    <2> HIDE DEF V
    <2>1. a \in Int /\ a >= 1 /\ b \in Int /\ b <= Len(lists)
      BY <1>2
    <2>2. part \in Seq(V)
      BY <1>1, <2>1, PartOf
    <2>3. \A i \in a..b : lists[i] \in V
      <3>1. \A i \in a..b : i \in 1..Len(lists)
        BY <1>2
      <3> QED  BY <1>1, <3>1
    <2>4. /\ Len(SubSeq(lists, a, b)) = IF a <= b THEN b - a + 1 ELSE 0
          /\ \A i \in 1..b - a + 1 : SubSeq(lists, a, b)[i] = lists[a + i - 1]
      BY <2>1, <2>3, SubSeqProperties
    <2>5. m = b - a + 1 /\ (~(a <= b) => m = 0)
      BY <1>2
    <2>6. \A i \in 1..m : a + i - 1 = a - 1 + i
      BY <1>2
    <2> HIDE DEF m
    <2> QED  BY <2>2, <2>4, <2>5, <2>6
  <1>4. /\ \A i \in 0..n : End(lists, i) \in Nat
        /\ \A i, j \in 0..n : i <= j => End(lists, i) <= End(lists, j)
        /\ End(lists, n) = Len(all)
        /\ \A i \in 1..n : End(lists, i) = End(lists, i - 1) + Len(lists[i])
    BY Ends
  <1>5. all \in V
    BY Flattened
  <1>6. \A i \in 1..n : \A k \in 1..Len(lists[i]) : all[End(lists, i - 1) + k] = lists[i][k]
    BY Places
  <1>7. \A i \in 1..n : lists[i] \in V
    <2> HIDE DEF V
    <2> QED  BY <1>1
  <1> HIDE DEF n, all, part
  <1>8. \A i \in 0..m : a - 1 + i \in 0..n
    BY <1>2
  <1>9. f[0] = <<>>
    <2>1. 0 \in 0..m /\ a - 1 + 0 = a - 1
      BY <1>2
    <2>2. SubSeq(all, End(lists, a - 1) + 1, End(lists, a - 1)) = <<>>
      <3>1. End(lists, a - 1) \in Nat
        BY <1>2, <1>4
      <3>2. End(lists, a - 1) < End(lists, a - 1) + 1 /\ End(lists, a - 1) + 1 \in Int
        BY <3>1
      <3> QED  BY <3>1, <3>2, SubSeqEmpty
    <2> QED  BY <2>1, <2>2
  <1>10. \A i \in 0..m : f[i] = SubSeq(all, End(lists, a - 1) + 1, End(lists, a - 1 + i))
    OBVIOUS
  <1> HIDE DEF f, m
  <1>11. ASSUME NEW i \in 1..m PROVE f[i] = f[i - 1] \o part[i]
    <2> DEFINE j == a - 1 + i  p == End(lists, a - 1)  q == End(lists, j - 1)  r == End(lists, j)
               x == lists[j]
    <2>1. j \in 1..n /\ j \in 0..n /\ j - 1 \in 0..n /\ i \in 0..m /\ i - 1 \in 0..m
          /\ j - 1 = a - 1 + (i - 1) /\ a - 1 <= j - 1 /\ j - 1 <= j /\ j <= n /\ n \in 0..n
      <3>1. m = b - (a - 1)
        BY DEF m
      <3> QED  BY <1>2, <3>1
    <2>2. p \in Nat /\ q \in Nat /\ r \in Nat /\ p <= q /\ q <= r /\ r <= Len(all) /\ r = q + Len(x)
      BY <1>2, <1>4, <2>1
    <2>3. x \in V /\ \A k \in 1..Len(x) : all[q + k] = x[k]
      BY <1>6, <1>7, <2>1
    <2>4. part[i] = x
      BY <1>3
    <2>5. f[i] = SubSeq(all, p + 1, r)
      BY <1>10, <2>1
    <2>6. f[i - 1] = SubSeq(all, p + 1, q)
      <3> HIDE DEF j
      <3> QED  BY <1>10, <2>1
    <2> HIDE DEF p, q, r, x, j
    <2>7. Len(all) \in Nat
      BY <1>5 DEF V
    <2>8. SubSeq(all, q + 1, r) = x
      <3> DEFINE s == SubSeq(all, q + 1, r)
      <3>1. Len(x) \in Nat /\ r - (q + 1) + 1 = Len(x) /\ (q + 1 <= r <=> Len(x) # 0)
        BY <2>2, <2>3 DEF V
      <3>2. \A k \in (q + 1)..r : all[k] \in T
        <4>1. \A k \in (q + 1)..r : k \in 1..Len(all)
          BY <2>2, <2>7
        <4> QED  BY <1>5, <4>1 DEF V
      <3>3. q + 1 \in Int /\ r \in Int
        BY <2>2
      <3>4. /\ s \in Seq(T) /\ Len(s) = IF q + 1 <= r THEN r - (q + 1) + 1 ELSE 0
            /\ \A k \in 1..r - (q + 1) + 1 : s[k] = all[q + 1 + k - 1]
        BY <3>2, <3>3, SubSeqProperties
      <3>5. Len(s) = Len(x)
        BY <3>1, <3>4
      <3>6. \A k \in 1..Len(s) : s[k] = x[k]
        <4> SUFFICES ASSUME NEW k \in 1..Len(s) PROVE s[k] = x[k]
          OBVIOUS
        <4> HIDE DEF s
        <4>1. k \in 1..Len(x) /\ k \in 1..r - (q + 1) + 1 /\ q + 1 + k - 1 = q + k
          BY <2>2, <3>1, <3>5
        <4> QED  BY <2>3, <3>4, <4>1
      <3> HIDE DEF s
      <3>7. s = x
        BY <2>3, <3>4, <3>5, <3>6, SeqEqual DEF V
      <3> QED  BY <3>7 DEF s
    <2>9. SubSeq(all, p + 1, q) \o SubSeq(all, q + 1, r) = SubSeq(all, p + 1, r)
      <3>1. all \in Seq(T)
        BY <1>5 DEF V
      <3> QED  BY <2>2, <3>1, Adjacent
    <2> QED  BY <2>4, <2>5, <2>6, <2>8, <2>9
  <1>12. FlattenSeq(part) = f[Len(part)]
    <2>1. \A i \in 1..Len(part) : f[i] = f[i - 1] \o part[i]
      BY <1>3, <1>11
    <2> QED  BY <1>3, <1>9, <2>1, FlattenUnique DEF V
  <1>13. m \in 0..m /\ a - 1 + m = b
    <2>1. m = b - (a - 1)
      BY DEF m
    <2> QED  BY <1>2, <2>1
  <1>14. f[m] = SubSeq(all, End(lists, a - 1) + 1, End(lists, b))
    BY <1>10, <1>13
  <1> QED  BY <1>3, <1>12, <1>14 DEF all, part

-----------------------------------------------------------------------------
(* The units of a section. *)

Unit == {u \in Seq(Word) : Len(u) \in 1..ChunkSize}

\* Units are texts.
LEMMA UnitTexts ==
    ASSUME NEW s \in Seq(Unit)
    PROVE  s \in Seq(Seq(Word))
  <1> DEFINE V == Seq(Word)
  <1>1. \A u \in Unit : u \in V
    BY DEF Unit
  <1> HIDE DEF V
  <1>2. s \in Seq(V)
    BY <1>1
  <1> QED  BY <1>2 DEF V

\* The whole pieces that a length has, counted.
LEMMA Pieces ==
    ASSUME NEW n \in Nat \ {0}, NEW c \in Nat \ {0}, NEW k, k = (n + c - 1) \div c
    PROVE  /\ k \in Nat /\ k * c >= n
           /\ \A i \in 1..k : (i - 1) * c \in Nat /\ (i - 1) * c < n /\ i * c = (i - 1) * c + c
  <1> DEFINE m == n + c - 1
  <1>1. m \in Nat /\ m >= c
    OBVIOUS
  <1>2. k \in Nat /\ k * c <= m /\ m < k * c + c
    <2> HIDE DEF m
    <2>1. k = m \div c
      BY DEF m
    <2> QED  BY <1>1, <2>1
  <1>3. k * c \in Nat
    BY <1>2
  <1>4. k * c >= n
    BY <1>2, <1>3
  <1>5. ASSUME NEW i \in 1..k
        PROVE  (i - 1) * c \in Nat /\ (i - 1) * c < n /\ i * c = (i - 1) * c + c
    <2>1. i \in Nat /\ i - 1 \in Nat /\ k - i \in Nat
      BY <1>2
    <2>2. i * c = (i - 1) * c + c
      BY <2>1
    <2>3. (i - 1) * c \in Nat /\ i * c \in Nat /\ (k - i) * c \in Nat
      BY <2>1
    <2>4. k * c = i * c + (k - i) * c
      BY <1>2, <2>1
    <2> HIDE DEF m
    <2>5. (i - 1) * c + c <= m
      BY <1>1, <1>2, <1>3, <2>2, <2>3, <2>4
    <2> QED  BY <2>2, <2>3, <2>5 DEF m
  <1> QED  BY <1>2, <1>4, <1>5

\* Cut by words, a sentence is units that have its words (_split_by_words).
LEMMA SplitUnits ==
    ASSUME NEW sentence \in Seq(Word), sentence # <<>>
    PROVE  SplitByWords(sentence) \in Seq(Unit) /\ FlattenSeq(SplitByWords(sentence)) = sentence
  <1> DEFINE V == Seq(Word)  n == Len(sentence)
             pieces == (n + ChunkSize - 1) \div ChunkSize
             Stop(i) == IF i * ChunkSize < n THEN i * ChunkSize ELSE n
             From(i) == (i - 1) * ChunkSize
             Piece(i) == SubSeq(sentence, From(i) + 1, Stop(i))
             list == [i \in 1..pieces |-> Piece(i)]
             f == [i \in 0..pieces |-> SubSeq(sentence, 1, Stop(i))]
  <1>1. n \in Nat \ {0} /\ ChunkSize \in Nat \ {0}
    BY SizesAssumption
  <1>2. SplitByWords(sentence) = list
    BY DEF SplitByWords
  <1>3. /\ pieces \in Nat /\ pieces * ChunkSize >= n
        /\ \A i \in 1..pieces : From(i) \in Nat /\ From(i) < n /\ i * ChunkSize = From(i) + ChunkSize
    BY <1>1, Pieces
  <1> HIDE DEF n, pieces
  <1>4. ASSUME NEW i \in 1..pieces
        PROVE  /\ Stop(i) \in Nat /\ Stop(i) <= n /\ From(i) \in Nat /\ From(i) < n
               /\ From(i) < Stop(i) /\ Stop(i) <= From(i) + ChunkSize /\ Stop(i - 1) = From(i)
    <2>1. From(i) \in Nat /\ From(i) < n /\ i * ChunkSize = From(i) + ChunkSize
      BY <1>3
    <2> DEFINE x == From(i)  y == i * ChunkSize
    <2>2. Stop(i - 1) = x
      BY <2>1
    <2>3. x \in Nat /\ x < n /\ y = x + ChunkSize
      BY <2>1
    <2>4. Stop(i) = IF y < n THEN y ELSE n
      OBVIOUS
    <2> HIDE DEF x, y, Stop
    <2>5. Stop(i) \in Nat /\ Stop(i) <= n /\ x < Stop(i) /\ Stop(i) <= x + ChunkSize
      BY <1>1, <2>3, <2>4
    <2> QED  BY <2>2, <2>3, <2>5 DEF x
  <1>5. Stop(0) = 0
    <2>1. 0 * ChunkSize = 0
      BY <1>1
    <2> QED  BY <1>1, <2>1
  <1>6. Stop(pieces) = n
    <2> DEFINE y == pieces * ChunkSize
    <2>1. y >= n /\ y \in Nat
      BY <1>1, <1>3
    <2>2. Stop(pieces) = IF y < n THEN y ELSE n
      OBVIOUS
    <2> HIDE DEF y, Stop
    <2> QED  BY <1>1, <2>1, <2>2
  <1> HIDE DEF Stop, From
  <1>7. ASSUME NEW i \in 1..pieces PROVE Piece(i) \in Unit
    <2> DEFINE x == From(i)  z == Stop(i)  s == SubSeq(sentence, x + 1, z)
    <2>1. z \in Nat /\ z <= n /\ x \in Nat /\ x < n /\ x < z /\ z <= x + ChunkSize
      BY <1>4
    <2> HIDE DEF x, z
    <2>2. x + 1 \in Int /\ z \in Int /\ x + 1 <= z /\ z - (x + 1) + 1 \in 1..ChunkSize
      BY <1>1, <2>1
    <2>3. \A k \in (x + 1)..z : sentence[k] \in Word
      <3>1. \A k \in (x + 1)..z : k \in 1..n
        BY <1>1, <2>1
      <3> QED  BY <3>1 DEF n
    <2>4. s \in Seq(Word) /\ Len(s) = z - (x + 1) + 1
      BY <2>2, <2>3, SubSeqProperties
    <2>5. s \in Unit
      <3> HIDE DEF s
      <3> QED  BY <2>2, <2>4 DEF Unit
    <2> QED  BY <2>5 DEF x, z
  <1>8. list \in Seq(Unit) /\ Len(list) = pieces /\ \A i \in 1..pieces : list[i] = Piece(i)
    <2> HIDE DEF Piece
    <2> QED  BY <1>3, <1>7
  <1>9. f[0] = <<>>
    <2>1. 0 \in 0..pieces
      BY <1>3
    <2>2. SubSeq(sentence, 1, 0) = <<>>
      BY SubSeqEmpty
    <2> QED  BY <1>5, <2>1, <2>2
  <1>10. ASSUME NEW i \in 1..pieces PROVE f[i] = f[i - 1] \o list[i]
    <2>1. i \in 0..pieces /\ i - 1 \in 0..pieces
      BY <1>3
    <2> DEFINE x == From(i)  z == Stop(i)
    <2>2. z \in Nat /\ z <= n /\ x \in Nat /\ x < z /\ Stop(i - 1) = x
      BY <1>4
    <2>3. f[i] = SubSeq(sentence, 1, z) /\ f[i - 1] = SubSeq(sentence, 1, x)
          /\ list[i] = SubSeq(sentence, x + 1, z)
      <3>1. f[i - 1] = SubSeq(sentence, 1, Stop(i - 1))
        BY <2>1
      <3> QED  BY <2>1, <2>2, <3>1
    <2> HIDE DEF x, z, f, list
    <2>4. SubSeq(sentence, 1, x) \o SubSeq(sentence, x + 1, z) = SubSeq(sentence, 1, z)
      <3>1. 0 \in Nat /\ 0 <= x /\ x <= z /\ z <= Len(sentence)
        BY <2>2 DEF n
      <3>2. SubSeq(sentence, 0 + 1, x) \o SubSeq(sentence, x + 1, z) = SubSeq(sentence, 0 + 1, z)
        BY <2>2, <3>1, Adjacent
      <3>3. 0 + 1 = 1
        OBVIOUS
      <3> QED  BY <3>2, <3>3, Zenon
    <2> QED  BY <2>3, <2>4
  <1>11. f[pieces] = sentence
    <2>1. pieces \in 0..pieces
      BY <1>3
    <2>2. SubSeq(sentence, 1, n) = sentence
      BY SubSeqFull DEF n
    <2> QED  BY <1>6, <2>1, <2>2
  <1> HIDE DEF f, list
  <1>12. FlattenSeq(list) = f[Len(list)]
    <2>1. list \in Seq(Seq(Word))
      BY <1>8, UnitTexts
    <2>2. \A i \in 1..Len(list) : f[i] = f[i - 1] \o list[i]
      BY <1>8, <1>10
    <2> QED  BY <1>9, <2>1, <2>2, FlattenUnique
  <1> QED  BY <1>2, <1>8, <1>11, <1>12

\* The units of a sentence, and of a paragraph.
SentenceUnits(s) == IF Len(s) <= ChunkSize THEN <<s>> ELSE SplitByWords(s)

ParagraphUnits(p) == IF Size(p) <= ChunkSize THEN <<FlattenSeq(p)>>
                     ELSE FlattenSeq([i \in DOMAIN p |-> SentenceUnits(p[i])])

\* A sentence is units that have its words.
LEMMA SentenceSplit ==
    ASSUME NEW s \in Seq(Word), s # <<>>
    PROVE  SentenceUnits(s) \in Seq(Unit) /\ FlattenSeq(SentenceUnits(s)) = s
  <1>1. CASE Len(s) <= ChunkSize
    <2>1. s \in Unit
      <3>1. Len(s) \in Nat \ {0} /\ ChunkSize \in Nat
        BY SizesAssumption, EmptySeq
      <3> QED  BY <1>1, <3>1 DEF Unit
    <2>2. <<s>> \in Seq(Unit)
      BY <2>1
    <2>3. SentenceUnits(s) = <<s>>
      BY <1>1 DEF SentenceUnits
    <2>4. FlattenSeq(<<s>>) = s
      BY FlattenOne
    <2> QED  BY <2>2, <2>3, <2>4
  <1>2. CASE ~(Len(s) <= ChunkSize)
    BY <1>2, SplitUnits DEF SentenceUnits
  <1> QED  BY <1>1, <1>2

\* The sentences of a paragraph with text.
Sentences(p) == p \in Seq(Seq(Word)) /\ p # <<>> /\ \A i \in 1..Len(p) : p[i] # <<>>

\* A paragraph has words.
LEMMA ParagraphText ==
    ASSUME NEW p, Sentences(p)
    PROVE  FlattenSeq(p) \in Seq(Word) /\ FlattenSeq(p) # <<>>
  <1> DEFINE V == Seq(Word)
  <1>1. p \in Seq(V) /\ p \in Seq(Seq(Word))
    BY DEF Sentences
  <1>2. Len(p) \in Nat \ {0} /\ p[1] \in V /\ p[1] # <<>>
    <2> HIDE DEF V
    <2>1. Len(p) \in Nat \ {0}
      BY <1>1, EmptySeq DEF Sentences
    <2>2. 1 \in 1..Len(p)
      BY <2>1
    <2> QED  BY <1>1, <2>1, <2>2 DEF Sentences
  <1>3. Len(p[1]) \in Nat \ {0}
    BY <1>2, EmptySeq
  <1>4. End(p, 1) = End(p, 0) + Len(p[1]) /\ End(p, 0) = 0 /\ End(p, 1) <= End(p, Len(p))
        /\ End(p, Len(p)) = Len(FlattenSeq(p))
    <2>1. 1 \in 1..Len(p) /\ 1 - 1 = 0 /\ 1 \in 0..Len(p) /\ Len(p) \in 0..Len(p) /\ 1 <= Len(p)
      BY <1>2
    <2> HIDE DEF V
    <2>2. /\ End(p, 0) = 0 /\ End(p, Len(p)) = Len(FlattenSeq(p))
          /\ \A i \in 1..Len(p) : End(p, i) = End(p, i - 1) + Len(p[i])
          /\ \A i, j \in 0..Len(p) : i <= j => End(p, i) <= End(p, j)
      BY <1>1, Ends
    <2> QED  BY <2>1, <2>2
  <1>5. FlattenSeq(p) \in Seq(Word)
    BY <1>1, Flattened
  <1>6. Len(FlattenSeq(p)) # 0
    <2>1. Len(FlattenSeq(p)) \in Nat
      BY <1>5
    <2> QED  BY <1>3, <1>4, <2>1
  <1>7. Len(<<>>) = 0
    OBVIOUS
  <1> QED  BY <1>5, <1>6, <1>7

\* A paragraph is units that have its words.
LEMMA ParagraphSplit ==
    ASSUME NEW p, Sentences(p)
    PROVE  ParagraphUnits(p) \in Seq(Unit) /\ FlattenSeq(ParagraphUnits(p)) = FlattenSeq(p)
  <1> DEFINE V == Seq(Word)  W == Seq(Unit)  n == Len(p)
             units == [i \in DOMAIN p |-> SentenceUnits(p[i])]
             text == FlattenSeq(p)
  <1>1. text \in Seq(Word) /\ text # <<>>
    BY ParagraphText
  <1>2. n \in Nat /\ DOMAIN p = 1..n /\ \A i \in 1..n : p[i] \in V /\ p[i] # <<>>
    <2>1. p \in Seq(V)
      BY DEF Sentences
    <2> HIDE DEF V
    <2> QED  BY <2>1 DEF Sentences
  <1> HIDE DEF n, text
  <1>3. CASE Size(p) <= ChunkSize
    <2>1. text \in Unit
      <3>1. Len(text) \in Nat \ {0} /\ ChunkSize \in Nat
        BY <1>1, SizesAssumption, EmptySeq
      <3>2. Len(text) <= ChunkSize
        BY <1>3 DEF Size, text
      <3> QED  BY <1>1, <3>1, <3>2 DEF Unit
    <2>2. <<text>> \in Seq(Unit)
      BY <2>1
    <2>3. ParagraphUnits(p) = <<text>>
      BY <1>3 DEF ParagraphUnits, text
    <2>4. FlattenSeq(<<text>>) = text
      BY <1>1, FlattenOne
    <2> QED  BY <2>2, <2>3, <2>4 DEF text
  <1>4. CASE ~(Size(p) <= ChunkSize)
    <2>1. \A i \in 1..n : SentenceUnits(p[i]) \in W /\ FlattenSeq(SentenceUnits(p[i])) = p[i]
      BY <1>2, SentenceSplit
    <2>2. units \in Seq(W) /\ Len(units) = n /\ \A i \in 1..n : units[i] = SentenceUnits(p[i])
      <3> HIDE DEF W
      <3> QED  BY <1>2, <2>1
    <2>3. FlattenSeq(units) \in Seq(Unit)
      <3> HIDE DEF units
      <3> QED  BY <2>2, Flattened
    <2>4. FlattenSeq(FlattenSeq(units)) = FlattenSeq(p)
      <3> DEFINE X == Seq(Seq(Word))
      <3>1. \A w \in W : w \in X
        BY UnitTexts
      <3> HIDE DEF units, W, X
      <3>2. units \in Seq(X)
        BY <2>2, <3>1
      <3>3. \A i \in 1..Len(units) : p[i] = FlattenSeq(units[i])
        BY <2>1, <2>2
      <3>4. units \in Seq(Seq(Seq(Word)))
        BY <3>2 DEF X
      <3>5. p \in Seq(Seq(Word)) /\ DOMAIN p = 1..Len(units) /\ Len(p) = Len(units)
        BY <1>2, <2>2 DEF Sentences, n
      <3> QED  BY <3>3, <3>4, <3>5, FlattenTwice
    <2>5. ParagraphUnits(p) = FlattenSeq(units)
      BY <1>4 DEF ParagraphUnits
    <2> HIDE DEF units
    <2> QED  BY <2>3, <2>4, <2>5
  <1> QED  BY <1>3, <1>4

\* The blocks of a section: paragraphs, no headings.
Paragraphs(blocks) == /\ blocks \in Seq(Block)
                      /\ \A i \in 1..Len(blocks) : blocks[i].heading = NoHeading

\* The paragraphs of a section are sentences with words.
LEMMA HaveSentences ==
    ASSUME NEW blocks, Paragraphs(blocks), NEW i \in 1..Len(blocks)
    PROVE  Sentences(blocks[i].sentences)
  <1> DEFINE U == Seq(Word) \ {<<>>}  p == blocks[i].sentences
  <1>1. blocks[i] \in Block /\ blocks[i].heading = NoHeading
    BY DEF Paragraphs
  <1>2. p \in Seq(U) /\ p # <<>>
    BY <1>1, BlockAssumption
  <1>3. p \in Seq(Seq(Word))
    BY <1>1, SentencesType
  <1>4. \A k \in 1..Len(p) : p[k] # <<>>
    <2>1. \A u \in U : u # <<>>
      OBVIOUS
    <2> HIDE DEF U, p
    <2> QED  BY <1>2, <2>1
  <1> HIDE DEF p
  <1>5. Sentences(p)
    BY <1>2, <1>3, <1>4 DEF Sentences
  <1> QED  BY <1>5 DEF p

\* Cut into units, a section has the words that it has.
LEMMA UnitsJoin ==
    ASSUME NEW blocks, Paragraphs(blocks)
    PROVE  /\ UnitsOf(blocks) \in Seq(Unit) /\ FlattenSeq(UnitsOf(blocks)) = WordsOf(blocks)
           /\ WordsOf(blocks) \in Seq(Word)
  <1> DEFINE V == Seq(Word)  W == Seq(Unit)  n == Len(blocks)
             units == [i \in DOMAIN blocks |-> ParagraphUnits(blocks[i].sentences)]
             texts == [i \in DOMAIN blocks |-> FlattenSeq(blocks[i].sentences)]
  <1>1. n \in Nat /\ DOMAIN blocks = 1..n
    BY DEF Paragraphs
  <1>2. UnitsOf(blocks) = FlattenSeq(units) /\ WordsOf(blocks) = FlattenSeq(texts)
    BY DEF UnitsOf, WordsOf, ParagraphUnits, SentenceUnits
  <1>3. ASSUME NEW i \in 1..n
        PROVE  /\ ParagraphUnits(blocks[i].sentences) \in W
               /\ FlattenSeq(blocks[i].sentences) \in V
               /\ FlattenSeq(ParagraphUnits(blocks[i].sentences)) = FlattenSeq(blocks[i].sentences)
    BY HaveSentences, ParagraphSplit, ParagraphText
  <1>4. units \in Seq(W) /\ Len(units) = n
        /\ \A i \in 1..n : units[i] = ParagraphUnits(blocks[i].sentences)
    <2> HIDE DEF W, n
    <2> QED  BY <1>1, <1>3
  <1>5. texts \in Seq(V) /\ Len(texts) = n /\ DOMAIN texts = 1..n
        /\ \A i \in 1..n : texts[i] = FlattenSeq(blocks[i].sentences)
    <2> HIDE DEF V, n
    <2> QED  BY <1>1, <1>3
  <1> HIDE DEF units, texts
  <1>6. FlattenSeq(units) \in Seq(Unit)
    BY <1>4, Flattened
  <1>7. FlattenSeq(FlattenSeq(units)) = FlattenSeq(texts)
    <2> DEFINE X == Seq(Seq(Word))
    <2>1. \A w \in W : w \in X
      BY UnitTexts
    <2> HIDE DEF W, X
    <2>2. units \in Seq(X)
      BY <1>4, <2>1
    <2>3. \A i \in 1..Len(units) : texts[i] = FlattenSeq(units[i])
      BY <1>3, <1>4, <1>5
    <2>4. units \in Seq(Seq(Seq(Word)))
      BY <2>2 DEF X
    <2> QED  BY <1>4, <1>5, <2>3, <2>4, FlattenTwice
  <1>8. WordsOf(blocks) \in Seq(Word)
    BY WordsType DEF Paragraphs
  <1> QED  BY <1>2, <1>6, <1>7, <1>8

(* The chunks of a section. *)

\* Where the chunk before ends.
Before(high, k) == IF k = 1 THEN 0 ELSE high[k - 1]

\* Each of the texts is a part of the words, from low[k] + 1 to high[k], that goes on
\* where the one before ended, after what it repeats of its end.
Cut(words, texts, low, high) ==
    \A k \in 1..Len(texts) :
        /\ low[k] \in Nat /\ high[k] \in Nat /\ high[k] <= Len(words)
        /\ low[k] <= Before(high, k) /\ Before(high, k) - Overlap <= low[k]
        /\ Before(high, k) < high[k] /\ high[k] - low[k] <= ChunkSize + Overlap
        /\ texts[k] = SubSeq(words, low[k] + 1, high[k])

LastOf(high, n) == IF n = 0 THEN 0 ELSE high[n]

\* A cut ends within the words.
LEMMA CutLast ==
    ASSUME NEW words \in Seq(Word), NEW texts, NEW low, NEW high, Cut(words, texts, low, high),
           Len(texts) \in Nat
    PROVE  LastOf(high, Len(texts)) \in Nat /\ LastOf(high, Len(texts)) <= Len(words)
  <1>1. Len(words) \in Nat
    OBVIOUS
  <1>2. CASE Len(texts) = 0
    BY <1>1, <1>2 DEF LastOf
  <1>3. CASE Len(texts) # 0
    <2>1. Len(texts) \in 1..Len(texts)
      BY <1>3
    <2> QED  BY <1>3, <2>1 DEF LastOf, Cut
  <1> QED  BY <1>2, <1>3

\* One more: up to n as old says, but there x.
Extended(new, old, n, x) == \A k \in 1..n : new[k] = IF k = n THEN x ELSE old[k]

\* One chunk more.
LEMMA CutMore ==
    ASSUME NEW words \in Seq(Word), NEW texts \in Seq(Seq(Word)),
           NEW low, NEW high, Cut(words, texts, low, high),
           NEW from \in Nat, NEW to \in Nat, to <= Len(words),
           from <= LastOf(high, Len(texts)), LastOf(high, Len(texts)) - Overlap <= from,
           LastOf(high, Len(texts)) < to, to - from <= ChunkSize + Overlap,
           NEW n, n = Len(texts) + 1, NEW more, more = Append(texts, SubSeq(words, from + 1, to)),
           NEW low1, Extended(low1, low, n, from), NEW high1, Extended(high1, high, n, to)
    PROVE  Cut(words, more, low1, high1)
  <1> DEFINE V == Seq(Word)  m == Len(texts)  text == SubSeq(words, from + 1, to)
  <1>0. /\ \A k \in 1..n : low1[k] = IF k = n THEN from ELSE low[k]
        /\ \A k \in 1..n : high1[k] = IF k = n THEN to ELSE high[k]
    BY DEF Extended
  <1>1. text \in V
    <2>1. from + 1 \in Int /\ from + 1 >= 1 /\ to \in Int
      OBVIOUS
    <2> QED  BY <2>1, PartOf
  <1>2. m \in Nat /\ Len(more) = n /\ more[n] = text /\ \A k \in 1..m : more[k] = texts[k]
    <2>1. texts \in Seq(V)
      OBVIOUS
    <2>2. more = Append(texts, text)
      OBVIOUS
    <2> HIDE DEF V, text
    <2>3. m \in Nat /\ n = m + 1
      BY <2>1
    <2> QED  BY <1>1, <2>1, <2>2, <2>3, AppendProperties
  <1>3. ASSUME NEW k \in 1..n
        PROVE  /\ low1[k] \in Nat /\ high1[k] \in Nat /\ high1[k] <= Len(words)
               /\ low1[k] <= Before(high1, k) /\ Before(high1, k) - Overlap <= low1[k]
               /\ Before(high1, k) < high1[k] /\ high1[k] - low1[k] <= ChunkSize + Overlap
               /\ more[k] = SubSeq(words, low1[k] + 1, high1[k])
    <2>1. Before(high1, k) = IF k = 1 THEN 0 ELSE high[k - 1]
      <3>1. CASE k = 1
        BY <3>1 DEF Before
      <3>2. CASE k # 1
        <4>1. k - 1 \in 1..n /\ k - 1 # n
          BY <1>2, <3>2
        <4>2. high1[k - 1] = high[k - 1]
          BY <1>0, <4>1
        <4> QED  BY <3>2, <4>2 DEF Before
      <3> QED  BY <3>1, <3>2
    <2>2. CASE k = n
      <3>1. Before(high1, k) = LastOf(high, m)
        <4>1. n = 1 <=> m = 0
          BY <1>2
        <4>2. n - 1 = m
          BY <1>2
        <4> HIDE DEF m
        <4> QED  BY <2>1, <2>2, <4>1, <4>2 DEF LastOf
      <3>2. low1[k] = from /\ high1[k] = to
        BY <1>0, <2>2
      <3>3. more[k] = text
        BY <1>2, <2>2
      <3> QED  BY <3>1, <3>2, <3>3
    <2>3. CASE k # n
      <3>1. k \in 1..m
        BY <1>2, <2>3
      <3>2. low1[k] = low[k] /\ high1[k] = high[k] /\ more[k] = texts[k]
        BY <1>0, <1>2, <2>3, <3>1
      <3>3. Before(high1, k) = Before(high, k)
        BY <2>1 DEF Before
      <3>4. /\ low[k] \in Nat /\ high[k] \in Nat /\ high[k] <= Len(words)
            /\ low[k] <= Before(high, k) /\ Before(high, k) - Overlap <= low[k]
            /\ Before(high, k) < high[k] /\ high[k] - low[k] <= ChunkSize + Overlap
            /\ texts[k] = SubSeq(words, low[k] + 1, high[k])
        BY <3>1 DEF Cut
      <3> QED  BY <3>2, <3>3, <3>4
    <2> QED  BY <2>2, <2>3
  <1>4. Cut(words, more, low1, high1)
    BY <1>2, <1>3 DEF Cut
  <1> QED  BY <1>4

\* What is packed of the first i units: the chunks that are full, and the units from c.
Packed(units, acc, i, low, high, c) ==
    LET words == FlattenSeq(units)
        last == LastOf(high, Len(acc.done))
        from == End(units, c - 1)
    IN  /\ acc.done \in Seq(Seq(Word)) /\ Cut(words, acc.done, low, high)
        /\ c \in 1..(i + 1) /\ acc.current = SubSeq(units, c, i)
        /\ from <= last /\ last - Overlap <= from
        /\ i = 0 => acc.done = <<>>
        /\ i > 0 => c <= i /\ last < End(units, i)
        /\ End(units, i) - from <= ChunkSize + Overlap

\* Units end one after the other, none of them longer than a chunk.
LEMMA UnitEnds ==
    ASSUME NEW units \in Seq(Unit)
    PROVE  /\ \A i \in 0..Len(units) : End(units, i) \in Nat
           /\ End(units, 0) = 0 /\ End(units, Len(units)) = Len(FlattenSeq(units))
           /\ \A i, j \in 0..Len(units) : i <= j => End(units, i) <= End(units, j)
           /\ \A i \in 1..Len(units) : /\ Len(units[i]) \in 1..ChunkSize
                                       /\ End(units, i) = End(units, i - 1) + Len(units[i])
           /\ \A a \in 1..(Len(units) + 1) : \A b \in (a - 1)..Len(units) :
                /\ FlattenSeq(SubSeq(units, a, b))
                       = SubSeq(FlattenSeq(units), End(units, a - 1) + 1, End(units, b))
                /\ Size(SubSeq(units, a, b)) = End(units, b) - End(units, a - 1)
  <1>1. units \in Seq(Seq(Word))
    BY UnitTexts
  <1>2. /\ \A i \in 0..Len(units) : End(units, i) \in Nat
        /\ End(units, 0) = 0 /\ End(units, Len(units)) = Len(FlattenSeq(units))
        /\ \A i, j \in 0..Len(units) : i <= j => End(units, i) <= End(units, j)
        /\ \A i \in 1..Len(units) : End(units, i) = End(units, i - 1) + Len(units[i])
    BY <1>1, Ends
  <1>3. \A i \in 1..Len(units) : Len(units[i]) \in 1..ChunkSize
    <2>1. \A i \in 1..Len(units) : units[i] \in Unit
      OBVIOUS
    <2> QED  BY <2>1 DEF Unit
  <1>4. FlattenSeq(units) \in Seq(Word) /\ Len(units) \in Nat
    <2>1. Len(units) \in Nat
      OBVIOUS
    <2> QED  BY <1>1, <2>1, Flattened
  <1>5. ASSUME NEW a \in 1..(Len(units) + 1), NEW b \in (a - 1)..Len(units)
        PROVE  /\ FlattenSeq(SubSeq(units, a, b))
                      = SubSeq(FlattenSeq(units), End(units, a - 1) + 1, End(units, b))
               /\ Size(SubSeq(units, a, b)) = End(units, b) - End(units, a - 1)
    <2> DEFINE all == FlattenSeq(units)  n == Len(units)  p == End(units, a - 1)  q == End(units, b)
               part == SubSeq(all, p + 1, q)
    <2>1. FlattenSeq(SubSeq(units, a, b)) = part
      BY <1>1, FlattenPart
    <2>2. a - 1 \in 0..n /\ b \in 0..n /\ a - 1 <= b /\ n \in 0..n /\ b <= n
      BY <1>4
    <2>3. p \in Nat /\ q \in Nat /\ p <= q /\ q <= Len(all)
      BY <1>2, <2>2
    <2>4. all \in Seq(Word) /\ Len(all) \in Nat
      BY <1>4
    <2> HIDE DEF p, q, all, n
    <2>5. Len(part) = q - p
      <3>1. \A k \in (p + 1)..q : all[k] \in Word
        <4>1. \A k \in (p + 1)..q : k \in 1..Len(all)
          BY <2>3, <2>4
        <4> QED  BY <2>4, <4>1
      <3>2. p + 1 \in Int /\ q \in Int
        BY <2>3
      <3>3. Len(SubSeq(all, p + 1, q)) = IF p + 1 <= q THEN q - (p + 1) + 1 ELSE 0
        BY <3>1, <3>2, SubSeqProperties
      <3> QED  BY <2>3, <3>3
    <2>6. Size(SubSeq(units, a, b)) = Len(part)
      BY <2>1 DEF Size
    <2> HIDE DEF part
    <2> QED  BY <2>1, <2>5, <2>6 DEF part, p, q, all
  <1> QED  BY <1>2, <1>3, <1>5

\* What a part of a list is.
LEMMA PartIs ==
    ASSUME NEW T, NEW s \in Seq(T), NEW a \in Nat \ {0}, NEW b \in Nat, b <= Len(s), a <= b + 1
    PROVE  /\ SubSeq(s, a, b) \in Seq(T) /\ Len(SubSeq(s, a, b)) = b - a + 1
           /\ \A k \in 1..(b - a + 1) : SubSeq(s, a, b)[k] = s[a + k - 1]
  <1>1. \A k \in a..b : s[k] \in T
    <2>1. \A k \in a..b : k \in 1..Len(s)
      OBVIOUS
    <2> QED  BY <2>1
  <1>2. a \in Int /\ b \in Int
    OBVIOUS
  <1>3. /\ SubSeq(s, a, b) \in Seq(T)
        /\ Len(SubSeq(s, a, b)) = IF a <= b THEN b - a + 1 ELSE 0
        /\ \A k \in 1..b - a + 1 : SubSeq(s, a, b)[k] = s[a + k - 1]
    BY <1>1, <1>2, SubSeqProperties
  <1>4. ~(a <= b) => b - a + 1 = 0
    OBVIOUS
  <1> QED  BY <1>3, <1>4

\* A part of a part is a part.
LEMMA PartOfPart ==
    ASSUME NEW T, NEW s \in Seq(T), NEW a \in Nat \ {0}, NEW b \in Nat, b <= Len(s), a <= b + 1,
           NEW k \in 1..(b - a + 2), NEW n, n = b - a + 1
    PROVE  SubSeq(SubSeq(s, a, b), k, n) = SubSeq(s, a + k - 1, b)
  <1> DEFINE t == SubSeq(s, a, b)  m == a + k - 1  u == SubSeq(t, k, n)  v == SubSeq(s, m, b)
  <1>1. t \in Seq(T) /\ Len(t) = n /\ \A j \in 1..n : t[j] = s[a + j - 1]
    BY PartIs
  <1> HIDE DEF t
  <1>2. k \in Nat \ {0} /\ n \in Nat /\ n <= Len(t) /\ k <= n + 1
    BY <1>1
  <1>3. m \in Nat \ {0} /\ m <= b + 1 /\ b - m + 1 = n - k + 1
    OBVIOUS
  <1>4. u \in Seq(T) /\ Len(u) = n - k + 1 /\ \A j \in 1..(n - k + 1) : u[j] = t[k + j - 1]
    BY <1>1, <1>2, PartIs
  <1> HIDE DEF m
  <1>5. v \in Seq(T) /\ Len(v) = b - m + 1 /\ \A j \in 1..(b - m + 1) : v[j] = s[m + j - 1]
    BY <1>3, PartIs
  <1> HIDE DEF u, v
  <1>6. ASSUME NEW j \in 1..(n - k + 1) PROVE u[j] = v[j]
    <2>1. k + j - 1 \in 1..n
      BY <1>2
    <2>2. t[k + j - 1] = s[a + (k + j - 1) - 1]
      BY <1>1, <2>1
    <2>3. a + (k + j - 1) - 1 = m + j - 1
      BY <1>2 DEF m
    <2>4. v[j] = s[m + j - 1]
      BY <1>3, <1>5
    <2> QED  BY <1>4, <2>2, <2>3, <2>4
  <1>7. Len(u) = Len(v) /\ \A j \in 1..Len(u) : u[j] = v[j]
    BY <1>3, <1>4, <1>5, <1>6
  <1>8. u = v
    BY <1>4, <1>5, <1>7, SeqEqual
  <1> QED  BY <1>8 DEF t, u, v, m

\* A part and the element after it.
LEMMA PartMore ==
    ASSUME NEW T, NEW s \in Seq(T), NEW a \in Nat \ {0}, NEW b \in 1..Len(s), a <= b
    PROVE  Append(SubSeq(s, a, b - 1), s[b]) = SubSeq(s, a, b)
  <1> DEFINE m == b - 1  t == SubSeq(s, a, m)  x == s[b]  u == Append(t, x)  v == SubSeq(s, a, b)
  <1>1. m \in Nat /\ m <= Len(s) /\ a <= m + 1 /\ x \in T /\ b \in Nat /\ m = b - 1 /\ b <= Len(s)
    OBVIOUS
  <1> HIDE DEF m
  <1>2. t \in Seq(T) /\ Len(t) = m - a + 1 /\ \A j \in 1..(m - a + 1) : t[j] = s[a + j - 1]
    BY <1>1, PartIs
  <1>3. v \in Seq(T) /\ Len(v) = b - a + 1 /\ \A j \in 1..(b - a + 1) : v[j] = s[a + j - 1]
    BY <1>1, PartIs
  <1> HIDE DEF t, v, x
  <1>4. /\ u \in Seq(T) /\ Len(u) = Len(t) + 1 /\ u[Len(t) + 1] = x
        /\ \A j \in 1..Len(t) : u[j] = t[j]
    BY <1>1, <1>2, AppendProperties
  <1> HIDE DEF u
  <1>5. Len(u) = b - a + 1
    BY <1>1, <1>2, <1>4
  <1>6. ASSUME NEW j \in 1..(b - a + 1) PROVE u[j] = v[j]
    <2>1. CASE j = b - a + 1
      <3>1. j = Len(t) + 1 /\ a + j - 1 = b
        BY <1>1, <1>2, <2>1
      <3>2. v[j] = s[a + j - 1]
        BY <1>3
      <3> QED  BY <1>4, <3>1, <3>2 DEF x
    <2>2. CASE j # b - a + 1
      <3>1. j \in 1..Len(t) /\ j \in 1..(m - a + 1)
        BY <1>1, <1>2, <2>2
      <3> QED  BY <1>2, <1>3, <1>4, <3>1
    <2> QED  BY <2>1, <2>2
  <1>7. u = v
    <2>1. Len(u) = Len(v) /\ \A j \in 1..Len(u) : u[j] = v[j]
      BY <1>3, <1>5, <1>6
    <2> QED  BY <1>3, <1>4, <2>1, SeqEqual
  <1> QED  BY <1>7 DEF u, v, t, x, m

\* Nothing is packed at first.
LEMMA PackStart ==
    ASSUME NEW units \in Seq(Unit), NEW acc, acc = [done |-> <<>>, current |-> <<>>]
    PROVE  Packed(units, acc, 0, <<>>, <<>>, 1)
  <1>1. acc.done = <<>> /\ acc.current = <<>> /\ Len(<<>>) = 0 /\ <<>> \in Seq(Seq(Word))
    OBVIOUS
  <1>2. Cut(FlattenSeq(units), <<>>, <<>>, <<>>)
    BY DEF Cut
  <1>3. SubSeq(units, 1, 0) = <<>>
    BY SubSeqEmpty
  <1>4. End(units, 0) = 0 /\ 1 - 1 = 0 /\ 1 \in 1..(0 + 1)
    BY UnitEnds
  <1>5. LastOf(<<>>, 0) = 0
    BY DEF LastOf
  <1>6. 0 - Overlap <= 0 /\ 0 - 0 <= ChunkSize + Overlap
    BY SizesAssumption
  <1> QED  BY <1>1, <1>2, <1>3, <1>4, <1>5, <1>6 DEF Packed

\* The facts of a packing that its next step needs.
LEMMA PackedFacts ==
    ASSUME NEW units \in Seq(Unit), NEW m \in 0..Len(units), NEW acc, NEW low, NEW high, NEW c,
           Packed(units, acc, m, low, high, c), acc.current \in Texts
    PROVE  LET from == End(units, c - 1)
               last == LastOf(high, Len(acc.done))
           IN  /\ from \in Nat /\ last \in Nat /\ from <= End(units, m)
               /\ FlattenSeq(acc.current) = SubSeq(FlattenSeq(units), from + 1, End(units, m))
               /\ Size(acc.current) = End(units, m) - from
               /\ acc.current # <<>> => m > 0 /\ c <= m
               /\ m > 0 => acc.current # <<>>
  <1> DEFINE from == End(units, c - 1)  words == FlattenSeq(units)
             last == LastOf(high, Len(acc.done))
  <1>1. c \in 1..(m + 1) /\ Len(units) \in Nat /\ m <= Len(units)
    BY DEF Packed
  <1>2. c - 1 \in 0..Len(units) /\ m \in (c - 1)..Len(units) /\ c \in 1..(Len(units) + 1)
        /\ c - 1 <= m /\ m \in 0..Len(units)
    BY <1>1
  <1>3. from \in Nat /\ from <= End(units, m)
    BY <1>2, UnitEnds
  <1>4. /\ FlattenSeq(SubSeq(units, c, m)) = SubSeq(words, from + 1, End(units, m))
        /\ Size(SubSeq(units, c, m)) = End(units, m) - from
    BY <1>2, UnitEnds
  <1>5. last \in Nat
    <2>1. words \in Seq(Word)
      BY UnitTexts, Flattened
    <2>2. Cut(words, acc.done, low, high) /\ acc.done \in Seq(Seq(Word))
      BY DEF Packed
    <2>3. Len(acc.done) \in Nat
      <3> DEFINE V == Seq(Word)  d == acc.done
      <3>1. d \in Seq(V)
        BY <2>2
      <3> HIDE DEF V, d
      <3>2. Len(d) \in Nat
        BY <3>1
      <3> QED  BY <3>2 DEF d
    <2> HIDE DEF words
    <2> QED  BY <2>1, <2>2, <2>3, CutLast
  <1>6. acc.current = SubSeq(units, c, m) /\ (m > 0 => c <= m)
    BY DEF Packed
  <1>7. Len(SubSeq(units, c, m)) = m - c + 1
    BY <1>1, PartIs
  <1>8. m = 0 => m - c + 1 = 0
    BY <1>1
  <1>9. acc.current # <<>> => m > 0
    <2> SUFFICES ASSUME m = 0 PROVE acc.current = <<>>
      BY <1>1
    <2>1. c = 1
      BY <1>1
    <2> QED  BY <1>6, <2>1, SubSeqEmpty
  <1>10. m > 0 => acc.current # <<>>
    <2> SUFFICES ASSUME m > 0, acc.current = <<>> PROVE FALSE
      OBVIOUS
    <2> DEFINE part == SubSeq(units, c, m)
    <2>1. part = <<>> /\ Len(part) = m - c + 1 /\ c <= m
      BY <1>6, <1>7
    <2> HIDE DEF part
    <2>2. Len(part) = 0
      BY <2>1
    <2> QED  BY <1>1, <2>1, <2>2
  <1> QED  BY <1>3, <1>4, <1>5, <1>6, <1>9, <1>10

\* One unit more, when the chunk is full: it is done, and the next begins with its tail.
LEMMA PackFull ==
    ASSUME NEW units \in Seq(Unit), NEW i \in 1..Len(units), NEW acc, NEW low, NEW high, NEW c,
           Packed(units, acc, i - 1, low, high, c), acc.current \in Texts, Full(acc, units[i])
    PROVE  \E low1, high1, c1 : Packed(units, Pack(acc, units[i]), i, low1, high1, c1)
  <1> DEFINE m == i - 1  words == FlattenSeq(units)  unit == units[i]
             from == End(units, c - 1)  to == End(units, m)  last == LastOf(high, Len(acc.done))
             n == Len(acc.done) + 1
             low1 == [k \in 1..n |-> IF k = n THEN from ELSE low[k]]
             high1 == [k \in 1..n |-> IF k = n THEN to ELSE high[k]]
             done1 == Append(acc.done, SubSeq(words, from + 1, to))
             next == Pack(acc, unit)
  <1>1. Packed(units, acc, m, low, high, c) /\ m \in 0..Len(units) /\ i \in 0..Len(units)
        /\ Len(units) \in Nat /\ m + 1 = i
    OBVIOUS
  <1>2. /\ from \in Nat /\ last \in Nat /\ from <= to
        /\ FlattenSeq(acc.current) = SubSeq(words, from + 1, to)
        /\ acc.current # <<>> => m > 0 /\ c <= m
    BY <1>1, PackedFacts
  <1>3. acc.current # <<>>
    BY DEF Full
  <1>4. /\ to \in Nat /\ to <= Len(words) /\ End(units, i) = to + Len(unit) /\ Len(unit) \in 1..ChunkSize
        /\ End(units, i) \in Nat
    <2>1. m <= Len(units) /\ Len(units) \in 0..Len(units)
      BY <1>1
    <2> QED  BY <1>1, <2>1, UnitEnds
  <1>5. words \in Seq(Word) /\ acc.done \in Seq(Seq(Word)) /\ Cut(words, acc.done, low, high)
        /\ from <= last /\ last - Overlap <= from /\ to - from <= ChunkSize + Overlap
        /\ acc.current = SubSeq(units, c, m) /\ c \in 1..(m + 1)
    <2>1. words \in Seq(Word)
      BY UnitTexts, Flattened
    <2> QED  BY <1>1, <2>1 DEF Packed
  <1>6. m > 0 /\ c <= m /\ last < to
    BY <1>1, <1>2, <1>3 DEF Packed
  <1> HIDE DEF to, from, words, m, unit
  <1>7. Cut(words, done1, low1, high1)
    <2>0. Extended(low1, low, n, from) /\ Extended(high1, high, n, to)
      BY DEF Extended
    <2>1. /\ n = Len(acc.done) + 1 /\ done1 = Append(acc.done, SubSeq(words, from + 1, to))
      OBVIOUS
    <2> HIDE DEF low1, high1, done1, n
    <2>2. last = LastOf(high, Len(acc.done))
      OBVIOUS
    <2> HIDE DEF last
    <2>3. from <= LastOf(high, Len(acc.done)) /\ LastOf(high, Len(acc.done)) - Overlap <= from
          /\ LastOf(high, Len(acc.done)) < to
      BY <1>5, <1>6, <2>2
    <2>4. from \in Nat /\ to \in Nat /\ to <= Len(words) /\ to - from <= ChunkSize + Overlap
      BY <1>2, <1>4, <1>5
    <2>5. words \in Seq(Word) /\ acc.done \in Seq(Seq(Word)) /\ Cut(words, acc.done, low, high)
      BY <1>5
    <2> QED  BY ONLY <2>0, <2>1, <2>3, <2>4, <2>5, CutMore
  <1> HIDE DEF last
  <1>8. done1 \in Seq(Seq(Word)) /\ Len(done1) = n /\ n \in Nat \ {0}
    <2> DEFINE V == Seq(Word)  text == SubSeq(words, from + 1, to)  d == acc.done
    <2>1. text \in V
      <3>1. from + 1 \in Int /\ from + 1 >= 1 /\ to \in Int
        BY <1>2, <1>4
      <3> QED  BY <1>4, <1>5, <3>1, PartOf
    <2>2. d \in Seq(V)
      BY <1>5
    <2> HIDE DEF V, text, d
    <2>3. Append(d, text) \in Seq(V) /\ Len(Append(d, text)) = Len(d) + 1 /\ Len(d) \in Nat
      BY <2>1, <2>2, AppendProperties
    <2> QED  BY <2>3 DEF V, text, d
  <1>9. LastOf(high1, Len(done1)) = to
    <2>1. n \in 1..n /\ n # 0
      BY <1>8
    <2>2. high1[n] = to
      BY <2>1
    <2> HIDE DEF high1, done1, n
    <2> QED  BY <1>8, <2>1, <2>2 DEF LastOf
  <1>10. next.done = done1 /\ next.current = Append(OverlapTail(acc.current), unit)
    BY <1>2 DEF Pack, unit
  <1>11. Len(acc.current) = m - c + 1 /\ m \in Nat /\ m <= Len(units) /\ c \in Nat \ {0} /\ c <= m + 1
    <2>1. m \in Nat /\ m <= Len(units) /\ c \in Nat \ {0} /\ c <= m + 1
      BY <1>1, <1>5
    <2> QED  BY <1>5, <2>1, PartIs
  <1>12. PICK k \in 1..(Len(acc.current) + 1) :
             /\ OverlapTail(acc.current) = SubSeq(acc.current, k, Len(acc.current))
             /\ Size(SubSeq(acc.current, k, Len(acc.current))) <= Overlap
    BY OverlapPart
  <1> DEFINE c1 == c + k - 1  part == SubSeq(units, c1, m)
  <1>13. c1 \in Nat \ {0} /\ c1 <= m + 1 /\ k \in 1..(m - c + 2)
    BY <1>11
  <1>14. SubSeq(acc.current, k, Len(acc.current)) = part
    BY <1>5, <1>11, <1>13, PartOfPart
  <1> HIDE DEF c1, low1, high1, done1, next, n
  <1>15. OverlapTail(acc.current) = part /\ Size(part) <= Overlap
    BY <1>12, <1>14
  <1>16. Append(part, unit) = SubSeq(units, c1, i)
    <2>1. c1 <= i /\ m = i - 1
      BY <1>1, <1>13
    <2>2. Append(SubSeq(units, c1, i - 1), units[i]) = SubSeq(units, c1, i)
      BY <1>13, <2>1, PartMore
    <2> QED  BY <2>1, <2>2 DEF unit
  <1> DEFINE start == End(units, c1 - 1)
  <1>17. start \in Nat /\ start <= to /\ to - start <= Overlap
    <2>1. c1 - 1 \in 0..Len(units) /\ m \in 0..Len(units) /\ c1 - 1 <= m
          /\ c1 \in 1..(Len(units) + 1) /\ m \in (c1 - 1)..Len(units)
      BY <1>1, <1>11, <1>13
    <2>2. Size(part) = to - start
      BY <2>1, UnitEnds DEF to
    <2>3. start \in Nat /\ start <= to
      BY <2>1, UnitEnds DEF to
    <2> QED  BY <1>15, <2>2, <2>3
  <1> HIDE DEF start, part
  <1>18. /\ next.done \in Seq(Seq(Word)) /\ Cut(words, next.done, low1, high1)
         /\ c1 \in 1..(i + 1) /\ next.current = SubSeq(units, c1, i)
    <2>1. c1 \in 1..(i + 1)
      BY <1>1, <1>13
    <2> QED  BY <1>7, <1>8, <1>10, <1>15, <1>16, <2>1
  <1>19. /\ start <= LastOf(high1, Len(next.done)) /\ LastOf(high1, Len(next.done)) - Overlap <= start
         /\ i > 0 /\ c1 <= i /\ LastOf(high1, Len(next.done)) < End(units, i)
         /\ End(units, i) - start <= ChunkSize + Overlap
    <2>1. LastOf(high1, Len(next.done)) = to
      BY <1>9, <1>10
    <2>2. i > 0 /\ c1 <= i
      BY <1>1, <1>11, <1>13
    <2>3. Overlap \in Nat /\ ChunkSize \in Nat
      BY SizesAssumption
    <2> QED  BY <1>4, <1>17, <2>1, <2>2, <2>3
  <1>20. Packed(units, next, i, low1, high1, c1)
    <2>1. i # 0
      BY <1>19
    <2> QED  BY <1>18, <1>19, <2>1 DEF Packed, words, start
  <1> QED  BY <1>20 DEF next, unit

\* One unit more, when there is room for it.
LEMMA PackOn ==
    ASSUME NEW units \in Seq(Unit), NEW i \in 1..Len(units), NEW acc, NEW low, NEW high, NEW c,
           Packed(units, acc, i - 1, low, high, c), acc.current \in Texts, ~Full(acc, units[i]),
           acc = [done |-> acc.done, current |-> acc.current]
    PROVE  Packed(units, Pack(acc, units[i]), i, low, high, c)
  <1> DEFINE m == i - 1  words == FlattenSeq(units)  unit == units[i]
             from == End(units, c - 1)  to == End(units, m)  last == LastOf(high, Len(acc.done))
             next == Pack(acc, unit)
  <1>1. Packed(units, acc, m, low, high, c) /\ m \in 0..Len(units) /\ i \in 0..Len(units)
        /\ Len(units) \in Nat /\ m + 1 = i
    OBVIOUS
  <1>2. /\ from \in Nat /\ last \in Nat /\ from <= to /\ Size(acc.current) = to - from
        /\ acc.current # <<>> => m > 0 /\ c <= m
        /\ m > 0 => acc.current # <<>>
    BY <1>1, PackedFacts
  <1>3. /\ to \in Nat /\ End(units, i) = to + Len(unit) /\ Len(unit) \in 1..ChunkSize
        /\ End(units, i) \in Nat /\ End(units, 0) = 0
    BY <1>1, UnitEnds
  <1>4. /\ acc.done \in Seq(Seq(Word)) /\ Cut(words, acc.done, low, high)
        /\ from <= last /\ last - Overlap <= from
        /\ acc.current = SubSeq(units, c, m) /\ c \in 1..(m + 1)
        /\ (m > 0 => last < to) /\ (m = 0 => acc.done = <<>>)
    BY <1>1 DEF Packed
  <1>5. next.done = acc.done /\ next.current = Append(acc.current, unit)
    <2>1. next = [acc EXCEPT !.current = Append(acc.current, unit)]
      BY DEF Pack
    <2> HIDE DEF next, unit
    <2>2. next = [[done |-> acc.done, current |-> acc.current] EXCEPT !.current = Append(acc.current, unit)]
      BY <2>1
    <2> QED  BY <2>2
  <1> HIDE DEF to, from, words, m, last, unit, next
  <1>6. Append(acc.current, unit) = SubSeq(units, c, i)
    <2>1. c <= i /\ m = i - 1 /\ c \in Nat \ {0}
      BY <1>1, <1>4
    <2>2. Append(SubSeq(units, c, i - 1), units[i]) = SubSeq(units, c, i)
      BY <2>1, PartMore
    <2> QED  BY <1>4, <2>1, <2>2 DEF unit
  <1>7. Overlap \in Nat /\ ChunkSize \in Nat
    BY SizesAssumption
  <1>8. last < End(units, i) /\ End(units, i) - from <= ChunkSize + Overlap
    <2>1. CASE m > 0
      <3>1. Size(acc.current) + Len(unit) <= ChunkSize
        <4>1. ~(Size(acc.current) + Len(unit) > ChunkSize)
          BY <1>2, <2>1 DEF Full, unit
        <4> QED  BY <1>2, <1>3, <1>7, <4>1
      <3>2. to - from + Len(unit) <= ChunkSize
        BY <1>2, <3>1
      <3>3. last < to
        BY <1>4, <2>1
      <3>4. Len(unit) \in Nat /\ Len(unit) > 0
        BY <1>3, <1>7
      <3> QED  BY <1>2, <1>3, <1>7, <3>2, <3>3, <3>4
    <2>2. CASE m = 0
      <3>1. last = 0
        <4>1. Len(<<>>) = 0
          OBVIOUS
        <4> QED  BY <1>4, <2>2, <4>1 DEF LastOf, last
      <3>2. c - 1 = 0 /\ from = 0 /\ to = 0
        <4>1. c - 1 = 0
          BY <1>4, <2>2
        <4> QED  BY <1>3, <2>2, <4>1 DEF from, to
      <3> QED  BY <1>3, <1>7, <3>1, <3>2
    <2> QED  BY <1>1, <2>1, <2>2
  <1>9. c \in 1..(i + 1) /\ i > 0 /\ c <= i /\ i # 0
    BY <1>1, <1>4
  <1>10. Packed(units, next, i, low, high, c)
    BY <1>4, <1>5, <1>6, <1>8, <1>9 DEF Packed, words, from, last
  <1> QED  BY <1>10 DEF next, unit

\* The chunks that a section is packed into, cut from its words to the last.
CutUp(words, texts) ==
    \E low, high : Cut(words, texts, low, high) /\ LastOf(high, Len(texts)) = Len(words)

\* Packed, the units of a section are cut into chunks (_pack_units).
LEMMA PackCut ==
    ASSUME NEW units \in Seq(Unit), units # <<>>
    PROVE  /\ PackUnits(units) \in Seq(Seq(Word)) /\ PackUnits(units) # <<>>
           /\ CutUp(FlattenSeq(units), PackUnits(units))
  <1> DEFINE n == Len(units)  words == FlattenSeq(units)
             IsPacked(acc, i) == \E low, high, c : Packed(units, acc, i, low, high, c)
  <1>1. units \in Texts /\ n \in Nat \ {0} /\ n \in 0..n
    <2>1. units \in Texts
      BY UnitTexts DEF Texts
    <2>2. n \in Nat /\ n # 0
      OBVIOUS
    <2> QED  BY <2>1, <2>2
  <1>2. PICK f : IsPacking(f, units)
    BY <1>1, Packing
  <1>3. /\ f \in [0..n -> [done : Texts, current : Texts]]
        /\ f[0] = [done |-> <<>>, current |-> <<>>]
        /\ \A i \in 1..n : f[i] = Pack(f[i - 1], units[i])
        /\ PackUnits(units) = Append(f[n].done, FlattenSeq(f[n].current))
    BY <1>2 DEF IsPacking
  <1> DEFINE P == {i \in 0..n : IsPacked(f[i], i)}
  <1>4. 0 \in P
    <2>1. Packed(units, f[0], 0, <<>>, <<>>, 1)
      BY <1>3, PackStart
    <2> QED  BY <1>1, <2>1
  <1>5. ASSUME NEW i \in 1..n, i - 1 \in P PROVE i \in P
    <2> DEFINE m == i - 1
    <2>1. i \in 0..n /\ m \in 0..n /\ f[i] = Pack(f[m], units[i]) /\ i \in 1..Len(units)
      BY <1>1, <1>3
    <2>2. IsPacked(f[m], m)
      BY <1>5
    <2>3. PICK low, high, c : Packed(units, f[m], i - 1, low, high, c)
      BY <2>2
    <2>4. f[m] \in [done : Texts, current : Texts]
      BY <1>3, <2>1
    <2> HIDE DEF m, n
    <2>5. f[m].current \in Texts /\ f[m] = [done |-> f[m].done, current |-> f[m].current]
      BY <2>4
    <2>6. IsPacked(Pack(f[m], units[i]), i)
      <3>1. CASE Full(f[m], units[i])
        BY <2>1, <2>3, <2>5, <3>1, PackFull
      <3>2. CASE ~Full(f[m], units[i])
        BY <2>1, <2>3, <2>5, <3>2, PackOn
      <3> QED  BY <3>1, <3>2
    <2> QED  BY <2>1, <2>6
  <1>6. n \in P
    <2> HIDE DEF n, P
    <2>1. P \in SUBSET (0..n)
      BY DEF P
    <2>2. P = 0..n
      BY <1>1, <1>4, <1>5, <2>1, Induction
    <2> QED  BY <1>1, <2>2
  <1>7. PICK low, high, c : Packed(units, f[n], n, low, high, c)
    BY <1>6
  <1>8. f[n].current \in Texts /\ f[n].done \in Texts
    <2>1. f[n] \in [done : Texts, current : Texts]
      BY <1>1, <1>3
    <2> HIDE DEF n
    <2> QED  BY <2>1
  <1> DEFINE acc == f[n]  from == End(units, c - 1)  to == End(units, n)
             last == LastOf(high, Len(acc.done))  texts == PackUnits(units)
             k == Len(acc.done) + 1
             low1 == [j \in 1..k |-> IF j = k THEN from ELSE low[j]]
             high1 == [j \in 1..k |-> IF j = k THEN to ELSE high[j]]
  <1>9. /\ from \in Nat /\ last \in Nat /\ from <= to
        /\ FlattenSeq(acc.current) = SubSeq(words, from + 1, to)
    BY <1>1, <1>7, <1>8, PackedFacts
  <1>10. /\ Cut(words, acc.done, low, high)
         /\ from <= last /\ last - Overlap <= from /\ last < to /\ to - from <= ChunkSize + Overlap
    <2>1. n # 0 /\ n > 0
      BY <1>1
    <2> QED  BY <1>7, <2>1 DEF Packed
  <1>11. to = Len(words) /\ words \in Seq(Word) /\ to \in Nat
    <2>1. words \in Seq(Word)
      BY <1>1, Flattened DEF Texts
    <2> QED  BY <1>1, <2>1, UnitEnds
  <1>12. texts = Append(acc.done, SubSeq(words, from + 1, to))
    BY <1>3, <1>9
  <1>13. texts \in Seq(Seq(Word)) /\ Len(texts) = k /\ k \in Nat \ {0}
    <2> DEFINE V == Seq(Word)  text == SubSeq(words, from + 1, to)  d == acc.done
    <2>1. text \in V
      <3>1. from + 1 \in Int /\ from + 1 >= 1 /\ to \in Int /\ to <= Len(words)
        BY <1>9, <1>11
      <3> HIDE DEF from, to, words
      <3> QED  BY <1>11, <3>1, PartOf
    <2>2. d \in Seq(V) /\ texts = Append(d, text) /\ k = Len(d) + 1
      BY <1>8, <1>12 DEF Texts
    <2> HIDE DEF V, text, d, texts, k
    <2>3. Append(d, text) \in Seq(V) /\ Len(Append(d, text)) = Len(d) + 1 /\ Len(d) \in Nat
      BY <2>1, <2>2, AppendProperties
    <2> QED  BY <2>2, <2>3 DEF V
  <1>14. Extended(low1, low, k, from) /\ Extended(high1, high, k, to)
    BY DEF Extended
  <1>15. high1[k] = to
    BY <1>13
  <1> HIDE DEF low1, high1, texts
  <1>16. k = Len(acc.done) + 1
    OBVIOUS
  <1>17. acc.done \in Seq(Seq(Word))
    BY <1>8 DEF Texts
  <1> HIDE DEF acc, from, to, words, n, k
  <1>18. /\ from <= LastOf(high, Len(acc.done)) /\ LastOf(high, Len(acc.done)) - Overlap <= from
         /\ LastOf(high, Len(acc.done)) < to
    BY <1>10
  <1> HIDE DEF last
  <1>19. Cut(words, texts, low1, high1)
    <2>1. /\ from \in Nat /\ to \in Nat /\ to <= Len(words) /\ to - from <= ChunkSize + Overlap
      BY <1>9, <1>10, <1>11
    <2>2. words \in Seq(Word) /\ Cut(words, acc.done, low, high)
      BY <1>10, <1>11
    <2> QED  BY ONLY <1>12, <1>14, <1>16, <1>17, <1>18, <2>1, <2>2, CutMore
  <1>20. LastOf(high1, Len(texts)) = Len(words)
    BY <1>11, <1>13, <1>15 DEF LastOf
  <1>21. CutUp(words, texts)
    BY <1>19, <1>20 DEF CutUp
  <1>22. texts # <<>>
    <2>1. Len(<<>>) = 0
      OBVIOUS
    <2> QED  BY <1>13, <2>1
  <1> QED  BY <1>13, <1>21, <1>22 DEF texts, words

-----------------------------------------------------------------------------
(* What a section's chunks hold, as the places of their words. *)

PlaceIn(words, w) == CHOOSE i \in DOMAIN words : words[i] = w
PlacesIn(words, text) == [i \in DOMAIN text |-> PlaceIn(words, text[i])]

\* What goes on after from, and what was merged of two such texts.
GoesOn(from, t) == /\ t # <<>>
                   /\ \A i \in 1..(Len(t) - 1) : t[i + 1] = t[i] + 1
                   /\ from - Overlap < Head(t) /\ Head(t) <= from + 1
                   /\ Last(t) > from
MergedOf(from, t) == \E k \in 1..(Len(t) - 1) : /\ GoesOn(from, SubSeq(t, 1, k))
                                                /\ GoesOn(t[k], SubSeq(t, k + 1, Len(t)))

\* The places from lo + 1 to hi.
Run(lo, hi) == [i \in 1..(hi - lo) |-> lo + i]

\* A run is a list of places.
LEMMA RunList ==
    ASSUME NEW lo \in Nat, NEW hi \in Nat, lo < hi
    PROVE  /\ Run(lo, hi) \in Seq(Nat) /\ Len(Run(lo, hi)) = hi - lo
           /\ \A i \in 1..(hi - lo) : Run(lo, hi)[i] = lo + i
           /\ Run(lo, hi) # <<>> /\ Head(Run(lo, hi)) = lo + 1 /\ Last(Run(lo, hi)) = hi
  <1> DEFINE t == Run(lo, hi)  n == hi - lo
  <1>1. n \in Nat \ {0} /\ lo + n = hi
    OBVIOUS
  <1>2. t = [i \in 1..n |-> lo + i]
    BY DEF Run
  <1> HIDE DEF t, n
  <1>3. t \in Seq(Nat) /\ Len(t) = n /\ \A i \in 1..n : t[i] = lo + i
    <2>1. \A i \in 1..n : lo + i \in Nat
      BY <1>1
    <2> QED  BY <1>1, <1>2, <2>1
  <1>4. t # <<>>
    <2>1. Len(<<>>) = 0
      OBVIOUS
    <2> QED  BY <1>1, <1>3, <2>1
  <1>5. Head(t) = t[1] /\ Last(t) = t[Len(t)]
    BY <1>3, <1>4 DEF Last
  <1>6. t[1] = lo + 1 /\ t[n] = hi
    BY <1>1, <1>3
  <1> QED  BY <1>3, <1>4, <1>5, <1>6 DEF t, n

\* A run goes on after any place that it repeats no more than the overlap of.
LEMMA RunGoesOn ==
    ASSUME NEW lo \in Nat, NEW hi \in Nat, NEW from \in Nat,
           lo <= from, from - Overlap <= lo, from < hi
    PROVE  GoesOn(from, Run(lo, hi))
  <1> DEFINE t == Run(lo, hi)  n == hi - lo
  <1>1. n \in Nat \ {0} /\ lo < hi
    OBVIOUS
  <1>2. /\ Len(t) = n /\ \A i \in 1..n : t[i] = lo + i
        /\ t # <<>> /\ Head(t) = lo + 1 /\ Last(t) = hi
    BY <1>1, RunList
  <1> HIDE DEF t, n
  <1>3. \A i \in 1..(Len(t) - 1) : t[i + 1] = t[i] + 1
    <2> SUFFICES ASSUME NEW i \in 1..(n - 1) PROVE t[i + 1] = t[i] + 1
      BY <1>2
    <2>1. PICK j : j = i + 1
      OBVIOUS
    <2>2. i \in 1..n /\ j \in 1..n
      BY <1>1, <2>1
    <2>3. t[i] = lo + i /\ t[j] = lo + j
      BY <1>2, <2>2
    <2>4. lo + j = (lo + i) + 1
      BY <2>1
    <2> QED  BY <2>1, <2>3, <2>4
  <1>4. from - Overlap < lo + 1 /\ lo + 1 <= from + 1 /\ hi > from
    BY SizesAssumption
  <1>5. GoesOn(from, t)
    BY <1>2, <1>3, <1>4 DEF GoesOn
  <1> QED  BY <1>5 DEF t

\* The places of a part of the words are a run.
LEMMA PlacesRun ==
    ASSUME NEW words \in Seq(Word), IsInjective(words),
           NEW lo \in Nat, NEW hi \in Nat, lo < hi, hi <= Len(words)
    PROVE  PlacesIn(words, SubSeq(words, lo + 1, hi)) = Run(lo, hi)
  <1> DEFINE a == lo + 1  text == SubSeq(words, a, hi)  n == hi - lo
  <1>1. a \in Nat \ {0} /\ a <= hi + 1 /\ hi - a + 1 = n /\ n \in Nat /\ DOMAIN words = 1..Len(words)
    OBVIOUS
  <1> HIDE DEF a
  <1>2. text \in Seq(Word) /\ Len(text) = n /\ \A k \in 1..n : text[k] = words[a + k - 1]
    BY <1>1, PartIs
  <1> HIDE DEF text
  <1>3. DOMAIN text = 1..n
    BY <1>2
  <1>4. ASSUME NEW k \in 1..n PROVE PlaceIn(words, text[k]) = lo + k
    <2>1. PICK x : x = lo + k
      OBVIOUS
    <2>2. x \in DOMAIN words /\ a + k - 1 = x
      BY <1>1, <2>1 DEF a
    <2>3. text[k] = words[x]
      BY <1>2, <2>2
    <2>4. \A y \in DOMAIN words : words[y] = words[x] => y = x
      BY <2>2 DEF IsInjective
    <2>5. (CHOOSE y \in DOMAIN words : words[y] = words[x]) = x
      BY <2>2, <2>4
    <2> QED  BY <2>1, <2>3, <2>5 DEF PlaceIn
  <1>5. PlacesIn(words, text) = [k \in 1..n |-> lo + k]
    BY <1>3, <1>4 DEF PlacesIn
  <1> QED  BY <1>5 DEF text, a, Run

\* NothingLost, with its parts named.
Faithful(words, texts) ==
    LET text == [k \in DOMAIN texts |-> PlacesIn(words, texts[k])]
        Until(k) == IF k = 1 THEN 0 ELSE Last(text[k - 1])
    IN  /\ texts # <<>> /\ Last(Last(text)) = Len(words)
        /\ \A k \in DOMAIN text : \/ GoesOn(Until(k), text[k])
                                  \/ k = Len(text) /\ MergedOf(Until(k), text[k])

\* What NothingLost says, with its parts named.
LEMMA FaithfulIs ==
    ASSUME NEW words, NEW texts, Faithful(words, texts)
    PROVE  NothingLost(words, texts)
  BY DEF NothingLost, Faithful, GoesOn, MergedOf, PlacesIn, PlaceIn

\* Every word is in one of the texts.
Covered(words, texts) == \A x \in 1..Len(words) :
                             \E k \in 1..Len(texts) : \E j \in 1..Len(texts[k]) : texts[k][j] = words[x]

\* A cut to the end has every word.
LEMMA CutCovers ==
    ASSUME NEW words \in Seq(Word), NEW texts \in Seq(Seq(Word)), NEW low, NEW high,
           Cut(words, texts, low, high), texts # <<>>, LastOf(high, Len(texts)) = Len(words)
    PROVE  Covered(words, texts)
  <1> DEFINE n == Len(texts)  V == Seq(Word)
  <1>1. n \in Nat \ {0}
    <2>1. texts \in Seq(V)
      OBVIOUS
    <2> HIDE DEF V
    <2> QED  BY <2>1
  <1> HIDE DEF n
  <1>2. high[n] = Len(words) /\ \A k \in 1..n : high[k] \in Nat
    BY <1>1 DEF LastOf, Cut, n
  <1> SUFFICES ASSUME NEW x \in 1..Len(words)
               PROVE  \E k \in 1..n : \E j \in 1..Len(texts[k]) : texts[k][j] = words[x]
    BY DEF Covered, n
  <1> DEFINE S == {k \in 1..n : x <= high[k]}
  <1>3. PICK k \in S : \A j \in S : k <= j
    <2>1. n \in S
      BY <1>1, <1>2
    <2>2. S \in SUBSET Nat
      OBVIOUS
    <2> HIDE DEF S
    <2> QED  BY <2>1, <2>2, SmallestNumber
  <1>4. /\ low[k] \in Nat /\ high[k] \in Nat /\ high[k] <= Len(words) /\ low[k] <= Before(high, k)
        /\ Before(high, k) < high[k] /\ texts[k] = SubSeq(words, low[k] + 1, high[k])
    BY DEF Cut, n
  <1>5. Before(high, k) \in Nat /\ Before(high, k) < x
    <2>1. CASE k = 1
      BY <2>1 DEF Before
    <2>2. CASE k # 1
      <3>1. PICK j : j = k - 1
        OBVIOUS
      <3>2. j \in 1..n /\ ~(k <= j)
        <4>1. k \in 1..n
          OBVIOUS
        <4> HIDE DEF S
        <4> QED  BY <1>1, <2>2, <3>1, <4>1
      <3>3. ~(x <= high[j]) /\ high[j] \in Nat
        BY <1>2, <1>3, <3>2
      <3> QED  BY <2>2, <3>1, <3>3 DEF Before
    <2> QED  BY <2>1, <2>2
  <1> DEFINE lo == low[k]  hi == high[k]  a == lo + 1  j == x - lo
  <1>6. a \in Nat \ {0} /\ hi \in Nat /\ hi <= Len(words) /\ a <= hi + 1 /\ j \in 1..(hi - a + 1)
        /\ a + j - 1 = x
    <2>1. x <= hi /\ x \in Nat /\ lo \in Nat /\ hi \in Nat /\ hi <= Len(words) /\ lo < x
      BY <1>4, <1>5
    <2> HIDE DEF hi, lo
    <2> QED  BY <2>1
  <1>7. texts[k] = SubSeq(words, a, hi)
    BY <1>4
  <1> HIDE DEF a, hi, j
  <1>8. Len(texts[k]) = hi - a + 1 /\ texts[k][j] = words[a + j - 1]
    BY <1>6, <1>7, PartIs
  <1> QED  BY <1>6, <1>8

\* Two texts, joined and taken apart again.
LEMMA ConcatParts ==
    ASSUME NEW T, NEW s \in Seq(T), NEW t \in Seq(T), NEW u, u = s \o t
    PROVE  SubSeq(u, 1, Len(s)) = s /\ SubSeq(u, Len(s) + 1, Len(u)) = t
  <1> DEFINE m == Len(s)  n == Len(t)  a == m + 1  b == m + n
  <1>1. m \in Nat /\ n \in Nat /\ a \in Nat \ {0} /\ b \in Nat /\ a <= b + 1 /\ b - a + 1 = n
    BY LenProperties
  <1>2. u \in Seq(T) /\ Len(u) = b /\ \A i \in 1..b : u[i] = IF i <= m THEN s[i] ELSE t[i - m]
    BY ConcatProperties
  <1> HIDE DEF a, b
  <1>3. m <= b /\ 1 <= m + 1 /\ m - 1 + 1 = m
    BY <1>1 DEF b
  <1>4. SubSeq(u, 1, m) = s
    <2> DEFINE v == SubSeq(u, 1, m)
    <2>1. v \in Seq(T) /\ Len(v) = m - 1 + 1 /\ \A k \in 1..(m - 1 + 1) : v[k] = u[1 + k - 1]
      <3>1. 1 \in Nat \ {0} /\ m \in Nat /\ m <= Len(u)
        BY <1>1, <1>2, <1>3
      <3> HIDE DEF m
      <3> QED  BY <1>2, <1>3, <3>1, PartIs
    <2>2. ASSUME NEW k \in 1..m PROVE v[k] = s[k]
      <3>1. k \in 1..b /\ 1 + k - 1 = k /\ k <= m /\ k \in 1..(m - 1 + 1)
        BY <1>1, <1>3
      <3> HIDE DEF v, m
      <3> QED  BY <1>2, <2>1, <3>1
    <2> HIDE DEF v
    <2> QED  BY <1>3, <2>1, <2>2, SeqEqual DEF v
  <1>5. SubSeq(u, a, b) = t
    <2> DEFINE v == SubSeq(u, a, b)
    <2>1. v \in Seq(T) /\ Len(v) = n /\ \A k \in 1..n : v[k] = u[a + k - 1]
      <3> HIDE DEF n
      <3> QED  BY <1>1, <1>2, PartIs
    <2>2. ASSUME NEW k \in 1..n PROVE v[k] = t[k]
      <3>1. PICK j : j = a + k - 1
        OBVIOUS
      <3>2. j \in 1..b /\ ~(j <= m) /\ j - m = k
        BY <1>1, <3>1 DEF a, b
      <3> HIDE DEF v, m, n
      <3> QED  BY <1>2, <2>1, <3>1, <3>2
    <2> HIDE DEF v
    <2> QED  BY <2>1, <2>2, SeqEqual DEF v
  <1> QED  BY <1>2, <1>4, <1>5 DEF a

\* Two texts that go on, merged.
LEMMA MergedGoesOn ==
    ASSUME NEW s \in Seq(Nat), NEW t \in Seq(Nat), NEW from,
           GoesOn(from, s), GoesOn(Last(s), t), NEW u, u = s \o t
    PROVE  MergedOf(from, u) /\ u # <<>> /\ Last(u) = Last(t) /\ Len(u) = Len(s) + Len(t)
  <1> DEFINE m == Len(s)  n == Len(t)  k == m + 1
  <1>1. s # <<>> /\ t # <<>> /\ m \in Nat \ {0} /\ n \in Nat \ {0}
    <2>1. s # <<>> /\ t # <<>>
      BY DEF GoesOn
    <2> QED  BY <2>1, EmptySeq
  <1>2. u \in Seq(Nat) /\ Len(u) = m + n /\ \A i \in 1..(m + n) : u[i] = IF i <= m THEN s[i] ELSE t[i - m]
    BY ConcatProperties
  <1>3. SubSeq(u, 1, m) = s /\ SubSeq(u, m + 1, Len(u)) = t
    BY ConcatParts
  <1>4. m \in 1..(m + n) /\ m \in 1..(m + n - 1) /\ m + n \in 1..(m + n) /\ ~(m + n <= m) /\ m + n - m = n
    BY <1>1
  <1>5. u[m] = Last(s) /\ u[m + n] = Last(t)
    <2>1. u[m] = s[m] /\ u[m + n] = t[n]
      BY <1>2, <1>4
    <2> QED  BY <1>1, <2>1 DEF Last
  <1> HIDE DEF m, n
  <1>6. MergedOf(from, u)
    <2>1. GoesOn(from, SubSeq(u, 1, m)) /\ GoesOn(u[m], SubSeq(u, m + 1, Len(u)))
      BY <1>3, <1>5
    <2>2. m \in 1..(Len(u) - 1)
      BY <1>2, <1>4
    <2> QED  BY <2>1, <2>2 DEF MergedOf
  <1>7. u # <<>> /\ Last(u) = u[m + n]
    <2>1. u # <<>>
      BY <1>1, <1>2, EmptySeq
    <2> QED  BY <1>2, <2>1 DEF Last
  <1> QED  BY <1>2, <1>5, <1>6, <1>7 DEF m, n

\* The places of joined texts.
LEMMA JoinedPlaces ==
    ASSUME NEW words, NEW s \in Seq(Word), NEW t \in Seq(Word),
           PlacesIn(words, s) \in Seq(Nat), PlacesIn(words, t) \in Seq(Nat)
    PROVE  PlacesIn(words, s \o t) = PlacesIn(words, s) \o PlacesIn(words, t)
  <1> DEFINE u == s \o t  m == Len(s)  n == Len(t)
             x == PlacesIn(words, s)  y == PlacesIn(words, t)  z == PlacesIn(words, u)  w == x \o y
  <1>1. /\ u \in Seq(Word) /\ Len(u) = m + n /\ m \in Nat /\ n \in Nat
        /\ \A i \in 1..(m + n) : u[i] = IF i <= m THEN s[i] ELSE t[i - m]
    BY ConcatProperties, LenProperties
  <1>2. DOMAIN u = 1..(m + n) /\ DOMAIN s = 1..m /\ DOMAIN t = 1..n
    <2>1. DOMAIN u = 1..Len(u)
      BY <1>1, LenProperties
    <2> QED  BY <1>1, <2>1, LenProperties
  <1> HIDE DEF u, m, n
  <1>3. /\ DOMAIN x = 1..m /\ \A i \in 1..m : x[i] = PlaceIn(words, s[i])
        /\ DOMAIN y = 1..n /\ \A i \in 1..n : y[i] = PlaceIn(words, t[i])
        /\ DOMAIN z = 1..(m + n) /\ \A i \in 1..(m + n) : z[i] = PlaceIn(words, u[i])
        /\ z = [i \in 1..(m + n) |-> z[i]]
    BY <1>2 DEF PlacesIn
  <1>4. x \in Seq(Nat) /\ y \in Seq(Nat)
    OBVIOUS
  <1> HIDE DEF x, y, z
  <1>5. Len(x) = m /\ Len(y) = n
    BY <1>1, <1>3, <1>4
  <1>6. w \in Seq(Nat) /\ Len(w) = m + n /\ \A i \in 1..(m + n) : w[i] = IF i <= m THEN x[i] ELSE y[i - m]
    BY <1>4, <1>5, ConcatProperties
  <1> HIDE DEF w
  <1>7. ASSUME NEW i \in 1..(m + n) PROVE z[i] = w[i]
    <2>1. CASE i <= m
      <3>1. i \in 1..m
        BY <1>1, <2>1
      <3> QED  BY <1>1, <1>3, <1>6, <2>1, <3>1
    <2>2. CASE ~(i <= m)
      <3>1. PICK j : j = i - m
        OBVIOUS
      <3>2. j \in 1..n
        BY <1>1, <2>2, <3>1
      <3> QED  BY <1>1, <1>3, <1>6, <2>2, <3>1, <3>2
    <2> QED  BY <2>1, <2>2
  <1>8. m + n \in Nat /\ DOMAIN w = 1..(m + n)
    BY <1>1, <1>6, LenProperties
  <1>9. w = [i \in 1..(m + n) |-> w[i]]
    BY <1>6, <1>8
  <1>10. z = w
    <2> DEFINE d == 1..(m + n)
    <2>1. z = [i \in d |-> z[i]] /\ w = [i \in d |-> w[i]] /\ \A i \in d : z[i] = w[i]
      BY <1>3, <1>7, <1>9
    <2> HIDE DEF d
    <2> QED  BY <2>1
  <1> QED  BY <1>10 DEF x, y, z, w, u

\* The texts of a cut, as places.
LEMMA CutPlaces ==
    ASSUME NEW words \in Seq(Word), IsInjective(words), NEW texts \in Seq(Seq(Word)),
           NEW low, NEW high, Cut(words, texts, low, high), NEW k \in 1..Len(texts)
    PROVE  /\ low[k] \in Nat /\ high[k] \in Nat /\ low[k] < high[k]
           /\ Before(high, k) \in Nat /\ Before(high, k) < high[k]
           /\ PlacesIn(words, texts[k]) = Run(low[k], high[k])
           /\ GoesOn(Before(high, k), PlacesIn(words, texts[k]))
           /\ PlacesIn(words, texts[k]) \in Seq(Nat) /\ Last(PlacesIn(words, texts[k])) = high[k]
           /\ texts[k] \in Seq(Word) /\ Len(texts[k]) = high[k] - low[k]
  <1> DEFINE lo == low[k]  hi == high[k]  from == Before(high, k)
  <1>1. /\ lo \in Nat /\ hi \in Nat /\ hi <= Len(words) /\ lo <= from /\ from - Overlap <= lo
        /\ from < hi /\ texts[k] = SubSeq(words, lo + 1, hi)
    BY DEF Cut
  <1>2. from \in Nat
    <2>1. CASE k = 1
      BY <2>1 DEF Before
    <2>2. CASE k # 1
      <3>1. PICK j : j = k - 1
        OBVIOUS
      <3>2. j \in 1..Len(texts)
        <4>1. Len(texts) \in Nat
          BY LenProperties
        <4> QED  BY <2>2, <3>1, <4>1
      <3>3. high[j] \in Nat
        BY <3>2 DEF Cut
      <3> QED  BY <2>2, <3>1, <3>3 DEF Before
    <2> QED  BY <2>1, <2>2
  <1> HIDE DEF lo, hi, from
  <1>3. lo < hi
    BY <1>1, <1>2
  <1>4. PlacesIn(words, texts[k]) = Run(lo, hi)
    BY <1>1, <1>3, PlacesRun
  <1>5. GoesOn(from, Run(lo, hi))
    BY <1>1, <1>2, RunGoesOn
  <1>6. Run(lo, hi) \in Seq(Nat) /\ Last(Run(lo, hi)) = hi
    BY <1>1, <1>3, RunList
  <1>7. texts[k] \in Seq(Word) /\ Len(texts[k]) = hi - lo
    <2> DEFINE a == lo + 1
    <2>1. a \in Nat \ {0} /\ a <= hi + 1 /\ hi - a + 1 = hi - lo
      BY <1>1, <1>3
    <2> HIDE DEF a
    <2> QED  BY <1>1, <2>1, PartIs DEF a
  <1> QED  BY <1>1, <1>2, <1>3, <1>4, <1>5, <1>6, <1>7 DEF lo, hi, from

\* A function over the first numbers is a list.
LEMMA FunctionList ==
    ASSUME NEW T, NEW n \in Nat, NEW f, f = [k \in 1..n |-> f[k]], \A k \in 1..n : f[k] \in T
    PROVE  f \in Seq(T) /\ Len(f) = n
  OBVIOUS

\* Chunks that are cut from the words are faithful to them.
LEMMA CutFaithful ==
    ASSUME NEW words \in Seq(Word), IsInjective(words), NEW texts \in Seq(Seq(Word)), texts # <<>>,
           CutUp(words, texts)
    PROVE  Faithful(words, texts) /\ SizesBounded(texts) /\ Covered(words, texts)
  <1> DEFINE n == Len(texts)  text == [k \in DOMAIN texts |-> PlacesIn(words, texts[k])]
             Until(k) == IF k = 1 THEN 0 ELSE Last(text[k - 1])
  <1>1. n \in Nat \ {0} /\ DOMAIN texts = 1..n
    BY EmptySeq, LenProperties
  <1>2. PICK low, high : Cut(words, texts, low, high) /\ LastOf(high, Len(texts)) = Len(words)
    BY DEF CutUp
  <1>3. ASSUME NEW k \in 1..n
        PROVE  /\ low[k] \in Nat /\ high[k] \in Nat /\ text[k] = PlacesIn(words, texts[k])
               /\ GoesOn(Before(high, k), text[k]) /\ text[k] \in Seq(Nat) /\ Last(text[k]) = high[k]
               /\ Len(texts[k]) = high[k] - low[k] /\ high[k] - low[k] <= ChunkSize + Overlap
    <2>1. text[k] = PlacesIn(words, texts[k])
      BY <1>1
    <2>2. high[k] - low[k] <= ChunkSize + Overlap
      BY <1>2 DEF Cut
    <2> HIDE DEF text
    <2> QED  BY <1>2, <2>1, <2>2, CutPlaces
  <1>4. ASSUME NEW k \in 1..n PROVE Until(k) = Before(high, k)
    <2>1. CASE k # 1
      <3>1. PICK j : j = k - 1
        OBVIOUS
      <3>2. j \in 1..n
        BY <1>1, <2>1, <3>1
      <3>3. Last(text[j]) = high[j]
        BY <1>3, <3>2
      <3> HIDE DEF text
      <3> QED  BY <2>1, <3>1, <3>3 DEF Before
    <2>2. CASE k = 1
      BY <2>2 DEF Before
    <2> QED  BY <2>1, <2>2
  <1>5. Last(Last(text)) = Len(words)
    <2>1. DOMAIN text = 1..n /\ \A k \in 1..n : text[k] \in Seq(Nat)
      BY <1>1, <1>3
    <2>2. text = [k \in 1..n |-> text[k]]
      BY <1>1
    <2> HIDE DEF text
    <2>3. text \in Seq(Seq(Nat)) /\ Len(text) = n
      <3> DEFINE W == Seq(Nat)
      <3>1. \A k \in 1..n : text[k] \in W
        BY <2>1
      <3> HIDE DEF W
      <3>2. text \in Seq(W) /\ Len(text) = n
        BY <1>1, <2>2, <3>1
      <3> QED  BY <3>2 DEF W
    <2>4. Last(text) = text[n]
      BY <1>1, <2>3 DEF Last
    <2>5. high[n] = Len(words)
      BY <1>1, <1>2 DEF LastOf
    <2> QED  BY <1>1, <1>3, <2>4, <2>5
  <1>6. Faithful(words, texts)
    <2>1. DOMAIN text = 1..n
      BY <1>1
    <2>2. \A k \in DOMAIN text : GoesOn(Until(k), text[k])
      BY <1>3, <1>4, <2>1
    <2>3. /\ texts # <<>> /\ Last(Last(text)) = Len(words)
          /\ \A k \in DOMAIN text : \/ GoesOn(Until(k), text[k])
                                    \/ k = Len(text) /\ MergedOf(Until(k), text[k])
      BY <1>5, <2>2
    <2> QED  BY <2>3 DEF Faithful
  <1>7. SizesBounded(texts)
    <2> SUFFICES ASSUME NEW k \in 1..n
                 PROVE  Len(texts[k]) <= ChunkSize + Overlap + (IF k = Len(texts) /\ MinTokens > 0
                                                                THEN MinTokens - 1 ELSE 0)
      BY <1>1 DEF SizesBounded
    <2>1. low[k] \in Nat /\ high[k] \in Nat /\ Len(texts[k]) <= ChunkSize + Overlap
      BY <1>3
    <2>2. Len(texts[k]) \in Nat
      BY <1>3, LenProperties
    <2> QED  BY <2>1, <2>2, SizesAssumption
  <1>8. Covered(words, texts)
    BY <1>2, CutCovers
  <1> QED  BY <1>6, <1>7, <1>8

\* The last text, which is small, merged with the one before.
IsMerge(texts, parts) ==
    /\ Len(parts) > 1 /\ Len(parts[Len(parts)]) < MinTokens
    /\ texts = Append(SubSeq(parts, 1, Len(parts) - 2), parts[Len(parts) - 1] \o parts[Len(parts)])

\* They are after the last two are merged (_merge_tiny_trailing_chunk).
LEMMA MergedFaithful ==
    ASSUME NEW words \in Seq(Word), IsInjective(words), NEW parts \in Seq(Seq(Word)), CutUp(words, parts),
           NEW texts, IsMerge(texts, parts)
    PROVE  Faithful(words, texts) /\ SizesBounded(texts) /\ Covered(words, texts)
  <1> DEFINE V == Seq(Word)  n == Len(parts)  m == n - 1  q == n - 2
             text == [k \in DOMAIN texts |-> PlacesIn(words, texts[k])]
             Until(k) == IF k = 1 THEN 0 ELSE Last(text[k - 1])
  <1>1. /\ n \in Nat /\ n > 1 /\ m \in Nat /\ m >= 1 /\ q \in Nat /\ m = q + 1 /\ n = m + 1
        /\ m \in 1..n /\ n \in 1..n /\ q <= n /\ n = Len(parts) /\ ~(q >= m) /\ n # m
    <2>1. n \in Nat
      BY LenProperties
    <2> HIDE DEF n
    <2>2. n > 1 /\ n = Len(parts)
      BY DEF n, IsMerge
    <2> QED  BY <2>1, <2>2
  <1>2. /\ texts \in Seq(V) /\ Len(texts) = m /\ \A k \in 1..q : texts[k] = parts[k]
        /\ texts[m] = parts[m] \o parts[n] /\ \A k \in 1..n : parts[k] \in V
        /\ texts = Append(SubSeq(parts, 1, q), parts[m] \o parts[n])
    <2>1. parts \in Seq(V) /\ texts = Append(SubSeq(parts, 1, q), parts[m] \o parts[n])
      BY DEF IsMerge
    <2>2. \A k \in 1..n : parts[k] \in V
      <3> HIDE DEF V
      <3> QED  BY <1>1, <2>1, ElementOfSeq
    <2>3. parts[m] \o parts[n] \in V
      <3>1. parts[m] \in V /\ parts[n] \in V
        BY <1>1, <2>2
      <3> HIDE DEF m, n
      <3> QED  BY <3>1, ConcatProperties
    <2> DEFINE d == SubSeq(parts, 1, q)  x == parts[m] \o parts[n]
    <2>4. d \in Seq(V) /\ Len(d) = q /\ \A k \in 1..q : d[k] = parts[k]
      <3>1. q <= Len(parts) /\ 1 <= q + 1 /\ q - 1 + 1 = q /\ 1 \in Nat \ {0} /\ q \in Nat
        <4> HIDE DEF n, m, q
        <4> QED  BY <1>1
      <3> HIDE DEF V, m, n, q
      <3>2. d \in Seq(V) /\ Len(d) = q - 1 + 1 /\ \A k \in 1..(q - 1 + 1) : d[k] = parts[1 + k - 1]
        BY <2>1, <3>1, PartIs
      <3>3. \A k \in 1..q : 1 + k - 1 = k
        BY <3>1
      <3> QED  BY <3>1, <3>2, <3>3
    <2> HIDE DEF d, x, V, n, m, q
    <2>5. /\ Append(d, x) \in Seq(V) /\ Len(Append(d, x)) = Len(d) + 1 /\ Append(d, x)[Len(d) + 1] = x
          /\ \A k \in 1..Len(d) : Append(d, x)[k] = d[k]
      <3>1. x \in V
        BY <2>3 DEF x
      <3> QED  BY <2>4, <3>1, AppendProperties
    <2>6. texts = Append(d, x) /\ texts = Append(SubSeq(parts, 1, q), parts[m] \o parts[n])
      BY <2>1 DEF d, x
    <2>7. texts \in Seq(V) /\ Len(texts) = m /\ (\A k \in 1..q : texts[k] = parts[k]) /\ texts[m] = x
      BY <1>1, <2>4, <2>5, <2>6
    <2> QED  BY <2>2, <2>6, <2>7 DEF x
  <1> HIDE DEF m, n, q, V
  <1>a. /\ Len(texts) = m /\ \A k \in 1..q : texts[k] = parts[k]
        /\ texts[m] = parts[m] \o parts[n] /\ n = Len(parts) /\ texts \in Seq(V)
    BY <1>1, <1>2
  <1>b. /\ parts[m] \in Seq(Word) /\ parts[n] \in Seq(Word) /\ \A k \in 1..n : parts[k] \in Seq(Word)
        /\ Len(parts[m]) \in Nat /\ Len(parts[n]) \in Nat
    BY <1>1, <1>2, LenProperties DEF V
  <1>c. /\ Len(texts[m]) = Len(parts[m]) + Len(parts[n])
        /\ \A i \in 1..(Len(parts[m]) + Len(parts[n])) :
                texts[m][i] = IF i <= Len(parts[m]) THEN parts[m][i] ELSE parts[n][i - Len(parts[m])]
    <2> DEFINE x == parts[m]  y == parts[n]  z == x \o y
    <2>1. x \in Seq(Word) /\ y \in Seq(Word)
      BY <1>b
    <2>2. texts[m] = z
      BY <1>a
    <2> HIDE DEF x, y
    <2>3. /\ Len(z) = Len(x) + Len(y)
          /\ \A i \in 1..(Len(x) + Len(y)) : z[i] = IF i <= Len(x) THEN x[i] ELSE y[i - Len(x)]
      BY <2>1, ConcatProperties
    <2> HIDE DEF z
    <2> QED  BY <2>2, <2>3 DEF x, y
  <1>3. PICK low, high : Cut(words, parts, low, high) /\ LastOf(high, n) = Len(words)
    BY <1>1 DEF CutUp
  <1>4. ASSUME NEW k \in 1..n
        PROVE  /\ low[k] \in Nat /\ high[k] \in Nat /\ low[k] < high[k] /\ Before(high, k) \in Nat
               /\ GoesOn(Before(high, k), PlacesIn(words, parts[k]))
               /\ PlacesIn(words, parts[k]) \in Seq(Nat) /\ Last(PlacesIn(words, parts[k])) = high[k]
               /\ Len(parts[k]) = high[k] - low[k] /\ high[k] - low[k] <= ChunkSize + Overlap
    <2>1. k \in 1..Len(parts) /\ Cut(words, parts, low, high)
      BY <1>3, <1>a
    <2>2. high[k] - low[k] <= ChunkSize + Overlap
      BY <2>1 DEF Cut
    <2> QED  BY <2>1, <2>2, CutPlaces
  <1> DEFINE s == PlacesIn(words, parts[m])  t == PlacesIn(words, parts[n])  u == PlacesIn(words, texts[m])
  <1>5. u = s \o t /\ s \in Seq(Nat) /\ t \in Seq(Nat)
    <2>1. parts[m] \in Seq(Word) /\ parts[n] \in Seq(Word) /\ s \in Seq(Nat) /\ t \in Seq(Nat)
      BY <1>1, <1>2, <1>4
    <2>2. PlacesIn(words, parts[m] \o parts[n]) = s \o t
      <3> HIDE DEF m, n
      <3> QED  BY <2>1, JoinedPlaces
    <2> QED  BY <1>2, <2>1, <2>2
  <1>6. MergedOf(Before(high, m), u) /\ u # <<>> /\ Last(u) = high[n]
    <2>1. GoesOn(Before(high, m), s) /\ GoesOn(high[m], t) /\ Last(s) = high[m] /\ Last(t) = high[n]
      <3>1. Before(high, n) = high[m]
        BY <1>1 DEF Before
      <3> HIDE DEF m, n
      <3> QED  BY <1>1, <1>4, <3>1
    <2> HIDE DEF s, t, u, m, n
    <2> QED  BY <1>5, <2>1, MergedGoesOn
  <1>7. DOMAIN texts = 1..m /\ DOMAIN text = 1..m /\ \A k \in 1..m : text[k] = PlacesIn(words, texts[k])
    <2>1. DOMAIN texts = 1..m
      <3> HIDE DEF V, m
      <3> QED  BY <1>2, LenProperties
    <2> QED  BY <2>1
  <1>8. ASSUME NEW k \in 1..q
        PROVE  text[k] = PlacesIn(words, parts[k]) /\ k \in 1..n /\ k \in 1..m
    <2>1. k \in 1..n /\ k \in 1..m
      BY <1>1
    <2> HIDE DEF text, m, n, q
    <2> QED  BY <1>2, <1>7, <2>1
  <1>9. ASSUME NEW k \in 1..m PROVE Until(k) = Before(high, k)
    <2>1. CASE k # 1
      <3>1. PICK j : j = k - 1
        OBVIOUS
      <3>2. j \in 1..q
        BY <1>1, <2>1, <3>1
      <3>3. Last(text[j]) = high[j]
        BY <1>4, <1>8, <3>2
      <3> HIDE DEF text
      <3> QED  BY <2>1, <3>1, <3>3 DEF Before
    <2>2. CASE k = 1
      BY <2>2 DEF Before
    <2> QED  BY <2>1, <2>2
  <1>10. text[m] = u
    BY <1>1, <1>7
  <1>11. u \in Seq(Nat)
    <2> HIDE DEF u, s, t
    <2> QED  BY <1>5, ConcatProperties
  <1>12. Last(text) = u /\ Len(text) = m
    <2> HIDE DEF u
    <2>1. \A k \in 1..m : text[k] \in Seq(Nat)
      <3> SUFFICES ASSUME NEW k \in 1..m PROVE text[k] \in Seq(Nat)
        OBVIOUS
      <3>1. CASE k = m
        BY <1>10, <1>11, <3>1
      <3>2. CASE k # m
        <4>1. k \in 1..q
          BY <1>1, <3>2
        <4> HIDE DEF text, u
        <4> QED  BY <1>4, <1>8, <4>1
      <3> QED  BY <3>1, <3>2
    <2> USE DEF u
    <2>2. text = [k \in 1..m |-> text[k]]
      BY <1>7
    <2>3. text \in Seq(Seq(Nat)) /\ Len(text) = m
      <3> DEFINE W == Seq(Nat)
      <3> HIDE DEF text
      <3>1. \A k \in 1..m : text[k] \in W
        BY <2>1
      <3> HIDE DEF W, m
      <3>2. m \in Nat
        BY <1>1
      <3>3. text \in Seq(W) /\ Len(text) = m
        BY <2>2, <3>1, <3>2, FunctionList
      <3> QED  BY <3>3 DEF W
    <2> HIDE DEF text, u, m
    <2> QED  BY <1>1, <1>10, <2>3 DEF Last
  <1>13. Last(Last(text)) = Len(words)
    <2>1. high[n] = Len(words)
      BY <1>1, <1>3 DEF LastOf
    <2> HIDE DEF text, u
    <2> QED  BY <1>6, <1>12, <2>1
  <1>14. ASSUME NEW k \in 1..m
         PROVE  GoesOn(Until(k), text[k]) \/ (k = Len(text) /\ MergedOf(Until(k), text[k]))
    <2>1. CASE k = m
      BY <1>6, <1>9, <1>10, <1>12, <2>1
    <2>2. CASE k # m
      <3>1. k \in 1..q
        BY <1>1, <2>2
      <3>2. GoesOn(Before(high, k), text[k])
        BY <1>4, <1>8, <3>1
      <3> QED  BY <1>9, <3>2
    <2> QED  BY <2>1, <2>2
  <1>15. texts # <<>>
    <2>1. Len(texts) # 0
      BY <1>1, <1>a
    <2> QED  BY <2>1, EmptySeq
  <1>16. Faithful(words, texts)
    BY <1>7, <1>13, <1>14, <1>15 DEF Faithful
  <1> HIDE DEF u, s, t, text
  <1>17. SizesBounded(texts)
    <2> SUFFICES ASSUME NEW k \in 1..m
                 PROVE  Len(texts[k]) <= ChunkSize + Overlap + (IF k = Len(texts) /\ MinTokens > 0
                                                                THEN MinTokens - 1 ELSE 0)
      BY <1>7 DEF SizesBounded
    <2>1. CASE k = m
      <3>1. Len(texts[m]) = Len(parts[m]) + Len(parts[n])
        BY <1>c
      <3>2. Len(parts[m]) <= ChunkSize + Overlap /\ Len(parts[m]) \in Nat /\ Len(parts[n]) \in Nat
        BY <1>1, <1>b, <1>4
      <3>3. Len(parts[n]) <= MinTokens - 1 /\ MinTokens > 0
        <4>1. Len(parts[n]) < MinTokens
          BY DEF n, IsMerge
        <4> QED  BY <3>2, <4>1, SizesAssumption
      <3>4. k = Len(texts)
        BY <1>a, <2>1
      <3>5. Len(texts[k]) = Len(parts[m]) + Len(parts[n])
        BY <2>1, <3>1
      <3>6. Len(parts[m]) + Len(parts[n]) <= ChunkSize + Overlap + (MinTokens - 1)
        <4> DEFINE a == Len(parts[m])  b == Len(parts[n])
        <4>1. a <= ChunkSize + Overlap /\ a \in Nat /\ b \in Nat /\ b <= MinTokens - 1
          BY <3>2, <3>3
        <4> HIDE DEF a, b
        <4>2. a + b <= ChunkSize + Overlap + (MinTokens - 1)
          BY <4>1, SizesAssumption
        <4> QED  BY <4>2 DEF a, b
      <3> QED  BY <3>3, <3>4, <3>5, <3>6
    <2>2. CASE k # m
      <3>1. k \in 1..q /\ k \in 1..n
        BY <1>1, <2>2
      <3>2. Len(texts[k]) <= ChunkSize + Overlap /\ ~(k = Len(texts))
        BY <1>2, <1>4, <2>2, <3>1
      <3>3. Len(texts[k]) \in Nat
        <4>1. texts[k] = parts[k]
          BY <1>a, <3>1
        <4> QED  BY <1>b, <3>1, <4>1, LenProperties
      <3> QED  BY <3>2, <3>3, SizesAssumption
    <2> QED  BY <2>1, <2>2
  <1>18. Covered(words, texts)
    <2>1. Covered(words, parts)
      <3>1. parts # <<>>
        <4>1. Len(parts) # 0
          BY <1>1, <1>a
        <4> QED  BY <4>1, EmptySeq
      <3>2. LastOf(high, Len(parts)) = Len(words)
        BY <1>3, <1>a
      <3> QED  BY <1>3, <3>1, <3>2, CutCovers
    <2> SUFFICES ASSUME NEW x \in 1..Len(words)
                 PROVE  \E k \in 1..m : \E j \in 1..Len(texts[k]) : texts[k][j] = words[x]
      BY <1>a DEF Covered
    <2>2. PICK k \in 1..n : \E j \in 1..Len(parts[k]) : parts[k][j] = words[x]
      BY <1>a, <2>1 DEF Covered
    <2>3. PICK j \in 1..Len(parts[k]) : parts[k][j] = words[x]
      BY <2>2
    <2> DEFINE a == Len(parts[m])  b == Len(parts[n])
    <2>0. m \in 1..m
      BY <1>1
    <2>4. /\ Len(texts[m]) = a + b /\ a \in Nat /\ b \in Nat /\ m \in 1..m
          /\ \A i \in 1..(a + b) : texts[m][i] = IF i <= a THEN parts[m][i] ELSE parts[n][i - a]
      BY <1>b, <1>c, <2>0
    <2>5. CASE k \in 1..q
      <3>1. k \in 1..m /\ texts[k] = parts[k]
        BY <1>a, <1>8, <2>5
      <3> QED  BY <2>3, <3>1
    <2>6. CASE k = m
      <3>1. j \in 1..a /\ parts[m][j] = words[x]
        BY <2>3, <2>6
      <3> HIDE DEF a, b
      <3>2. j \in 1..(a + b) /\ j <= a
        BY <2>4, <3>1
      <3>3. texts[m][j] = words[x]
        BY <2>4, <3>1, <3>2
      <3> QED  BY <2>4, <3>2, <3>3
    <2>7. CASE k = n
      <3>1. j \in 1..b /\ parts[n][j] = words[x]
        BY <2>3, <2>7
      <3> HIDE DEF a, b
      <3>2. PICK i : i = a + j
        OBVIOUS
      <3>3. i \in 1..(a + b) /\ ~(i <= a) /\ i - a = j
        BY <2>4, <3>1, <3>2
      <3>4. texts[m][i] = words[x]
        BY <2>4, <3>1, <3>3
      <3> QED  BY <2>4, <3>3, <3>4
    <2> QED  BY <1>1, <2>5, <2>6, <2>7
  <1> QED  BY <1>16, <1>17, <1>18

\* What the chunker makes of a section with text.
LEMMA SectionFaithful ==
    ASSUME NEW blocks, Paragraphs(blocks), WordsOf(blocks) # <<>>, IsInjective(WordsOf(blocks))
    PROVE  /\ Faithful(WordsOf(blocks), ChunksOfSection(blocks))
           /\ SizesBounded(ChunksOfSection(blocks))
           /\ Covered(WordsOf(blocks), ChunksOfSection(blocks))
  <1> DEFINE words == WordsOf(blocks)  n == Len(words)  units == UnitsOf(blocks)  parts == PackUnits(units)
             texts == ChunksOfSection(blocks)
  <1>1. units \in Seq(Unit) /\ FlattenSeq(units) = words /\ words \in Seq(Word)
    BY UnitsJoin
  <1>2. n \in Nat \ {0}
    BY <1>1, EmptySeq
  <1>3. CASE n <= ChunkSize
    <2>1. texts = <<words>>
      <3>1. Len(WordsOf(blocks)) \in 1..ChunkSize
        BY <1>2, <1>3, SizesAssumption
      <3> QED  BY <3>1 DEF ChunksOfSection
    <2> HIDE DEF words
    <2>2. <<words>> \in Seq(Seq(Word)) /\ <<words>> # <<>> /\ Len(<<words>>) = 1
      <3> DEFINE V == Seq(Word)
      <3>1. words \in V
        BY <1>1
      <3> HIDE DEF V
      <3>2. <<words>> \in Seq(V) /\ <<words>> # <<>> /\ Len(<<words>>) = 1
        BY <3>1
      <3> QED  BY <3>2 DEF V
    <2>3. Cut(words, <<words>>, <<0>>, <<n>>)
      <3>1. SubSeq(words, 0 + 1, n) = words
        BY <1>1, SubSeqFull
      <3>2. Before(<<n>>, 1) = 0
        BY DEF Before
      <3>5. (0 + 1) - 1 = 0 /\ <<0>>[1] = 0 /\ <<n>>[1] = n /\ <<words>>[1] = words
        BY <1>2
      <3>3. 0 <= 0 /\ 0 - Overlap <= 0 /\ 0 < n /\ n - 0 <= ChunkSize + Overlap /\ n <= Len(words)
        BY <1>2, <1>3, SizesAssumption
      <3> HIDE DEF n
      <3>4. Len(words) = n
        BY DEF n
      <3> SUFFICES ASSUME NEW k \in 1..1
                   PROVE  /\ <<0>>[k] \in Nat /\ <<n>>[k] \in Nat /\ <<n>>[k] <= Len(words)
                          /\ <<0>>[k] <= Before(<<n>>, k) /\ Before(<<n>>, k) - Overlap <= <<0>>[k]
                          /\ Before(<<n>>, k) < <<n>>[k] /\ <<n>>[k] - <<0>>[k] <= ChunkSize + Overlap
                          /\ <<words>>[k] = SubSeq(words, <<0>>[k] + 1, <<n>>[k])
        BY <2>2 DEF Cut
      <3>6. k = 1
        OBVIOUS
      <3> QED  BY <1>2, <3>1, <3>2, <3>3, <3>4, <3>5, <3>6
    <2>4. LastOf(<<n>>, 1) = n
      BY DEF LastOf
    <2>5. CutUp(words, <<words>>)
      BY <2>2, <2>3, <2>4 DEF CutUp
    <2> QED  BY <1>1, <2>1, <2>2, <2>5, CutFaithful DEF words
  <1>4. CASE ~(n <= ChunkSize)
    <2>1. texts = MergeTinyTrailing(parts)
      <3>1. WordsOf(blocks) # <<>> /\ Len(WordsOf(blocks)) \notin 1..ChunkSize
        BY <1>4
      <3> QED  BY <3>1 DEF ChunksOfSection
    <2>2. units # <<>>
      <3>1. units = <<>> => FlattenSeq(units) = <<>>
        <4> SUFFICES ASSUME units = <<>> PROVE Len(FlattenSeq(units)) = 0
          BY <1>1, EmptySeq
        <4>1. Len(units) = 0
          OBVIOUS
        <4> QED  BY <1>1, <4>1, UnitEnds
      <3> QED  BY <1>1, <3>1
    <2> HIDE DEF texts, units
    <2>3. parts \in Seq(Seq(Word)) /\ parts # <<>> /\ CutUp(words, parts)
      BY <1>1, <2>2, PackCut
    <2> HIDE DEF parts, words
    <2>4. CASE Len(parts) <= 1 \/ Len(parts[Len(parts)]) >= MinTokens
      <3>1. texts = parts
        BY <2>1, <2>4 DEF MergeTinyTrailing
      <3> QED  BY <1>1, <2>3, <3>1, CutFaithful DEF words, texts
    <2>5. CASE ~(Len(parts) <= 1 \/ Len(parts[Len(parts)]) >= MinTokens)
      <3>1. texts = Append(SubSeq(parts, 1, Len(parts) - 2), parts[Len(parts) - 1] \o parts[Len(parts)])
        BY <2>1, <2>5 DEF MergeTinyTrailing
      <3>2. Len(parts) > 1 /\ Len(parts[Len(parts)]) < MinTokens
        <4>1. Len(parts) \in Nat
          BY <2>3, LenProperties
        <4>2. Len(parts[Len(parts)]) \in Nat
          <5> DEFINE V == Seq(Word)
          <5>1. Len(parts) \in 1..Len(parts) /\ parts \in Seq(V)
            BY <2>3, <2>5, <4>1
          <5> HIDE DEF V
          <5>2. parts[Len(parts)] \in V
            BY <5>1
          <5> QED  BY <5>2, LenProperties DEF V
        <4> QED  BY <2>5, <4>1, <4>2, SizesAssumption
      <3>3. IsMerge(texts, parts)
        BY <3>1, <3>2 DEF IsMerge
      <3> QED  BY <1>1, <2>3, <3>3, MergedFaithful DEF words, texts
    <2> QED  BY <2>4, <2>5
  <1> QED  BY <1>3, <1>4

-----------------------------------------------------------------------------
(* What the parser keeps of a document. *)

\* A place in the flattened list is of one list, and one place there.
LEMMA SamePlace ==
    ASSUME NEW T, NEW subs \in Seq(Seq(T)), NEW i \in 1..Len(subs), NEW j \in 1..Len(subs),
           NEW k \in 1..Len(subs[i]), NEW l \in 1..Len(subs[j]),
           End(subs, i - 1) + k = End(subs, j - 1) + l
    PROVE  i = j /\ k = l
  <1> DEFINE n == Len(subs)  V == Seq(T)
  <1>a. n \in Nat /\ Len(subs[i]) \in Nat /\ Len(subs[j]) \in Nat
    <2>1. subs \in Seq(V)
      OBVIOUS
    <2>2. n \in Nat /\ subs[i] \in V /\ subs[j] \in V
      <3> HIDE DEF V
      <3> QED  BY <2>1, LenProperties
    <2> QED  BY <2>2, LenProperties
  <1>b. /\ \A p \in 0..n : End(subs, p) \in Nat
        /\ \A p \in 1..n : End(subs, p) = End(subs, p - 1) + Len(subs[p])
        /\ \A p, q \in 0..n : p <= q => End(subs, p) <= End(subs, q)
    BY Ends
  <1> HIDE DEF n, V
  <1>c. i \in 1..n /\ j \in 1..n
    BY DEF n
  <1>1. /\ i - 1 \in 0..n /\ j - 1 \in 0..n /\ i \in 0..n /\ j \in 0..n /\ i \in Nat /\ j \in Nat
        /\ k \in Nat \ {0} /\ l \in Nat \ {0}
    BY <1>a, <1>c
  <1>2. /\ End(subs, i - 1) \in Nat /\ End(subs, j - 1) \in Nat
        /\ End(subs, i - 1) + k <= End(subs, i) /\ End(subs, j - 1) + l <= End(subs, j)
        /\ End(subs, i) \in Nat /\ End(subs, j) \in Nat
    <2>1. k <= Len(subs[i]) /\ l <= Len(subs[j]) /\ Len(subs[i]) \in Nat /\ Len(subs[j]) \in Nat
      BY <1>a
    <2>2. /\ End(subs, i - 1) \in Nat /\ End(subs, j - 1) \in Nat
          /\ End(subs, i) = End(subs, i - 1) + Len(subs[i])
          /\ End(subs, j) = End(subs, j - 1) + Len(subs[j])
      BY <1>b, <1>c, <1>1
    <2>3. End(subs, i) \in Nat /\ End(subs, j) \in Nat
      BY <1>b, <1>c, <1>1
    <2>4. End(subs, i - 1) + k <= End(subs, i)
      BY ONLY <1>1, <2>1, <2>2
    <2>5. End(subs, j - 1) + l <= End(subs, j)
      BY ONLY <1>1, <2>1, <2>2
    <2> QED  BY <2>2, <2>3, <2>4, <2>5
  <1>3. ~(i < j)
    <2> SUFFICES ASSUME i < j PROVE FALSE
      OBVIOUS
    <2>1. i <= j - 1
      BY <1>1
    <2>2. End(subs, i) <= End(subs, j - 1)
      BY <1>b, <1>c, <1>1, <2>1
    <2> QED  BY <1>1, <1>2, <2>2
  <1>4. ~(j < i)
    <2> SUFFICES ASSUME j < i PROVE FALSE
      OBVIOUS
    <2>1. j <= i - 1
      BY <1>1
    <2>2. End(subs, j) <= End(subs, i - 1)
      BY <1>b, <1>c, <1>1, <2>1
    <2> QED  BY <1>1, <1>2, <2>2
  <1>5. i = j
    BY <1>1, <1>3, <1>4
  <1> QED  BY <1>1, <1>2, <1>5

\* Where the k-th element of a part that begins after off[i] is in all of the lists.
PlaceOf(lists, off, i, k) == End(lists, i - 1) + off[i] + k

\* Parts of the lists, each without some of its beginning and its end.
AreParts(lists, subs, off) ==
    /\ Len(subs) = Len(lists)
    /\ \A i \in 1..Len(lists) :
          /\ off[i] \in Nat /\ off[i] + Len(subs[i]) <= Len(lists[i])
          /\ \A k \in 1..Len(subs[i]) : subs[i][k] = lists[i][off[i] + k]

\* m says where the elements of a list come from in another, in their order.
ComesFrom(sub, list, m) ==
    /\ m \in [1..Len(sub) -> 1..Len(list)]
    /\ \A x \in 1..Len(sub) : sub[x] = list[m[x]]
    /\ \A x, y \in 1..Len(sub) : x < y => m[x] < m[y]

\* Every element of the parts is where m leads to.
Reaches(lists, subs, off, m) ==
    \A i \in 1..Len(lists) : \A k \in 1..Len(subs[i]) :
        \E x \in 1..Len(FlattenSeq(subs)) : m[x] = PlaceOf(lists, off, i, k)

\* What is joined of parts comes from what is joined of the lists.
LEMMA PartsJoined ==
    ASSUME NEW T, NEW lists \in Seq(Seq(T)), NEW subs \in Seq(Seq(T)), NEW off, AreParts(lists, subs, off)
    PROVE  \E m : ComesFrom(FlattenSeq(subs), FlattenSeq(lists), m) /\ Reaches(lists, subs, off, m)
  <1> DEFINE n == Len(lists)  V == Seq(T)  A == FlattenSeq(lists)  B == FlattenSeq(subs)
             Comes(x, y) == \E i \in 1..n : \E k \in 1..Len(subs[i]) :
                               x = End(subs, i - 1) + k /\ y = PlaceOf(lists, off, i, k)
  <1>1. n \in Nat /\ Len(subs) = n /\ \A i \in 1..n : Len(lists[i]) \in Nat /\ Len(subs[i]) \in Nat
    <2>1. lists \in Seq(V) /\ subs \in Seq(V) /\ Len(subs) = n
      BY DEF AreParts
    <2>2. n \in Nat /\ \A i \in 1..n : lists[i] \in V /\ subs[i] \in V
      <3> HIDE DEF V
      <3> QED  BY <2>1, LenProperties
    <2> QED  BY <2>1, <2>2, LenProperties
  <1>2. /\ \A i \in 0..n : End(lists, i) \in Nat /\ End(subs, i) \in Nat
        /\ \A i \in 1..n : /\ End(lists, i) = End(lists, i - 1) + Len(lists[i])
                           /\ End(subs, i) = End(subs, i - 1) + Len(subs[i])
        /\ \A i, j \in 0..n : i <= j => End(lists, i) <= End(lists, j) /\ End(subs, i) <= End(subs, j)
    BY <1>1, Ends
  <1>3. ASSUME NEW i \in 1..n
        PROVE  /\ off[i] \in Nat /\ off[i] + Len(subs[i]) <= Len(lists[i])
               /\ \A k \in 1..Len(subs[i]) : subs[i][k] = lists[i][off[i] + k]
    BY DEF AreParts
  <1>4. /\ \A i \in 1..n : \A k \in 1..Len(subs[i]) :
              /\ End(subs, i - 1) + k \in 1..Len(B) /\ B[End(subs, i - 1) + k] = subs[i][k]
        /\ \A x \in 1..Len(B) : \E i \in 1..n : \E k \in 1..Len(subs[i]) : x = End(subs, i - 1) + k
        /\ \A i \in 1..n : \A k \in 1..Len(lists[i]) :
              /\ End(lists, i - 1) + k \in 1..Len(A) /\ A[End(lists, i - 1) + k] = lists[i][k]
    BY <1>1, Places
  <1> HIDE DEF n, A, B
  \* Where an element comes from, and what is there.
  <1>5. ASSUME NEW i \in 1..n, NEW k \in 1..Len(subs[i])
        PROVE  /\ PlaceOf(lists, off, i, k) \in 1..Len(A) /\ A[PlaceOf(lists, off, i, k)] = subs[i][k]
               /\ PlaceOf(lists, off, i, k) <= End(lists, i) /\ End(lists, i - 1) < PlaceOf(lists, off, i, k)
    <2> DEFINE e == End(lists, i - 1)  o == off[i]  j == o + k  a == Len(lists[i])  b == Len(subs[i])
    <2>1. /\ e \in Nat /\ o \in Nat /\ a \in Nat /\ b \in Nat /\ o + b <= a /\ k \in 1..b
          /\ End(lists, i) = e + a
      <3>1. i - 1 \in 0..n
        BY <1>1
      <3> QED  BY <1>1, <1>2, <1>3, <3>1
    <2>2. subs[i][k] = lists[i][j]
      BY <1>3
    <2>3. j \in 1..a /\ PlaceOf(lists, off, i, k) = e + j
      <3>1. PlaceOf(lists, off, i, k) = e + o + k
        BY DEF PlaceOf
      <3> HIDE DEF e, o, a, b
      <3> QED  BY <2>1, <3>1
    <2>4. e + j \in 1..Len(A) /\ A[e + j] = lists[i][j]
      <3> HIDE DEF j
      <3> QED  BY <1>4, <2>3
    <2>5. e + j <= End(lists, i) /\ e < e + j
      <3> HIDE DEF e, a, j, b, o
      <3> QED  BY <2>1, <2>3
    <2> HIDE DEF e, j
    <2> QED  BY <2>2, <2>3, <2>4, <2>5 DEF e
  \* Elements in their order.
  <1>6. ASSUME NEW i \in 1..n, NEW k \in 1..Len(subs[i]), NEW j \in 1..n, NEW l \in 1..Len(subs[j]),
               End(subs, i - 1) + k < End(subs, j - 1) + l
        PROVE  PlaceOf(lists, off, i, k) < PlaceOf(lists, off, j, l)
    <2>1. /\ i - 1 \in 0..n /\ j - 1 \in 0..n /\ i \in 0..n /\ j \in 0..n /\ i \in Nat /\ j \in Nat
          /\ k \in Nat /\ l \in Nat
      BY <1>1
    <2>2. /\ End(subs, i - 1) \in Nat /\ End(subs, j - 1) \in Nat /\ End(subs, j) = End(subs, j - 1) + Len(subs[j])
          /\ End(subs, j - 1) + l <= End(subs, j)
      <3>1. l <= Len(subs[j]) /\ Len(subs[j]) \in Nat
        BY <1>1
      <3>2. End(subs, j - 1) \in Nat /\ End(subs, j) = End(subs, j - 1) + Len(subs[j])
        BY <1>2, <2>1
      <3>3. End(subs, i - 1) \in Nat
        BY <1>2, <2>1
      <3>4. End(subs, j - 1) + l <= End(subs, j)
        BY ONLY <2>1, <3>1, <3>2
      <3> QED  BY <3>2, <3>3, <3>4
    <2>3. ~(j < i)
      <3> SUFFICES ASSUME j < i PROVE FALSE
        OBVIOUS
      <3>1. j <= i - 1
        BY <2>1
      <3>2. End(subs, j) <= End(subs, i - 1)
        BY <1>2, <2>1, <3>1
      <3>3. End(subs, j) \in Nat
        BY <1>2, <2>1
      <3> QED  BY <1>6, <2>1, <2>2, <3>2, <3>3
    <2>4. CASE i < j
      <3>1. End(lists, i) <= End(lists, j - 1)
        <4>1. i <= j - 1
          BY <2>1, <2>4
        <4> QED  BY <1>2, <2>1, <4>1
      <3>2. End(lists, i) \in Nat /\ End(lists, j - 1) \in Nat
        BY <1>2, <2>1
      <3>3. /\ PlaceOf(lists, off, i, k) \in Int /\ PlaceOf(lists, off, j, l) \in Int
            /\ PlaceOf(lists, off, i, k) <= End(lists, i) /\ End(lists, j - 1) < PlaceOf(lists, off, j, l)
        BY <1>5
      <3> QED  BY <3>1, <3>2, <3>3
    <2>5. CASE i = j
      <3>1. k < l
        BY <1>6, <2>1, <2>2, <2>5
      <3>2. End(lists, i - 1) \in Nat /\ off[i] \in Nat
        BY <1>2, <1>3, <2>1
      <3> QED  BY <2>1, <2>5, <3>1, <3>2 DEF PlaceOf
    <2> QED  BY <2>1, <2>3, <2>4, <2>5
  <1> DEFINE m == [x \in 1..Len(B) |-> CHOOSE y \in 1..Len(A) : Comes(x, y)]
  <1>7. ASSUME NEW x \in 1..Len(B) PROVE m[x] \in 1..Len(A) /\ Comes(x, m[x])
    <2>1. \E y \in 1..Len(A) : Comes(x, y)
      <3>1. PICK i \in 1..n : \E k \in 1..Len(subs[i]) : x = End(subs, i - 1) + k
        BY <1>4
      <3>2. PICK k \in 1..Len(subs[i]) : x = End(subs, i - 1) + k
        BY <3>1
      <3> QED  BY <1>5, <3>2
    <2> HIDE DEF Comes
    <2>2. m[x] = CHOOSE y \in 1..Len(A) : Comes(x, y)
      OBVIOUS
    <2> HIDE DEF m
    <2> QED  BY <2>1, <2>2
  <1>8. m \in [1..Len(B) -> 1..Len(A)]
    <2> HIDE DEF Comes
    <2>1. m = [x \in 1..Len(B) |-> m[x]]
      OBVIOUS
    <2> HIDE DEF m
    <2> QED  BY <1>7, <2>1
  <1> HIDE DEF m
  <1>9. \A x \in 1..Len(B) : B[x] = A[m[x]]
    <2> SUFFICES ASSUME NEW x \in 1..Len(B) PROVE B[x] = A[m[x]]
      OBVIOUS
    <2>1. PICK i \in 1..n : \E k \in 1..Len(subs[i]) : x = End(subs, i - 1) + k /\ m[x] = PlaceOf(lists, off, i, k)
      BY <1>7
    <2>2. PICK k \in 1..Len(subs[i]) : x = End(subs, i - 1) + k /\ m[x] = PlaceOf(lists, off, i, k)
      BY <2>1
    <2>3. B[x] = subs[i][k]
      BY <1>4, <2>2
    <2> QED  BY <1>5, <2>2, <2>3
  <1>10. \A x, y \in 1..Len(B) : x < y => m[x] < m[y]
    <2> SUFFICES ASSUME NEW x \in 1..Len(B), NEW y \in 1..Len(B), x < y PROVE m[x] < m[y]
      OBVIOUS
    <2>1. PICK i \in 1..n : \E k \in 1..Len(subs[i]) : x = End(subs, i - 1) + k /\ m[x] = PlaceOf(lists, off, i, k)
      BY <1>7
    <2>2. PICK k \in 1..Len(subs[i]) : x = End(subs, i - 1) + k /\ m[x] = PlaceOf(lists, off, i, k)
      BY <2>1
    <2>3. PICK j \in 1..n : \E l \in 1..Len(subs[j]) : y = End(subs, j - 1) + l /\ m[y] = PlaceOf(lists, off, j, l)
      BY <1>7
    <2>4. PICK l \in 1..Len(subs[j]) : y = End(subs, j - 1) + l /\ m[y] = PlaceOf(lists, off, j, l)
      BY <2>3
    <2>5. End(subs, i - 1) + k < End(subs, j - 1) + l
      BY <2>2, <2>4
    <2> QED  BY <1>6, <2>2, <2>4, <2>5
  <1>11. ASSUME NEW i \in 1..n, NEW k \in 1..Len(subs[i])
         PROVE  \E x \in 1..Len(B) : m[x] = PlaceOf(lists, off, i, k)
    <2>1. PICK x : x = End(subs, i - 1) + k
      OBVIOUS
    <2>2. x \in 1..Len(B)
      BY <1>4, <2>1
    <2>3. PICK j \in 1..n : \E l \in 1..Len(subs[j]) : x = End(subs, j - 1) + l /\ m[x] = PlaceOf(lists, off, j, l)
      BY <1>7, <2>2
    <2>4. PICK l \in 1..Len(subs[j]) : x = End(subs, j - 1) + l /\ m[x] = PlaceOf(lists, off, j, l)
      BY <2>3
    <2>5. i = j /\ k = l
      <3>1. i \in 1..Len(subs) /\ j \in 1..Len(subs)
        BY <1>1
      <3> QED  BY <2>1, <2>4, <3>1, SamePlace
    <2> QED  BY <2>2, <2>4, <2>5
  <1>12. ComesFrom(B, A, m)
    BY <1>8, <1>9, <1>10 DEF ComesFrom
  <1>13. Reaches(lists, subs, off, m)
    BY <1>11 DEF Reaches, B, n
  <1> QED  BY <1>12, <1>13 DEF A, B

\* What comes from a list of distinct elements has distinct elements.
LEMMA Apart ==
    ASSUME NEW T, NEW lists \in Seq(Seq(T)), NEW subs \in Seq(Seq(T)), NEW m, ComesFrom(subs, lists, m),
           IsInjective(FlattenSeq(lists))
    PROVE  IsInjective(FlattenSeq(subs))
  <1> DEFINE V == Seq(T)  n == Len(subs)  A == FlattenSeq(lists)  B == FlattenSeq(subs)
  <1>1. /\ m \in [1..n -> 1..Len(lists)] /\ \A x \in 1..n : subs[x] = lists[m[x]]
        /\ \A x, y \in 1..n : x < y => m[x] < m[y]
    BY DEF ComesFrom
  <1>2. A \in Seq(T) /\ B \in Seq(T)
    BY Flattened
  <1>3. DOMAIN A = 1..Len(A) /\ DOMAIN B = 1..Len(B)
    <2> HIDE DEF A, B
    <2> QED  BY <1>2, LenProperties
  <1>4. /\ \A x \in 1..Len(B) : \E i \in 1..n : \E k \in 1..Len(subs[i]) : x = End(subs, i - 1) + k
        /\ \A i \in 1..n : \A k \in 1..Len(subs[i]) : B[End(subs, i - 1) + k] = subs[i][k]
        /\ \A i \in 1..Len(lists) : \A k \in 1..Len(lists[i]) :
              /\ End(lists, i - 1) + k \in 1..Len(A) /\ A[End(lists, i - 1) + k] = lists[i][k]
    BY Places
  <1>5. \A u, v \in 1..Len(A) : A[u] = A[v] => u = v
    BY <1>3 DEF IsInjective
  <1>a. n \in Nat
    BY LenProperties
  <1> HIDE DEF A, B, n
  <1>6. ASSUME NEW x \in 1..Len(B), NEW y \in 1..Len(B), B[x] = B[y] PROVE x = y
    <2>1. PICK i \in 1..n : \E k \in 1..Len(subs[i]) : x = End(subs, i - 1) + k
      BY <1>4
    <2>2. PICK k \in 1..Len(subs[i]) : x = End(subs, i - 1) + k
      BY <2>1
    <2>3. PICK j \in 1..n : \E l \in 1..Len(subs[j]) : y = End(subs, j - 1) + l
      BY <1>4
    <2>4. PICK l \in 1..Len(subs[j]) : y = End(subs, j - 1) + l
      BY <2>3
    <2> DEFINE p == m[i]  q == m[j]
    <2>5. p \in 1..Len(lists) /\ q \in 1..Len(lists) /\ subs[i] = lists[p] /\ subs[j] = lists[q]
      BY <1>1
    <2>6. i \in Nat /\ j \in Nat /\ (i < j => p < q) /\ (j < i => q < p)
      <3>1. i \in Nat /\ j \in Nat
        BY <1>a
      <3>2. (i < j => m[i] < m[j]) /\ (j < i => m[j] < m[i])
        BY <1>1
      <3> QED  BY <3>1, <3>2
    <2> HIDE DEF p, q
    <2>7. k \in 1..Len(lists[p]) /\ l \in 1..Len(lists[q])
      BY <2>5
    <2>8. B[x] = lists[p][k] /\ B[y] = lists[q][l]
      BY <1>4, <2>2, <2>4, <2>5
    <2>9. /\ End(lists, p - 1) + k \in 1..Len(A) /\ A[End(lists, p - 1) + k] = lists[p][k]
          /\ End(lists, q - 1) + l \in 1..Len(A) /\ A[End(lists, q - 1) + l] = lists[q][l]
      BY <1>4, <2>5, <2>7
    <2>10. End(lists, p - 1) + k = End(lists, q - 1) + l
      BY <1>5, <1>6, <2>8, <2>9
    <2>11. p = q /\ k = l
      <3>1. lists \in Seq(Seq(T)) /\ p \in 1..Len(lists) /\ q \in 1..Len(lists)
        BY <2>5
      <3> QED  BY ONLY <2>7, <2>10, <3>1, SamePlace
    <2>12. i = j
      <3>1. p \in Nat /\ q \in Nat
        BY <2>5
      <3> QED  BY <2>6, <2>11, <3>1
    <2> QED  BY <2>2, <2>4, <2>11, <2>12
  <1> QED  BY <1>3, <1>6 DEF IsInjective, B

\* Blocks that come from blocks with distinct words have distinct words.
LEMMA WordsApart ==
    ASSUME NEW blocks \in Seq(Block), NEW sub \in Seq(Block), NEW m, ComesFrom(sub, blocks, m),
           IsInjective(WordsOf(blocks))
    PROVE  IsInjective(WordsOf(sub))
  <1> DEFINE V == Seq(Word)
             lists == [i \in DOMAIN blocks |-> FlattenSeq(blocks[i].sentences)]
             subs == [i \in DOMAIN sub |-> FlattenSeq(sub[i].sentences)]
  <1>1. /\ Len(blocks) \in Nat /\ DOMAIN blocks = 1..Len(blocks) /\ \A i \in 1..Len(blocks) : blocks[i] \in Block
        /\ Len(sub) \in Nat /\ DOMAIN sub = 1..Len(sub) /\ \A i \in 1..Len(sub) : sub[i] \in Block
    BY LenProperties
  <1>2. \A b \in Block : FlattenSeq(b.sentences) \in V
    BY SentencesType, Flattened
  <1>3. /\ lists = [i \in 1..Len(blocks) |-> lists[i]]
        /\ \A i \in 1..Len(blocks) : lists[i] = FlattenSeq(blocks[i].sentences) /\ lists[i] \in V
        /\ subs = [i \in 1..Len(sub) |-> subs[i]]
        /\ \A i \in 1..Len(sub) : subs[i] = FlattenSeq(sub[i].sentences) /\ subs[i] \in V
    BY <1>1, <1>2
  <1> HIDE DEF V, lists, subs
  <1>4. lists \in Seq(V) /\ Len(lists) = Len(blocks) /\ subs \in Seq(V) /\ Len(subs) = Len(sub)
    BY <1>1, <1>3, FunctionList
  <1>5. ComesFrom(subs, lists, m)
    <2>1. /\ m \in [1..Len(sub) -> 1..Len(blocks)] /\ \A x \in 1..Len(sub) : sub[x] = blocks[m[x]]
          /\ \A x, y \in 1..Len(sub) : x < y => m[x] < m[y]
      BY DEF ComesFrom
    <2>2. \A x \in 1..Len(sub) : subs[x] = lists[m[x]]
      BY <1>3, <2>1
    <2> QED  BY <1>4, <2>1, <2>2 DEF ComesFrom
  <1>6. IsInjective(FlattenSeq(lists))
    BY DEF WordsOf, lists
  <1>7. lists \in Seq(Seq(Word)) /\ subs \in Seq(Seq(Word))
    BY <1>4 DEF V
  <1>8. IsInjective(FlattenSeq(subs))
    BY <1>5, <1>6, <1>7, Apart
  <1> QED  BY <1>8 DEF WordsOf, subs

\* A mark that enough pages begin or end with to be a running header or footer.
RunningIn(pages, mark) ==
    Cardinality({i \in DOMAIN pages : /\ pages[i] # <<>>
                                      /\ mark \in {Head(pages[i]).mark, Last(pages[i]).mark}}) >= MinPageCount

IsRepeated(pages, mark) == mark \in Repeated(pages, Head) \/ mark \in Repeated(pages, Last)

\* A line that is removed is a running line.
LEMMA RepeatedRun ==
    ASSUME NEW pages \in Seq(Seq(Block)), NEW mark, IsRepeated(pages, mark)
    PROVE  RunningIn(pages, mark)
  <1> DEFINE D == DOMAIN pages
             Heads == {i \in D : pages[i] # <<>> /\ Head(pages[i]).mark = mark}
             Lasts == {i \in D : pages[i] # <<>> /\ Last(pages[i]).mark = mark}
             Both == {i \in D : /\ pages[i] # <<>> /\ mark \in {Head(pages[i]).mark, Last(pages[i]).mark}}
  <1>1. Len(pages) \in Nat /\ D = 1..Len(pages)
    <2> DEFINE V == Seq(Block)
    <2>1. pages \in Seq(V)
      OBVIOUS
    <2> HIDE DEF V
    <2> QED  BY <2>1, LenProperties
  <1>2. IsFiniteSet(D)
    BY <1>1, UpTo
  <1>3. Threshold(pages) >= MinPageCount /\ Threshold(pages) \in Int /\ MinPageCount \in Int
    <2> DEFINE share == (6 * Len(pages) + 5) \div 10
    <2>1. share \in Int
      <3> DEFINE a == 6 * Len(pages) + 5
      <3>1. a \in Int
        BY <1>1
      <3> HIDE DEF a
      <3>2. a \div 10 \in Int
        BY <3>1
      <3> QED  BY <3>2 DEF a
    <2>2. Threshold(pages) = IF share > MinPageCount THEN share ELSE MinPageCount
      BY DEF Threshold
    <2>3. MinPageCount \in Int
      BY DEF MinPageCount
    <2> HIDE DEF share
    <2>4. CASE share > MinPageCount
      BY <2>1, <2>2, <2>3, <2>4
    <2>5. CASE ~(share > MinPageCount)
      BY <2>2, <2>3, <2>5
    <2> QED  BY <2>4, <2>5
  <1>4. Cardinality(Heads) >= Threshold(pages) \/ Cardinality(Lasts) >= Threshold(pages)
    <2>1. CASE mark \in Repeated(pages, Head)
      <3>1. mark \in Repeated(pages, Head) => Cardinality(Heads) >= Threshold(pages)
        BY DEF Repeated
      <3> QED  BY <2>1, <3>1
    <2>2. CASE mark \in Repeated(pages, Last)
      <3>1. mark \in Repeated(pages, Last) => Cardinality(Lasts) >= Threshold(pages)
        BY DEF Repeated
      <3> QED  BY <2>2, <3>1
    <2> QED  BY <2>1, <2>2 DEF IsRepeated
  <1>5. Heads \subseteq Both /\ Lasts \subseteq Both /\ Both \subseteq D
    OBVIOUS
  <1> HIDE DEF Heads, Lasts, D
  <1>6. /\ Cardinality(Both) \in Nat /\ Cardinality(Heads) \in Nat /\ Cardinality(Lasts) \in Nat
        /\ Cardinality(Heads) <= Cardinality(Both) /\ Cardinality(Lasts) <= Cardinality(Both)
    <2> HIDE DEF Both
    <2>1. IsFiniteSet(Both)
      BY <1>2, <1>5, FS_Subset
    <2> QED  BY <1>5, <2>1, FS_Subset, FS_CardinalityType
  <1>7. Cardinality(Both) >= MinPageCount
    <2> DEFINE a == Cardinality(Heads)  b == Cardinality(Lasts)  c == Cardinality(Both)
               t == Threshold(pages)  q == MinPageCount
    <2>1. /\ a \in Nat /\ b \in Nat /\ c \in Nat /\ a <= c /\ b <= c /\ t >= q /\ t \in Int /\ q \in Int
          /\ a >= t \/ b >= t
      BY <1>3, <1>4, <1>6
    <2> HIDE DEF a, b, c, t, q
    <2>2. c >= q
      BY <2>1
    <2> QED  BY <2>2 DEF c, q
  <1> QED  BY <1>7 DEF RunningIn, D

\* A page without what is a header or a footer.
Beheaded(page, headers) == IF page # <<>> /\ Head(page).mark \in headers THEN Tail(page) ELSE page
Cleaned(page, headers, footers) ==
    IF page # <<>> /\ Beheaded(page, headers) # <<>> /\ Last(page).mark \in footers
    THEN Front(Beheaded(page, headers)) ELSE Beheaded(page, headers)
Skipped(page, headers) == IF page # <<>> /\ Head(page).mark \in headers THEN 1 ELSE 0

\* A cleaned page is its part between the header and the footer.
LEMMA CleanedIs ==
    ASSUME NEW page \in Seq(Block), NEW headers, NEW footers
    PROVE  /\ Skipped(page, headers) \in Nat
           /\ Cleaned(page, headers, footers) \in Seq(Block)
           /\ Skipped(page, headers) + Len(Cleaned(page, headers, footers)) <= Len(page)
           /\ \A k \in 1..Len(Cleaned(page, headers, footers)) :
                Cleaned(page, headers, footers)[k] = page[Skipped(page, headers) + k]
           /\ \A k \in 1..Len(page) : page[k].mark \notin headers \cup footers =>
                k - Skipped(page, headers) \in 1..Len(Cleaned(page, headers, footers))
  <1> DEFINE off == Skipped(page, headers)  rest == Beheaded(page, headers)
             clean == Cleaned(page, headers, footers)  n == Len(page)
  <1>1. n \in Nat
    BY LenProperties
  \* Without the header.
  <1>2. /\ off \in {0, 1} /\ rest \in Seq(Block) /\ Len(rest) = n - off /\ off <= n
        /\ \A k \in 1..(n - off) : rest[k] = page[off + k]
        /\ off = 1 => page[1].mark \in headers
    <2>1. CASE page # <<>> /\ Head(page).mark \in headers
      <3>1. off = 1 /\ rest = Tail(page)
        BY <2>1 DEF Skipped, Beheaded
      <3>2. /\ Tail(page) \in Seq(Block) /\ Len(Tail(page)) = n - 1
            /\ \A k \in 1..Len(Tail(page)) : Tail(page)[k] = page[k + 1]
        BY <2>1, HeadTailProperties
      <3>3. Head(page) = page[1] /\ n > 0
        BY <1>1, <2>1, EmptySeq
      <3>4. \A k \in 1..(n - 1) : rest[k] = page[1 + k]
        <4> SUFFICES ASSUME NEW k \in 1..(n - 1) PROVE rest[k] = page[1 + k]
          OBVIOUS
        <4>1. 1 + k = k + 1
          BY <1>1
        <4> HIDE DEF rest
        <4> QED  BY <3>1, <3>2, <4>1
      <3> HIDE DEF off, rest, n
      <3> QED  BY <1>1, <2>1, <3>1, <3>2, <3>3, <3>4
    <2>2. CASE ~(page # <<>> /\ Head(page).mark \in headers)
      <3>1. off = 0 /\ rest = page
        BY <2>2 DEF Skipped, Beheaded
      <3>2. \A k \in 1..n : 0 + k = k
        BY <1>1
      <3> HIDE DEF off, rest
      <3> QED  BY <1>1, <3>1, <3>2
    <2> QED  BY <2>1, <2>2
  <1> HIDE DEF off, rest, clean
  <1>3. CASE page # <<>> /\ rest # <<>> /\ Last(page).mark \in footers
    <2> DEFINE m == Len(rest) - 1
    <2>1. clean = SubSeq(rest, 1, m)
      BY <1>3 DEF clean, Cleaned, rest, Front
    <2>2. m \in Nat /\ m <= Len(rest) /\ 1 <= m + 1 /\ m - 1 + 1 = m /\ Len(rest) = n - off /\ n > 0
          /\ m = n - off - 1
      BY <1>1, <1>2, <1>3, EmptySeq
    <2>3. Last(page) = page[n]
      BY DEF Last
    <2> HIDE DEF m, n
    <2>4. clean \in Seq(Block) /\ Len(clean) = m - 1 + 1 /\ \A k \in 1..(m - 1 + 1) : clean[k] = rest[1 + k - 1]
      <3>1. 1 \in Nat \ {0}
        OBVIOUS
      <3> QED  BY <1>2, <2>1, <2>2, <3>1, PartIs
    <2>5. \A k \in 1..m : clean[k] = page[off + k]
      <3> SUFFICES ASSUME NEW k \in 1..m PROVE clean[k] = page[off + k]
        OBVIOUS
      <3>1. k \in 1..(n - off) /\ 1 + k - 1 = k
        BY <1>1, <1>2, <2>2
      <3> QED  BY <1>2, <2>2, <2>4, <3>1
    <2>6. ASSUME NEW k \in 1..n, page[k].mark \notin headers \cup footers PROVE k - off \in 1..m
      <3>1. k # n
        BY <1>3, <2>3, <2>6
      <3>2. off = 1 => k # 1
        BY <1>2, <2>6
      <3> QED  BY <1>1, <1>2, <2>2, <3>1, <3>2
    <2>7. off \in Nat /\ off + m <= n /\ Len(clean) = m
      BY <1>1, <1>2, <2>2, <2>4
    <2> QED  BY <2>4, <2>5, <2>6, <2>7 DEF off, clean, n
  <1>4. CASE ~(page # <<>> /\ rest # <<>> /\ Last(page).mark \in footers)
    <2>1. clean = rest
      BY <1>4 DEF clean, Cleaned, rest
    <2> HIDE DEF n
    <2>2. ASSUME NEW k \in 1..n, page[k].mark \notin headers \cup footers PROVE k - off \in 1..(n - off)
      <3>1. off = 1 => k # 1
        BY <1>2, <2>2
      <3> QED  BY <1>1, <1>2, <3>1
    <2>3. off \in Nat /\ off + (n - off) <= n /\ Len(clean) = n - off /\ clean \in Seq(Block)
      BY <1>1, <1>2, <2>1
    <2>4. \A k \in 1..(n - off) : clean[k] = page[off + k]
      BY <1>2, <2>1
    <2> QED  BY <2>2, <2>3, <2>4 DEF off, clean, n
  <1> QED  BY <1>3, <1>4

\* The parser keeps the blocks that are not running lines, in their order.
LEMMA KeptBlocks ==
    ASSUME NEW pages \in Seq(Seq(Block))
    PROVE  \E m : /\ ComesFrom(FlattenSeq(CleanPages(pages)), FlattenSeq(pages), m)
                  /\ \A y \in 1..Len(FlattenSeq(pages)) : ~RunningIn(pages, FlattenSeq(pages)[y].mark) =>
                        \E x \in 1..Len(FlattenSeq(CleanPages(pages))) : m[x] = y
  <1> DEFINE V == Seq(Block)  n == Len(pages)
             headers == Repeated(pages, Head)  footers == Repeated(pages, Last)
             clean == CleanPages(pages)  off == [i \in 1..n |-> Skipped(pages[i], headers)]
  <1>1. n \in Nat /\ DOMAIN pages = 1..n /\ \A i \in 1..n : pages[i] \in V
    <2>1. pages \in Seq(V)
      OBVIOUS
    <2> HIDE DEF V
    <2> QED  BY <2>1, LenProperties
  <1>2. clean = [i \in 1..n |-> Cleaned(pages[i], headers, footers)]
    <2>1. clean = [i \in DOMAIN pages |-> Cleaned(pages[i], headers, footers)]
      BY DEF CleanPages, Cleaned, Beheaded
    <2> QED  BY <1>1, <2>1
  <1>3. clean \in Seq(Seq(Block)) /\ Len(clean) = n
    <2>1. clean \in Seq(Seq(Block))
      BY CleanPagesType
    <2>2. DOMAIN clean = 1..n
      BY <1>2
    <2> HIDE DEF clean, n
    <2>3. DOMAIN clean = 1..Len(clean) /\ Len(clean) \in Nat
      <3>1. clean \in Seq(V)
        BY <2>1
      <3> HIDE DEF V
      <3> QED  BY <3>1, LenProperties
    <2> QED  BY <1>1, <2>1, <2>2, <2>3
  <1>4. /\ \A i \in 1..n : off[i] = Skipped(pages[i], headers)
        /\ \A i \in 1..n : clean[i] = Cleaned(pages[i], headers, footers)
    BY <1>2
  <1> HIDE DEF n, headers, footers, clean, off
  <1>5. ASSUME NEW i \in 1..n
        PROVE  /\ off[i] \in Nat /\ off[i] + Len(clean[i]) <= Len(pages[i])
               /\ \A k \in 1..Len(clean[i]) : clean[i][k] = pages[i][off[i] + k]
               /\ \A k \in 1..Len(pages[i]) : pages[i][k].mark \notin headers \cup footers =>
                     k - off[i] \in 1..Len(clean[i])
    <2> DEFINE page == pages[i]
    <2>1. page \in Seq(Block) /\ off[i] = Skipped(page, headers) /\ clean[i] = Cleaned(page, headers, footers)
      BY <1>1, <1>4
    <2> HIDE DEF page
    <2> QED  BY <2>1, CleanedIs DEF page
  <1>6. AreParts(pages, clean, off)
    BY <1>3, <1>5 DEF AreParts, n
  <1>7. PICK m : ComesFrom(FlattenSeq(clean), FlattenSeq(pages), m) /\ Reaches(pages, clean, off, m)
    <2>1. pages \in Seq(Seq(Block)) /\ clean \in Seq(Seq(Block)) /\ AreParts(pages, clean, off)
      BY <1>3, <1>6
    <2> QED  BY ONLY <2>1, PartsJoined
  <1>8. ASSUME NEW y \in 1..Len(FlattenSeq(pages)), ~RunningIn(pages, FlattenSeq(pages)[y].mark)
        PROVE  \E x \in 1..Len(FlattenSeq(clean)) : m[x] = y
    <2>1. PICK i \in 1..n : \E k \in 1..Len(pages[i]) : y = End(pages, i - 1) + k
      BY Places DEF n
    <2>2. PICK k \in 1..Len(pages[i]) : y = End(pages, i - 1) + k
      BY <2>1
    <2>3. FlattenSeq(pages)[y] = pages[i][k]
      <3>1. i \in 1..Len(pages)
        BY DEF n
      <3> QED  BY <2>2, <3>1, Places
    <2>4. pages[i][k].mark \notin headers \cup footers
      <3> DEFINE mark == pages[i][k].mark
      <3>1. ~RunningIn(pages, mark)
        BY <1>8, <2>3
      <3> HIDE DEF mark
      <3>2. mark \notin headers /\ mark \notin footers
        BY <3>1, RepeatedRun DEF headers, footers, IsRepeated
      <3> QED  BY <3>2 DEF mark
    <2> DEFINE j == k - off[i]
    <2>5. j \in 1..Len(clean[i])
      BY <1>5, <2>4
    <2>6. PlaceOf(pages, off, i, j) = y
      <3>1. off[i] \in Nat /\ k \in Nat /\ End(pages, i - 1) \in Nat
        <4>1. i - 1 \in 0..Len(pages)
          BY <1>1 DEF n
        <4>2. End(pages, i - 1) \in Nat
          BY <4>1, Ends
        <4>3. Len(pages[i]) \in Nat
          BY <1>1, LenProperties
        <4> QED  BY <1>5, <4>2, <4>3
      <3>2. PlaceOf(pages, off, i, j) = End(pages, i - 1) + off[i] + (k - off[i])
        BY DEF PlaceOf
      <3> HIDE DEF j
      <3> QED  BY <2>2, <3>1, <3>2
    <2> HIDE DEF j
    <2>7. i \in 1..Len(pages)
      BY DEF n
    <2> QED  BY <1>7, <2>5, <2>6, <2>7 DEF Reaches
  <1> QED  BY <1>7, <1>8 DEF clean

-----------------------------------------------------------------------------
(* The sections of a document. *)

\* The words of a list of blocks are those of its blocks.
LEMMA WordsOfBlocks ==
    ASSUME NEW blocks \in Seq(Block)
    PROVE  /\ WordsOf(blocks) \in Seq(Word)
           /\ \A w : w \in Range(WordsOf(blocks)) <=>
                \E x \in 1..Len(blocks) : w \in Range(FlattenSeq(blocks[x].sentences))
  <1> DEFINE V == Seq(Word)  n == Len(blocks)
             lists == [i \in DOMAIN blocks |-> FlattenSeq(blocks[i].sentences)]
  <1>1. n \in Nat /\ DOMAIN blocks = 1..n /\ \A i \in 1..n : blocks[i] \in Block
    BY LenProperties
  <1>2. \A b \in Block : FlattenSeq(b.sentences) \in V
    BY SentencesType, Flattened
  <1>3. /\ lists = [i \in 1..n |-> lists[i]]
        /\ \A i \in 1..n : lists[i] = FlattenSeq(blocks[i].sentences) /\ lists[i] \in V
    BY <1>1, <1>2
  <1> HIDE DEF lists, V, n
  <1>4. lists \in Seq(V) /\ Len(lists) = n
    BY <1>1, <1>3, FunctionList
  <1>5. lists \in Seq(Seq(Word))
    BY <1>4 DEF V
  <1>6. /\ FlattenSeq(lists) \in Seq(Word)
        /\ \A w : w \in Range(FlattenSeq(lists)) <=> \E i \in 1..n : w \in Range(lists[i])
    BY <1>4, <1>5, Flattened
  <1>7. WordsOf(blocks) = FlattenSeq(lists)
    BY DEF WordsOf, lists
  <1> QED  BY <1>3, <1>6, <1>7 DEF n

\* A paragraph has words.
LEMMA ParagraphWords ==
    ASSUME NEW b \in Block, b.heading = NoHeading
    PROVE  FlattenSeq(b.sentences) \in Seq(Word) /\ FlattenSeq(b.sentences) # <<>>
  <1>1. Paragraphs(<<b>>)
    <2>1. <<b>> \in Seq(Block) /\ Len(<<b>>) = 1 /\ <<b>>[1] = b
      OBVIOUS
    <2>2. \A i \in 1..1 : i = 1
      OBVIOUS
    <2> HIDE DEF Paragraphs
    <2> QED  BY <2>1, <2>2 DEF Paragraphs
  <1>2. 1 \in 1..Len(<<b>>) /\ <<b>>[1] = b
    OBVIOUS
  <1>3. Sentences(<<b>>[1].sentences)
    BY <1>1, <1>2, HaveSentences
  <1> QED  BY <1>2, <1>3, ParagraphText

\* A section with a paragraph has words.
LEMMA HaveWords ==
    ASSUME NEW blocks \in Seq(Block), NEW x \in 1..Len(blocks), blocks[x].heading = NoHeading
    PROVE  WordsOf(blocks) # <<>>
  <1> DEFINE text == FlattenSeq(blocks[x].sentences)
  <1>1. text \in Seq(Word) /\ text # <<>>
    <2>1. blocks[x] \in Block
      BY LenProperties
    <2> QED  BY <2>1, ParagraphWords
  <1> HIDE DEF text
  <1>2. Head(text) \in Range(text)
    BY <1>1, InList
  <1>3. Head(text) \in Range(WordsOf(blocks))
    BY <1>2, WordsOfBlocks DEF text
  <1>4. WordsOf(blocks) = <<>> => Range(WordsOf(blocks)) = {}
    BY DEF Range
  <1> QED  BY <1>3, <1>4

\* The text after a heading: up to the next one, or to the end.
IsBody(blocks, first, e, body) ==
    /\ e \in first..Len(blocks) /\ body = SubSeq(blocks, first + 1, e)
    /\ \A k \in (first + 1)..e : blocks[k].heading = NoHeading
    /\ e = Len(blocks) \/ blocks[e + 1].heading # NoHeading

BodyOf(blocks, first) ==
    LET after == SubSeq(blocks, first + 1, Len(blocks))
        next == {i \in DOMAIN after : after[i].heading # NoHeading}
    IN  SubSeq(after, 1, (IF next = {} THEN Len(after) + 1 ELSE Min(next)) - 1)

\* The blocks after a heading, up to the next.
LEMMA BodyIs ==
    ASSUME NEW blocks \in Seq(Block), NEW first \in 1..Len(blocks)
    PROVE  \E e : IsBody(blocks, first, e, BodyOf(blocks, first))
  <1> DEFINE n == Len(blocks)  a == first + 1  after == SubSeq(blocks, a, n)  m == n - first
             next == {i \in DOMAIN after : after[i].heading # NoHeading}
             d == (IF next = {} THEN Len(after) + 1 ELSE Min(next)) - 1
             e == first + d
  <1>1. n \in Nat /\ first \in Nat /\ first <= n /\ a \in Nat \ {0} /\ a <= n + 1 /\ m \in Nat /\ n - a + 1 = m
    <2>1. n \in Nat
      BY LenProperties
    <2> QED  BY <2>1
  <1> HIDE DEF a
  <1>2. after \in Seq(Block) /\ Len(after) = m /\ \A k \in 1..m : after[k] = blocks[a + k - 1]
    <2>1. n <= Len(blocks) /\ blocks \in Seq(Block)
      BY <1>1
    <2> HIDE DEF n
    <2> QED  BY <1>1, <2>1, PartIs
  <1> HIDE DEF after
  <1>3. DOMAIN after = 1..m
    BY <1>2, LenProperties
  <1>4. /\ d \in 0..m
        /\ \A k \in 1..d : after[k].heading = NoHeading
        /\ d < m => after[d + 1].heading # NoHeading
    <2>1. CASE next = {}
      <3>1. d = m + 1 - 1
        BY <1>2, <2>1
      <3>2. d = m /\ m \in Nat
        BY <1>1, <3>1
      <3>3. \A k \in 1..m : after[k].heading = NoHeading
        BY <1>3, <2>1
      <3> HIDE DEF d, m
      <3> QED  BY <3>2, <3>3
    <2>2. CASE next # {}
      <3> DEFINE g == Min(next)
      <3>1. \E i \in next : \A j \in next : i <= j
        <4>1. next \in SUBSET Nat
          BY <1>3
        <4> HIDE DEF next
        <4> QED  BY <2>2, <4>1, SmallestNumber
      <3>2. g \in next /\ \A j \in next : g <= j
        BY <3>1 DEF Min
      <3>3. d = g - 1
        BY <2>2
      <3> HIDE DEF g, d
      <3>4. g \in 1..m /\ after[g].heading # NoHeading /\ \A j \in 1..m : after[j].heading # NoHeading => g <= j
        BY <1>3, <3>2
      <3>5. m \in Nat
        BY <1>1
      <3> HIDE DEF next, m
      <3>6. d \in 0..m /\ d + 1 = g
        BY <3>3, <3>4, <3>5
      <3>7. \A k \in 1..d : after[k].heading = NoHeading
        <4> SUFFICES ASSUME NEW k \in 1..d, after[k].heading # NoHeading PROVE FALSE
          OBVIOUS
        <4>1. k \in 1..m /\ ~(g <= k)
          BY <3>5, <3>6
        <4> QED  BY <3>4, <4>1
      <3> QED  BY <3>4, <3>6, <3>7
    <2> QED  BY <2>1, <2>2
  <1>5. BodyOf(blocks, first) = SubSeq(after, 1, d)
    BY DEF BodyOf, after, a
  <1> HIDE DEF d, next
  <1>6. e \in first..n /\ d \in Nat /\ e \in Nat /\ e = first + d
    BY <1>1, <1>4
  <1> HIDE DEF e
  <1>7. SubSeq(after, 1, d) = SubSeq(blocks, a, e)
    <2> DEFINE u == SubSeq(after, 1, d)  v == SubSeq(blocks, a, e)
    <2>1. u \in Seq(Block) /\ Len(u) = d - 1 + 1 /\ \A k \in 1..(d - 1 + 1) : u[k] = after[1 + k - 1]
      <3>1. d <= Len(after) /\ 1 \in Nat \ {0} /\ 1 <= d + 1
        BY <1>1, <1>2, <1>4, <1>6
      <3> QED  BY <1>2, <1>6, <3>1, PartIs
    <2>2. v \in Seq(Block) /\ Len(v) = e - a + 1 /\ \A k \in 1..(e - a + 1) : v[k] = blocks[a + k - 1]
      <3>1. e <= Len(blocks) /\ a <= e + 1
        BY <1>1, <1>6 DEF n, a
      <3> QED  BY <1>1, <1>6, <3>1, PartIs
    <2>3. d - 1 + 1 = d /\ e - a + 1 = d
      BY <1>1, <1>6 DEF a
    <2>4. ASSUME NEW k \in 1..d PROVE u[k] = v[k]
      <3>1. k \in 1..m /\ 1 + k - 1 = k
        BY <1>1, <1>4
      <3> HIDE DEF u, v, m
      <3> QED  BY <1>2, <2>1, <2>2, <2>3, <3>1
    <2> HIDE DEF u, v
    <2>5. u = v
      BY <2>1, <2>2, <2>3, <2>4, SeqEqual
    <2> QED  BY <2>5 DEF u, v
  <1>8. ASSUME NEW k \in (first + 1)..e PROVE blocks[k].heading = NoHeading
    <2>1. PICK j : j = k - first
      OBVIOUS
    <2>2. j \in 1..d /\ j \in 1..m /\ a + j - 1 = k
      BY <1>1, <1>4, <1>6, <2>1 DEF a
    <2> HIDE DEF m
    <2> QED  BY <1>2, <1>4, <2>2
  <1>9. ASSUME e # n PROVE blocks[e + 1].heading # NoHeading
    <2>1. PICK j : j = d + 1
      OBVIOUS
    <2>2. j \in 1..m /\ d < m /\ a + j - 1 = e + 1
      <3>1. e < n
        <4> HIDE DEF n
        <4> QED  BY <1>1, <1>6, <1>9
      <3>2. d < m /\ m \in Nat /\ d \in Nat
        <4> HIDE DEF n
        <4> QED  BY <1>1, <1>6, <3>1
      <3>3. a + j - 1 = e + 1
        BY <1>1, <1>6, <2>1, <3>2 DEF a
      <3> HIDE DEF m
      <3> QED  BY <2>1, <3>2, <3>3
    <2> HIDE DEF m
    <2> QED  BY <1>2, <1>4, <2>1, <2>2
  <1>10. IsBody(blocks, first, e, BodyOf(blocks, first))
    BY <1>5, <1>6, <1>7, <1>8, <1>9 DEF IsBody, a, n
  <1> QED  BY <1>10

\* m leads everywhere from a to e.
LeadsTo(m, n, a, e) == \A j \in a..e : \E x \in 1..n : m[x] = j

\* A part of a list comes from it.
LEMMA PartComes ==
    ASSUME NEW T, NEW s \in Seq(T), NEW h \in Nat, NEW e \in h..Len(s)
    PROVE  \E m : /\ ComesFrom(SubSeq(s, h + 1, e), s, m)
                  /\ LeadsTo(m, Len(SubSeq(s, h + 1, e)), h + 1, e)
  <1> DEFINE a == h + 1  t == SubSeq(s, a, e)  n == e - h  m == [x \in 1..n |-> h + x]
  <1>1. /\ a \in Nat \ {0} /\ e \in Nat /\ e <= Len(s) /\ a <= e + 1 /\ e - a + 1 = n /\ n \in Nat
        /\ Len(s) \in Nat /\ e = h + n
    <2>1. Len(s) \in Nat
      BY LenProperties
    <2> QED  BY <2>1
  <1> HIDE DEF a
  <1>2. t \in Seq(T) /\ Len(t) = n /\ \A k \in 1..n : t[k] = s[a + k - 1]
    <2>1. /\ SubSeq(s, a, e) \in Seq(T) /\ Len(SubSeq(s, a, e)) = e - a + 1
          /\ \A k \in 1..(e - a + 1) : SubSeq(s, a, e)[k] = s[a + k - 1]
      BY <1>1, PartIs
    <2> HIDE DEF n
    <2> QED  BY <1>1, <2>1
  <1> HIDE DEF t, n
  <1>3. \A x \in 1..n : h + x \in 1..Len(s) /\ a + x - 1 = h + x
    BY <1>1 DEF a
  <1>4. m \in [1..n -> 1..Len(s)] /\ \A x \in 1..n : m[x] = h + x
    BY <1>3
  <1> HIDE DEF m
  <1>5. \A x \in 1..n : t[x] = s[m[x]]
    BY <1>2, <1>3, <1>4
  <1>6. \A x, y \in 1..n : x < y => m[x] < m[y]
    <2> SUFFICES ASSUME NEW x \in 1..n, NEW y \in 1..n, x < y PROVE m[x] < m[y]
      OBVIOUS
    <2>1. m[x] = h + x /\ m[y] = h + y
      BY <1>4
    <2> QED  BY <1>1, <2>1
  <1>7. ComesFrom(t, s, m)
    BY <1>2, <1>4, <1>5, <1>6 DEF ComesFrom
  <1>8. ASSUME NEW j \in a..e PROVE \E x \in 1..n : m[x] = j
    <2>1. PICK x : x = j - h
      OBVIOUS
    <2>2. x \in 1..n /\ h + x = j
      BY <1>1, <2>1 DEF a
    <2> QED  BY <1>4, <2>2
  <1>9. LeadsTo(m, Len(t), a, e)
    BY <1>2, <1>8 DEF LeadsTo
  <1> QED  BY <1>7, <1>9 DEF t, a

\* Blocks as they may be found in a section: text after a heading, or without any.
InSection(blocks, j) ==
    /\ blocks[j].heading = NoHeading
    /\ \/ \E h \in 1..Len(blocks) : h < j /\ blocks[h].heading # NoHeading
       \/ \A h \in 1..Len(blocks) : blocks[h].heading = NoHeading

\* A section is a part of the document that has text and no headings.
IsSection(blocks, body) ==
    Paragraphs(body) /\ WordsOf(body) # <<>> /\ \E m : ComesFrom(body, blocks, m)

\* The sections, and what is in one of them (recover_sections).
LEMMA Recovered ==
    ASSUME NEW pages \in Seq(Seq(Block))
    PROVE  /\ \A s \in Range(RecoverSections(pages)) : IsSection(FlattenSeq(pages), s.blocks)
           /\ \A j \in 1..Len(FlattenSeq(pages)) : InSection(FlattenSeq(pages), j) =>
                 \E s \in Range(RecoverSections(pages)) : \E x \in 1..Len(s.blocks) :
                    s.blocks[x] = FlattenSeq(pages)[j]
  <1> DEFINE blocks == FlattenSeq(pages)  list == RecoverSections(pages)  n == Len(blocks)
             Section(i) == [type |-> blocks[i].heading, blocks |-> BodyOf(blocks, i)]
             H == {i \in DOMAIN blocks : blocks[i].heading # NoHeading}
             headings == Ascending(H)
             all == IF headings = <<>> THEN <<[type |-> "other", blocks |-> blocks]>>
                    ELSE [i \in DOMAIN headings |-> Section(headings[i])]
             S == {section \in Range(all) : WordsOf(section.blocks) # <<>>}
  <1>1. list = Picked(all, S)
    BY DEF RecoverSections, BodyOf
  <1>2. blocks \in Seq(Block) /\ n \in Nat /\ DOMAIN blocks = 1..n
    <2>1. blocks \in Seq(Block)
      BY Flattened
    <2> HIDE DEF blocks
    <2> QED  BY <2>1, LenProperties
  <1> HIDE DEF blocks, list
  <1> DEFINE c == Cardinality(H)
  <1>3. H \in SUBSET Nat /\ H \subseteq 1..n /\ IsFiniteSet(H) /\ c \in Nat
    <2>1. H \subseteq 1..n
      BY <1>2
    <2>2. IsFiniteSet(1..n)
      BY <1>2, UpTo
    <2> HIDE DEF H
    <2>3. IsFiniteSet(H)
      BY <2>1, <2>2, FS_Subset
    <2> QED  BY <1>2, <2>1, <2>3, FS_CardinalityType
  <1>4. headings \in [1..c -> H] /\ \A x \in H : \E i \in 1..c : headings[i] = x
    <2> HIDE DEF H
    <2> QED  BY <1>3, AscendingList
  <1>5. Range(all) = IF H = {} THEN {[type |-> "other", blocks |-> blocks]} ELSE {Section(i) : i \in H}
    <2>1. CASE headings = <<>>
      <3>1. DOMAIN headings = 1..c /\ DOMAIN <<>> = {}
        BY <1>4
      <3>2. \A x \in H : FALSE
        <4> HIDE DEF headings, H, c
        <4> QED  BY <1>4, <2>1, <3>1
      <3>3. all = <<[type |-> "other", blocks |-> blocks]>>
        BY <2>1
      <3> DEFINE only == [type |-> "other", blocks |-> blocks]
      <3>4. all = <<only>> /\ H = {}
        BY <3>2, <3>3
      <3> HIDE DEF all, only, H
      <3>5. Range(<<only>>) = {only}
        BY DEF Range
      <3> QED  BY <3>4, <3>5 DEF only
    <2>2. CASE headings # <<>>
      <3>1. all = [i \in 1..c |-> Section(headings[i])]
        BY <1>4, <2>2
      <3>2. H # {}
        <4> SUFFICES ASSUME H = {} PROVE FALSE
          OBVIOUS
        <4> HIDE DEF headings, H
        <4>1. \A i \in 1..c : FALSE
          BY <1>4
        <4>2. 1..c = {}
          BY <4>1
        <4>3. headings \in [{} -> H]
          BY <1>4, <4>2
        <4>4. headings = <<>>
          BY <4>3
        <4> QED  BY <2>2, <4>4
      <3> HIDE DEF all, headings, H, c, Section
      <3>3. Range(all) = {Section(headings[i]) : i \in 1..c}
        BY <3>1 DEF Range
      <3>4. {Section(headings[i]) : i \in 1..c} = {Section(i) : i \in H}
        BY <1>4
      <3> QED  BY <3>2, <3>3, <3>4
    <2> QED  BY <2>1, <2>2
  <1>6. Range(list) = {s \in Range(all) : WordsOf(s.blocks) # <<>>}
    <2>1. all \in Seq(Range(all))
      <3>1. CASE headings = <<>>
        <4>1. all = <<[type |-> "other", blocks |-> blocks]>>
          BY <3>1
        <4> DEFINE only == [type |-> "other", blocks |-> blocks]
        <4>2. all = <<only>>
          BY <4>1
        <4> HIDE DEF all, only
        <4>3. <<only>> \in Seq(Range(<<only>>))
          BY DEF Range
        <4> QED  BY <4>2, <4>3
      <3>2. CASE headings # <<>>
        <4>1. all = [i \in 1..c |-> Section(headings[i])]
          BY <1>4, <3>2
        <4>2. all = [i \in 1..c |-> all[i]]
          BY <4>1
        <4> HIDE DEF all
        <4> QED  BY <1>3, <4>2, InOrder
      <3> QED  BY <3>1, <3>2
    <2> HIDE DEF all, S
    <2>2. Range(Picked(all, S)) = Range(all) \cap S
      BY <2>1, PickedSet
    <2> QED  BY <1>1, <2>2 DEF S
  <1> HIDE DEF all, S, headings, c
  <1>7. ASSUME NEW i \in H
        PROVE  /\ Paragraphs(BodyOf(blocks, i)) /\ \E m : ComesFrom(BodyOf(blocks, i), blocks, m)
    <2> DEFINE body == BodyOf(blocks, i)
    <2>1. i \in 1..n /\ i \in Nat
      BY <1>3
    <2>2. PICK e : IsBody(blocks, i, e, body)
      BY <1>2, <2>1, BodyIs
    <2>3. /\ e \in i..n /\ body = SubSeq(blocks, i + 1, e) /\ \A k \in (i + 1)..e : blocks[k].heading = NoHeading
      BY <2>2 DEF IsBody
    <2> HIDE DEF body
    <2>4. PICK m : ComesFrom(body, blocks, m)
      BY <1>2, <2>1, <2>3, PartComes
    <2> DEFINE a == i + 1
    <2>5. a \in Nat \ {0} /\ e \in Nat /\ e <= n /\ a <= e + 1
      BY <1>2, <2>1, <2>3
    <2>a. body = SubSeq(blocks, a, e)
      BY <2>3
    <2> HIDE DEF a
    <2>6. body \in Seq(Block) /\ Len(body) = e - a + 1 /\ \A k \in 1..(e - a + 1) : body[k] = blocks[a + k - 1]
      BY <1>2, <2>5, <2>a, PartIs
    <2>7. ASSUME NEW k \in 1..(e - a + 1) PROVE body[k].heading = NoHeading
      <3>1. PICK j : j = a + k - 1
        OBVIOUS
      <3>2. j \in (i + 1)..e
        BY <2>1, <2>5, <3>1 DEF a
      <3> QED  BY <2>3, <2>6, <3>1, <3>2
    <2>8. Paragraphs(body)
      BY <2>6, <2>7 DEF Paragraphs
    <2> QED  BY <2>4, <2>8 DEF body
  <1>8. ASSUME NEW s \in Range(list) PROVE IsSection(blocks, s.blocks)
    <2>1. WordsOf(s.blocks) # <<>> /\ s \in Range(all)
      BY <1>6
    <2>2. CASE H = {}
      <3>1. s = [type |-> "other", blocks |-> blocks]
        BY <1>5, <2>1, <2>2
      <3>2. s.blocks = blocks
        BY <3>1
      <3>3. Paragraphs(blocks)
        BY <1>2, <2>2 DEF Paragraphs
      <3>4. \E m : ComesFrom(blocks, blocks, m)
        <4>1. [x \in 1..n |-> x] \in [1..n -> 1..n] /\ \A x \in 1..n : [y \in 1..n |-> y][x] = x
          OBVIOUS
        <4>2. ComesFrom(blocks, blocks, [x \in 1..n |-> x])
          BY <4>1 DEF ComesFrom
        <4> QED  BY <4>2
      <3> QED  BY <2>1, <3>2, <3>3, <3>4 DEF IsSection
    <2>3. CASE H # {}
      <3>1. PICK i \in H : s = Section(i)
        BY <1>5, <2>1, <2>3
      <3>2. s.blocks = BodyOf(blocks, i)
        BY <3>1
      <3> QED  BY <1>7, <2>1, <3>2 DEF IsSection
    <2> QED  BY <2>2, <2>3
  <1>9. ASSUME NEW j \in 1..n, InSection(blocks, j)
        PROVE  \E s \in Range(list) : \E x \in 1..Len(s.blocks) : s.blocks[x] = blocks[j]
    <2>1. blocks[j].heading = NoHeading
      BY <1>9 DEF InSection
    <2>2. CASE H = {}
      <3> DEFINE s == [type |-> "other", blocks |-> blocks]
      <3>1. s \in Range(all) /\ s.blocks = blocks
        BY <1>5, <2>2
      <3>2. WordsOf(blocks) # <<>>
        BY <1>2, <2>1, HaveWords
      <3> HIDE DEF s
      <3>3. s \in Range(list)
        BY <1>6, <3>1, <3>2
      <3> QED  BY <3>1, <3>3
    <2>3. CASE H # {}
      <3>1. PICK h \in 1..n : h < j /\ blocks[h].heading # NoHeading
        <4>1. PICK h \in H : TRUE
          BY <2>3
        <4>2. h \in 1..Len(blocks) /\ blocks[h].heading # NoHeading
          BY <1>3
        <4> QED  BY <1>9, <4>2 DEF InSection
      <3> DEFINE G == {i \in H : i < j}  g == Max(G)
      <3>2. h \in G
        BY <1>2, <3>1
      <3>3. g \in G /\ \A i \in G : i <= g
        <4>1. G \in SUBSET (0..n) /\ G # {}
          <5>1. \A i \in G : i \in 1..n
            BY <1>3
          <5>2. \A i \in 1..n : i \in 0..n
            BY <1>2
          <5> HIDE DEF G
          <5> QED  BY <3>2, <5>1, <5>2
        <4> HIDE DEF G
        <4> QED  BY <1>2, <4>1, Greatest
      <3>4. g \in H /\ g < j /\ g \in 1..n /\ \A i \in H : i < j => i <= g
        BY <1>3, <3>3
      <3> HIDE DEF g, G
      <3> DEFINE body == BodyOf(blocks, g)
      <3>5. PICK e : IsBody(blocks, g, e, body)
        BY <1>2, <3>4, BodyIs
      <3>6. /\ e \in g..n /\ body = SubSeq(blocks, g + 1, e)
            /\ e = n \/ blocks[e + 1].heading # NoHeading
        BY <3>5 DEF IsBody
      <3> HIDE DEF body, n, H
      <3>a. e \in Nat /\ j \in Nat /\ g \in Nat /\ j \in 1..n /\ g <= e /\ e <= n
        BY <1>2, <3>4, <3>6
      <3>7. j <= e
        <4> SUFFICES ASSUME e < j PROVE FALSE
          BY <3>a
        <4>1. PICK k : k = e + 1
          OBVIOUS
        <4>2. k \in 1..n /\ k <= j /\ e # n /\ ~(k <= g)
          BY <1>2, <3>a, <4>1
        <4>3. blocks[k].heading # NoHeading
          BY <3>6, <4>1, <4>2
        <4>4. k # j
          BY <2>1, <4>3
        <4>5. k \in H /\ k < j
          BY <1>2, <3>a, <4>2, <4>3, <4>4 DEF H
        <4> QED  BY <3>4, <4>2, <4>5
      <3>8. g \in Nat /\ e \in g..Len(blocks) /\ j \in (g + 1)..e
        <4>1. e \in g..n /\ j \in (g + 1)..e
          BY <1>2, <3>a, <3>4, <3>7
        <4> QED  BY <3>a, <4>1 DEF n
      <3>9. PICK m : ComesFrom(body, blocks, m) /\ LeadsTo(m, Len(body), g + 1, e)
        BY <1>2, <3>6, <3>8, PartComes
      <3>10. PICK x \in 1..Len(body) : m[x] = j
        BY <3>8, <3>9 DEF LeadsTo
      <3>11. body[x] = blocks[j]
        BY <3>9, <3>10 DEF ComesFrom
      <3>12. WordsOf(body) # <<>>
        <4>1. body \in Seq(Block)
          BY <1>7, <3>4 DEF Paragraphs, body
        <4> QED  BY <2>1, <3>11, <4>1, HaveWords
      <3>13. Section(g) \in Range(all) /\ Section(g).blocks = body
        BY <1>5, <2>3, <3>4 DEF body
      <3> HIDE DEF Section
      <3>14. Section(g) \in Range(list)
        BY <1>6, <3>12, <3>13
      <3> QED  BY <3>11, <3>13, <3>14
    <2> QED  BY <2>2, <2>3
  <1> QED  BY <1>8, <1>9 DEF blocks, list

\* A section has text, no heading in it, and distinct words.
LEMMA SectionsApart ==
    ASSUME NEW pages \in Seq(Seq(Block)), IsInjective(WordsOf(FlattenSeq(pages))),
           NEW s \in Range(RecoverSections(CleanPages(pages)))
    PROVE  Paragraphs(s.blocks) /\ WordsOf(s.blocks) # <<>> /\ IsInjective(WordsOf(s.blocks))
  <1> DEFINE clean == CleanPages(pages)  A == FlattenSeq(pages)  B == FlattenSeq(clean)  body == s.blocks
  <1>1. clean \in Seq(Seq(Block))
    BY CleanPagesType
  <1>2. A \in Seq(Block) /\ B \in Seq(Block)
    <2> HIDE DEF clean
    <2> QED  BY <1>1, Flattened
  <1>3. PICK m : ComesFrom(B, A, m)
    BY KeptBlocks
  <1>4. IsSection(B, body)
    <2> HIDE DEF B
    <2>1. s \in Range(RecoverSections(clean))
      OBVIOUS
    <2> HIDE DEF clean
    <2> USE DEF B
    <2> QED  BY <1>1, <2>1, Recovered
  <1> HIDE DEF A, B, clean, body
  <1>5. Paragraphs(body) /\ WordsOf(body) # <<>> /\ body \in Seq(Block)
    BY <1>4 DEF IsSection, Paragraphs
  <1>6. PICK q : ComesFrom(body, B, q)
    BY <1>4 DEF IsSection
  <1>7. IsInjective(WordsOf(A))
    BY DEF A
  <1>8. IsInjective(WordsOf(B))
    BY <1>2, <1>3, <1>7, WordsApart
  <1>9. IsInjective(WordsOf(body))
    BY <1>2, <1>5, <1>6, <1>8, WordsApart
  <1> QED  BY <1>5, <1>9 DEF body

\* The places of the blocks whose words must be kept, of those that are no running line.
Keeps(pages, i) ==
    LET blocks == FlattenSeq(pages)
        headings == {j \in DOMAIN blocks : blocks[j].heading # NoHeading}
    IN  \/ \E j \in headings : ~RunningIn(pages, blocks[j].mark) /\ j < i
        \/ \A j \in headings : j <= i

\* A word to keep is in a block to keep.
LEMMA ToKeep ==
    ASSUME NEW pages \in Seq(Seq(Block)), NEW w \in WordsToKeep(pages)
    PROVE  \E i \in 1..Len(FlattenSeq(pages)) :
             /\ ~RunningIn(pages, FlattenSeq(pages)[i].mark) /\ Keeps(pages, i)
             /\ w \in Range(FlattenSeq(FlattenSeq(pages)[i].sentences))
  <1> DEFINE blocks == FlattenSeq(pages)
             own == {i \in DOMAIN blocks : ~RunningIn(pages, blocks[i].mark)}
  <1>1. WordsToKeep(pages) = UNION {Range(WordsOf(<<blocks[i]>>)) : i \in {j \in own : Keeps(pages, j)}}
    BY DEF WordsToKeep, RunningIn, Keeps
  <1>2. blocks \in Seq(Block) /\ DOMAIN blocks = 1..Len(blocks)
    <2>1. blocks \in Seq(Block)
      BY Flattened
    <2> HIDE DEF blocks
    <2> QED  BY <2>1, LenProperties
  <1> HIDE DEF blocks
  <1>3. PICK i \in own : Keeps(pages, i) /\ w \in Range(WordsOf(<<blocks[i]>>))
    BY <1>1
  <1>4. i \in 1..Len(blocks) /\ ~RunningIn(pages, blocks[i].mark) /\ blocks[i] \in Block
    BY <1>2, LenProperties
  <1> DEFINE b == blocks[i]
  <1>5. w \in Range(FlattenSeq(b.sentences))
    <2>1. b \in Block /\ w \in Range(WordsOf(<<b>>))
      BY <1>3, <1>4
    <2> HIDE DEF b
    <2>2. <<b>> \in Seq(Block) /\ Len(<<b>>) = 1 /\ <<b>>[1] = b
      BY <2>1
    <2>3. PICK x \in 1..1 : w \in Range(FlattenSeq(<<b>>[x].sentences))
      BY <2>1, <2>2, WordsOfBlocks
    <2>4. x = 1
      OBVIOUS
    <2> QED  BY <2>2, <2>3, <2>4
  <1> QED  BY <1>3, <1>4, <1>5 DEF blocks

\* The words to keep are in the sections.
LEMMA WordsKept ==
    ASSUME NEW pages \in Seq(Seq(Block)), NEW w \in WordsToKeep(pages)
    PROVE  \E s \in Range(RecoverSections(CleanPages(pages))) : w \in Range(WordsOf(s.blocks))
  <1> DEFINE clean == CleanPages(pages)  A == FlattenSeq(pages)  B == FlattenSeq(clean)
             list == RecoverSections(clean)
  <1>1. clean \in Seq(Seq(Block))
    BY CleanPagesType
  <1>2. A \in Seq(Block) /\ B \in Seq(Block)
    <2> HIDE DEF clean
    <2> QED  BY <1>1, Flattened
  <1>3. PICK i \in 1..Len(A) : /\ ~RunningIn(pages, A[i].mark) /\ Keeps(pages, i)
                               /\ w \in Range(FlattenSeq(A[i].sentences))
    BY ToKeep
  <1>4. PICK m : /\ ComesFrom(B, A, m)
                 /\ \A y \in 1..Len(A) : ~RunningIn(pages, A[y].mark) => \E x \in 1..Len(B) : m[x] = y
    BY KeptBlocks
  <1>5. /\ \A s \in Range(list) : IsSection(B, s.blocks)
        /\ \A j \in 1..Len(B) : InSection(B, j) =>
              \E s \in Range(list) : \E x \in 1..Len(s.blocks) : s.blocks[x] = B[j]
    <2> HIDE DEF clean
    <2> QED  BY <1>1, Recovered
  <1>6. /\ Len(A) \in Nat /\ DOMAIN A = 1..Len(A) /\ \A k \in 1..Len(A) : A[k] \in Block
        /\ Len(B) \in Nat
    <2> HIDE DEF A, B
    <2> QED  BY <1>2, LenProperties
  <1>7. \/ \E j \in 1..Len(A) : A[j].heading # NoHeading /\ ~RunningIn(pages, A[j].mark) /\ j < i
        \/ \A j \in 1..Len(A) : A[j].heading # NoHeading => j <= i
    <2>1. Keeps(pages, i)
      BY <1>3
    <2> QED  BY <1>6, <2>1 DEF Keeps
  <1> HIDE DEF A, B, clean, list
  <1>8. PICK j \in 1..Len(B) : m[j] = i
    BY <1>3, <1>4
  <1>9. /\ m \in [1..Len(B) -> 1..Len(A)] /\ \A x \in 1..Len(B) : B[x] = A[m[x]]
        /\ \A x, y \in 1..Len(B) : x < y => m[x] < m[y]
    BY <1>4 DEF ComesFrom
  <1>10. B[j] = A[i]
    BY <1>8, <1>9
  <1>11. B[j].heading = NoHeading
    <2>1. A[i].heading = NoHeading <=> A[i].sentences # <<>>
      BY <1>6, BlockAssumption
    <2> SUFFICES ASSUME A[i].sentences = <<>> PROVE FALSE
      BY <1>10, <2>1
    <2>2. FlattenSeq(<<>>) = <<>>
      <3>1. <<>> \in Seq(Seq(Word)) /\ Len(<<>>) = 0
        OBVIOUS
      <3>2. Len(FlattenSeq(<<>>)) = 0 /\ FlattenSeq(<<>>) \in Seq(Word)
        <4>1. End(<<>>, 0) = 0 /\ End(<<>>, Len(<<>>)) = Len(FlattenSeq(<<>>))
          BY <3>1, Ends
        <4> QED  BY <3>1, <4>1, Flattened
      <3> QED  BY <3>2, EmptySeq
    <2>3. Range(<<>>) = {}
      BY DEF Range
    <2> QED  BY <1>3, <2>2, <2>3
  <1>12. InSection(B, j)
    <2>1. ASSUME NEW x \in 1..Len(B), m[x] < i PROVE x < j
      <3> DEFINE a == m[x]  b == m[j]
      <3>a. a \in 1..Len(A) /\ b \in 1..Len(A)
        BY <1>9
      <3> HIDE DEF a, b
      <3>b. a \in Nat /\ b \in Nat
        BY <1>6, <3>a
      <3>1. x \in Nat /\ j \in Nat /\ m[x] \in Nat /\ m[j] \in Nat
        <4>1. x \in Nat /\ j \in Nat
          BY <1>6
        <4> QED  BY <3>b, <4>1 DEF a, b
      <3> HIDE DEF a, b
      <3>2. ~(j < x)
        <4> SUFFICES ASSUME j < x PROVE FALSE
          OBVIOUS
        <4>1. m[j] < m[x]
          BY <1>9
        <4> QED  BY <1>8, <2>1, <3>1, <4>1
      <3>3. x # j
        BY <1>8, <2>1, <3>1
      <3> QED  BY <3>1, <3>2, <3>3
    <2>2. CASE \E k \in 1..Len(A) : A[k].heading # NoHeading /\ ~RunningIn(pages, A[k].mark) /\ k < i
      <3>1. PICK k \in 1..Len(A) : A[k].heading # NoHeading /\ ~RunningIn(pages, A[k].mark) /\ k < i
        BY <2>2
      <3>2. PICK x \in 1..Len(B) : m[x] = k
        BY <1>4, <3>1
      <3>3. x < j /\ B[x].heading # NoHeading
        BY <1>9, <2>1, <3>1, <3>2
      <3> QED  BY <1>11, <3>3 DEF InSection
    <2>3. CASE \A k \in 1..Len(A) : A[k].heading # NoHeading => k <= i
      <3>1. ASSUME NEW x \in 1..Len(B), B[x].heading # NoHeading PROVE x < j
        <4>1. m[x] \in 1..Len(A) /\ A[m[x]].heading # NoHeading
          BY <1>9, <3>1
        <4>2. m[x] <= i
          BY <2>3, <4>1
        <4>3. m[x] # i
          BY <1>10, <1>11, <4>1
        <4>4. m[x] < i
          BY <1>6, <4>1, <4>2, <4>3
        <4> QED  BY <2>1, <4>4
      <3> QED  BY <1>11, <3>1 DEF InSection
    <2> QED  BY <1>7, <2>2, <2>3
  <1>13. PICK s \in Range(list) : \E x \in 1..Len(s.blocks) : s.blocks[x] = B[j]
    BY <1>5, <1>12
  <1>14. PICK x \in 1..Len(s.blocks) : s.blocks[x] = B[j]
    BY <1>13
  <1>15. s.blocks \in Seq(Block)
    BY <1>5 DEF IsSection, Paragraphs
  <1>16. w \in Range(FlattenSeq(s.blocks[x].sentences))
    BY <1>3, <1>10, <1>14
  <1>17. w \in Range(WordsOf(s.blocks))
    BY <1>15, <1>16, WordsOfBlocks
  <1> QED  BY <1>17 DEF list, clean

-----------------------------------------------------------------------------
(* The chunks of a document. *)

\* The numbers of an interval in ascending order.
LEMMA AscendingInterval ==
    ASSUME NEW a \in Nat, NEW n \in Nat, NEW S, S = (a + 1)..(a + n)
    PROVE  Ascending(S) = [k \in 1..n |-> a + k]
  <1> DEFINE b == a + n  c == a + 1  list == Ascending(S)
  <1>1. c \in Int /\ b \in Int /\ S = c..b
    OBVIOUS
  <1>2. IsFiniteSet(S) /\ Cardinality(S) = n
    <2>1. IsFiniteSet(c..b) /\ Cardinality(c..b) = IF c > b THEN 0 ELSE b - c + 1
      <3> HIDE DEF c, b
      <3> QED  BY <1>1, FS_Interval
    <2>2. (IF c > b THEN 0 ELSE b - c + 1) = n
      OBVIOUS
    <2> QED  BY <1>1, <2>1, <2>2
  <1>3. S \in SUBSET Nat
    OBVIOUS
  <1> HIDE DEF list
  <1>4. /\ list \in [1..n -> S]
        /\ \A i \in 1..n : Cardinality({y \in S : y < list[i]}) = i - 1
    BY <1>2, <1>3, AscendingList DEF list
  <1>5. ASSUME NEW i \in 1..n PROVE list[i] = a + i
    <2> DEFINE x == list[i]  e == x - 1
    <2>1. x \in S
      BY <1>4
    <2>2. Cardinality({y \in S : y < x}) = i - 1
      BY <1>4
    <2> HIDE DEF x
    <2>3. {y \in S : y < x} = c..e /\ e \in Int /\ c <= e + 1
      BY <2>1
    <2> HIDE DEF c, e
    <2>4. Cardinality(c..e) = IF c > e THEN 0 ELSE e - c + 1
      BY <1>1, <2>3, FS_Interval
    <2>5. i - 1 = IF c > e THEN 0 ELSE e - c + 1
      BY <2>2, <2>3, <2>4
    <2> HIDE DEF b
    <2>6. x = a + i
      BY <1>1, <2>1, <2>3, <2>5 DEF c, e
    <2> QED  BY <2>6 DEF x
  <1>6. list = [i \in 1..n |-> list[i]]
    BY <1>4
  <1> QED  BY <1>5, <1>6 DEF list

\* The members of S are in a row in the list, n of them after the first a places.
InRow(list, S, a, n) ==
    a + n <= Len(list) /\ \A x \in 1..Len(list) : list[x] \in S <=> a < x /\ x <= a + n

InPlace(part, list, a, n) == part = [k \in 1..n |-> list[a + k]]

\* What is picked is a part of the list when its places are in a row.
LEMMA PickedPart ==
    ASSUME NEW T, NEW list \in Seq(T), NEW S, NEW a \in Nat, NEW n \in Nat, InRow(list, S, a, n)
    PROVE  InPlace(Picked(list, S), list, a, n)
  <1> USE DEF InRow, InPlace
  <1> DEFINE places == {i \in DOMAIN list : list[i] \in S}  order == Ascending(places)
  <1>1. DOMAIN list = 1..Len(list) /\ Len(list) \in Nat
    OBVIOUS
  <1>2. places = (a + 1)..(a + n)
    <2>1. ASSUME NEW x \in places PROVE x \in (a + 1)..(a + n)
      BY <1>1
    <2>2. ASSUME NEW x \in (a + 1)..(a + n) PROVE x \in places
      BY <1>1
    <2> QED  BY <2>1, <2>2
  <1> HIDE DEF places
  <1>3. order = [k \in 1..n |-> a + k]
    BY <1>2, AscendingInterval
  <1>4. Picked(list, S) = [i \in DOMAIN order |-> list[order[i]]]
    BY DEF Picked, At, places
  <1>5. DOMAIN order = 1..n /\ \A k \in 1..n : order[k] = a + k
    BY <1>3
  <1> HIDE DEF order
  <1> QED  BY <1>4, <1>5

\* Picked by what only one of the lists holds, that list is what is found of them all.
LEMMA PickedOwn ==
    ASSUME NEW T, NEW lists \in Seq(Seq(T)), NEW i \in 1..Len(lists), NEW S,
           \A h \in 1..Len(lists) : \A k \in 1..Len(lists[h]) : lists[h][k] \in S <=> h = i
    PROVE  Picked(FlattenSeq(lists), S) = lists[i]
  <1> DEFINE V == Seq(T)  all == FlattenSeq(lists)  a == End(lists, i - 1)  n == Len(lists[i])
  <1>1. Len(lists) \in Nat /\ \A h \in 1..Len(lists) : lists[h] \in V
    <2>1. lists \in Seq(V)
      OBVIOUS
    <2> HIDE DEF V
    <2> QED  BY <2>1
  <1>2. all \in Seq(T) /\ Len(all) \in Nat
    <2>1. all \in Seq(T)
      BY Flattened
    <2> HIDE DEF all
    <2> QED  BY <2>1
  <1>3. /\ \A h \in 0..Len(lists) : End(lists, h) \in Nat
        /\ End(lists, Len(lists)) = Len(all)
        /\ \A h \in 1..Len(lists) : End(lists, h) = End(lists, h - 1) + Len(lists[h])
        /\ \A h, j \in 0..Len(lists) : h <= j => End(lists, h) <= End(lists, j)
    BY Ends
  <1>4. /\ \A h \in 1..Len(lists) : \A k \in 1..Len(lists[h]) :
                /\ End(lists, h - 1) + k \in 1..Len(all)
                /\ all[End(lists, h - 1) + k] = lists[h][k]
        /\ \A x \in 1..Len(all) :
                \E h \in 1..Len(lists) : \E k \in 1..Len(lists[h]) : x = End(lists, h - 1) + k
    BY Places
  <1>5. i \in 0..Len(lists) /\ Len(lists) \in 0..Len(lists) /\ i - 1 \in 0..Len(lists) /\ i <= Len(lists)
    BY <1>1
  <1>6. a \in Nat
    BY <1>3, <1>5
  <1>7. n \in Nat
    <2>1. lists[i] \in V
      BY <1>1
    <2> QED  BY <2>1
  <1>8. a + n <= Len(all)
    <2>1. End(lists, i) = a + n
      BY <1>3
    <2>2. End(lists, i) <= End(lists, Len(lists))
      BY <1>3, <1>5
    <2> QED  BY <1>3, <2>1, <2>2
  <1> HIDE DEF all, a, n
  <1>9. ASSUME NEW x \in 1..Len(all) PROVE all[x] \in S <=> a < x /\ x <= a + n
    <2>1. PICK h \in 1..Len(lists) : \E k \in 1..Len(lists[h]) : x = End(lists, h - 1) + k
      BY <1>4
    <2>2. PICK k \in 1..Len(lists[h]) : x = End(lists, h - 1) + k
      BY <2>1
    <2>3. all[x] \in S <=> h = i
      <3>1. all[x] = lists[h][k]
        BY <1>4, <2>2
      <3>2. lists[h][k] \in S <=> h = i
        OBVIOUS
      <3> QED  BY <3>1, <3>2
    <2> DEFINE c == End(lists, h - 1)  d == End(lists, h)  m == Len(lists[h])
    <2>4. h - 1 \in 0..Len(lists) /\ h \in 0..Len(lists) /\ h \in Nat /\ i \in Nat
      BY <1>1
    <2>5. m \in Nat
      <3>1. lists[h] \in V
        BY <1>1
      <3> QED  BY <3>1
    <2>6. c \in Nat /\ d = c + m
      BY <1>3, <2>4
    <2>7. k \in 1..m /\ x = c + k
      BY <2>2
    <2>8. h = i => c = a /\ m = n
      BY DEF a, n
    <2>9. h < i => d <= a
      <3> SUFFICES ASSUME h < i PROVE d <= a
        OBVIOUS
      <3>1. h <= i - 1
        BY <2>4
      <3> QED  BY <1>3, <1>5, <2>4, <3>1 DEF a
    <2>10. i < h => a + n <= c
      <3> SUFFICES ASSUME i < h PROVE a + n <= c
        OBVIOUS
      <3>1. i <= h - 1
        BY <2>4
      <3>2. End(lists, i) <= c
        BY <1>3, <1>5, <2>4, <3>1
      <3>3. End(lists, i) = a + n
        BY <1>3 DEF a, n
      <3> QED  BY <3>2, <3>3
    <2> HIDE DEF c, d, m
    <2>11. h = i \/ h < i \/ i < h
      BY <2>4
    <2> QED  BY <1>6, <1>7, <2>3, <2>5, <2>6, <2>7, <2>8, <2>9, <2>10, <2>11
  <1>10. Picked(all, S) = [k \in 1..n |-> all[a + k]]
    <2>1. \A x \in 1..Len(all) : all[x] \in S <=> a < x /\ x <= a + n
      BY <1>9
    <2>2. InRow(all, S, a, n)
      BY <1>8, <2>1 DEF InRow
    <2>3. InPlace(Picked(all, S), all, a, n)
      BY <1>2, <1>6, <1>7, <2>2, PickedPart
    <2> QED  BY <2>3 DEF InPlace
  <1>11. \A k \in 1..n : all[a + k] = lists[i][k]
    BY <1>4 DEF a, n
  <1>12. lists[i] = [k \in 1..n |-> lists[i][k]]
    <2> DEFINE own == lists[i]
    <2>1. own \in Seq(T)
      BY <1>1
    <2> HIDE DEF own
    <2>2. own = [k \in 1..Len(own) |-> own[k]]
      BY <2>1
    <2> QED  BY <2>2 DEF n, own
  <1> QED  BY <1>10, <1>11, <1>12 DEF all

\* The chunks of one section, and of a document.
ChunksOf(p, parsed, i) ==
    [k \in DOMAIN ChunksOfSection(parsed[i].blocks) |->
        [id |-> <<p, i, k>>, text |-> ChunksOfSection(parsed[i].blocks)[k], type |-> parsed[i].type]]
DocumentChunks(p, parsed) == FlattenSeq([i \in DOMAIN parsed |-> ChunksOf(p, parsed, i)])

\* The chunks of a section have its place in their id, and hold its texts.
IsChunks(part, i, texts) ==
    /\ Len(part) = Len(texts) /\ DOMAIN part = 1..Len(texts)
    /\ \A k \in 1..Len(texts) : part[k].id[2] = i /\ part[k].text = texts[k]

\* The chunks of a document, section by section.
LEMMA SectionChunks ==
    ASSUME NEW p, NEW parsed, AreSections(parsed)
    PROVE  \E T, lists : /\ lists \in Seq(Seq(T)) /\ Len(lists) = Len(parsed)
                         /\ DocumentChunks(p, parsed) = FlattenSeq(lists)
                         /\ \A i \in 1..Len(parsed) :
                              IsChunks(lists[i], i, ChunksOfSection(parsed[i].blocks))
  <1> DEFINE V == Seq(Word)  ID == {p} \X Nat \X Nat
             T == [id : ID, text : V, type : {parsed[i].type : i \in DOMAIN parsed}]
             lists == [i \in DOMAIN parsed |-> ChunksOf(p, parsed, i)]
  <1>1. DOMAIN parsed = 1..Len(parsed) /\ Len(parsed) \in Nat
        /\ \A i \in DOMAIN parsed : parsed[i].blocks \in Seq(Block)
    BY InList DEF AreSections
  <1>2. ASSUME NEW i \in DOMAIN parsed
        PROVE  lists[i] \in Seq(T) /\ IsChunks(lists[i], i, ChunksOfSection(parsed[i].blocks))
    <2> DEFINE texts == ChunksOfSection(parsed[i].blocks)
               type == parsed[i].type
    <2>1. texts \in Seq(V)
      BY <1>1, ChunksType DEF Texts
    <2>2. lists[i] = [k \in DOMAIN texts |-> [id |-> <<p, i, k>>, text |-> texts[k], type |-> type]]
      BY DEF ChunksOf
    <2>3. type \in {parsed[j].type : j \in DOMAIN parsed} /\ i \in Nat
      BY <1>1
    <2> HIDE DEF texts, V, type, lists
    <2>4. Len(texts) \in Nat /\ DOMAIN texts = 1..Len(texts)
          /\ \A k \in DOMAIN texts : texts[k] \in V /\ k \in Nat
      BY <2>1
    <2>5. \A k \in DOMAIN texts : <<p, i, k>> \in ID
      BY <2>3, <2>4
    <2> HIDE DEF ID
    <2>6. \A k \in DOMAIN texts : [id |-> <<p, i, k>>, text |-> texts[k], type |-> type] \in T
      BY <2>3, <2>4, <2>5
    <2> DEFINE Chunk(k) == [id |-> <<p, i, k>>, text |-> texts[k], type |-> type]
               n == Len(texts)
    <2> HIDE DEF T
    <2>7. \A k \in 1..n : Chunk(k) \in T
      BY <2>4, <2>6
    <2>8. lists[i] = [k \in 1..n |-> Chunk(k)] /\ n \in Nat
      BY <2>2, <2>4
    <2>9. \A k \in 1..n : Chunk(k).id[2] = i /\ Chunk(k).text = texts[k]
      OBVIOUS
    <2> HIDE DEF Chunk, n
    <2>10. [k \in 1..n |-> Chunk(k)] \in Seq(T)
      BY <2>7, <2>8
    <2>11. Len(lists[i]) = n /\ DOMAIN lists[i] = 1..n /\ \A k \in 1..n : lists[i][k] = Chunk(k)
      BY <2>8
    <2>12. IsChunks(lists[i], i, texts)
      BY <2>9, <2>11 DEF IsChunks, n
    <2> QED  BY <2>8, <2>10, <2>12 DEF texts
  <1>3. lists \in Seq(Seq(T)) /\ Len(lists) = Len(parsed)
    <2> DEFINE W == Seq(T)
    <2>1. \A i \in DOMAIN parsed : lists[i] \in W
      BY <1>2
    <2>2. DOMAIN lists = DOMAIN parsed /\ lists = [i \in DOMAIN parsed |-> lists[i]]
      OBVIOUS
    <2> HIDE DEF W, lists
    <2>3. lists \in Seq(W) /\ Len(lists) = Len(parsed)
      BY <1>1, <2>1, <2>2
    <2> QED  BY <2>3 DEF W
  <1>4. DocumentChunks(p, parsed) = FlattenSeq(lists)
    BY DEF DocumentChunks
  <1>5. \A i \in 1..Len(parsed) : IsChunks(lists[i], i, ChunksOfSection(parsed[i].blocks))
    BY <1>1, <1>2
  <1> HIDE DEF T, lists
  <1> QED  BY <1>3, <1>4, <1>5

\* What the chunks of a section say is what the section was cut into, and they are all there.
LEMMA TextsOfSection ==
    ASSUME NEW p, NEW parsed, AreSections(parsed), NEW i \in 1..Len(parsed),
           NEW list, list = DocumentChunks(p, parsed),
           NEW own, own = Picked(list, {c \in Range(list) : c.id[2] = i})
    PROVE  /\ [k \in DOMAIN own |-> own[k].text] = ChunksOfSection(parsed[i].blocks)
           /\ \A k \in 1..Len(ChunksOfSection(parsed[i].blocks)) :
                \E c \in Range(list) : c.text = ChunksOfSection(parsed[i].blocks)[k]
  <1> DEFINE texts == ChunksOfSection(parsed[i].blocks)  S == {c \in Range(list) : c.id[2] = i}
  <1>1. PICK T, lists : /\ lists \in Seq(Seq(T)) /\ Len(lists) = Len(parsed)
                        /\ list = FlattenSeq(lists)
                        /\ \A h \in 1..Len(parsed) :
                             IsChunks(lists[h], h, ChunksOfSection(parsed[h].blocks))
    BY SectionChunks
  <1>2. list \in Seq(T) /\ Range(list) = {list[x] : x \in 1..Len(list)}
    <2>1. list \in Seq(T)
      BY <1>1, Flattened
    <2> QED  BY <2>1, InList DEF Range
  <1>3. texts \in Seq(Seq(Word))
    <2>1. parsed[i].blocks \in Seq(Block)
      BY InList DEF AreSections
    <2> QED  BY <2>1, ChunksType DEF Texts
  <1>4. texts = [k \in 1..Len(texts) |-> texts[k]] /\ DOMAIN texts = 1..Len(texts)
    <2> DEFINE V == Seq(Word)
    <2>1. texts \in Seq(V)
      BY <1>3
    <2> HIDE DEF texts, V
    <2> QED  BY <2>1
  <1>5. ASSUME NEW h \in 1..Len(lists), NEW k \in 1..Len(lists[h])
        PROVE  lists[h][k] \in Range(list) /\ lists[h][k].id[2] = h
    <2>1. End(lists, h - 1) + k \in 1..Len(list) /\ list[End(lists, h - 1) + k] = lists[h][k]
      BY <1>1, Places
    <2>2. lists[h][k] \in Range(list)
      BY <1>2, <2>1
    <2>3. IsChunks(lists[h], h, ChunksOfSection(parsed[h].blocks))
      BY <1>1
    <2> QED  BY <2>2, <2>3 DEF IsChunks
  <1>6. Picked(list, S) = lists[i]
    <2>1. \A h \in 1..Len(lists) : \A k \in 1..Len(lists[h]) : lists[h][k] \in S <=> h = i
      BY <1>5
    <2>2. i \in 1..Len(lists)
      BY <1>1
    <2> HIDE DEF S
    <2>3. Picked(FlattenSeq(lists), S) = lists[i]
      BY ONLY <1>1, <2>1, <2>2, PickedOwn
    <2> QED  BY <1>1, <2>3
  <1>7. IsChunks(own, i, texts)
    BY <1>1, <1>6
  <1> HIDE DEF texts
  <1>8. [k \in DOMAIN own |-> own[k].text] = texts
    BY <1>4, <1>7 DEF IsChunks
  <1>9. ASSUME NEW k \in 1..Len(texts) PROVE \E c \in Range(list) : c.text = texts[k]
    <2>1. own = lists[i] /\ i \in 1..Len(lists) /\ k \in 1..Len(lists[i])
      BY <1>1, <1>6, <1>7 DEF IsChunks
    <2>2. own[k] \in Range(list)
      BY <1>5, <2>1
    <2> QED  BY <1>7, <2>2 DEF IsChunks
  <1> QED  BY <1>8, <1>9 DEF texts

\* What ChunksAreFaithful says of one document.
DocumentFaithful(pages, parsed, list) ==
    LET Own(i) == LET own == Picked(list, {c \in Range(list) : c.id[2] = i})
                  IN  [k \in DOMAIN own |-> own[k].text]
    IN  /\ WordsToKeep(pages) \subseteq UNION {Range(c.text) : c \in Range(list)}
        /\ \A i \in DOMAIN parsed : /\ NothingLost(WordsOf(parsed[i].blocks), Own(i))
                                    /\ SizesBounded(Own(i))

\* The chunks of a document are faithful to it.
LEMMA DocumentIsFaithful ==
    ASSUME NEW pages \in Seq(Seq(Block)), IsInjective(WordsOf(FlattenSeq(pages))),
           NEW parsed, parsed = RecoverSections(CleanPages(pages)),
           NEW p, NEW list, list = DocumentChunks(p, parsed)
    PROVE  DocumentFaithful(pages, parsed, list)
  <1> DEFINE Own(i) == LET own == Picked(list, {c \in Range(list) : c.id[2] = i})
                       IN  [k \in DOMAIN own |-> own[k].text]
             TextsOf(i) == ChunksOfSection(parsed[i].blocks)
             ToWords(i) == WordsOf(parsed[i].blocks)
  <1>1. AreSections(parsed) /\ DOMAIN parsed = 1..Len(parsed)
    <2>1. CleanPages(pages) \in Seq(Seq(Block))
      BY CleanPagesType
    <2>2. AreSections(parsed)
      BY <2>1, RecoverType
    <2> QED  BY <2>2, InList DEF AreSections
  <1>2. ASSUME NEW i \in 1..Len(parsed)
        PROVE  /\ Own(i) = TextsOf(i)
               /\ \A k \in 1..Len(TextsOf(i)) : \E c \in Range(list) : c.text = TextsOf(i)[k]
    <2> DEFINE own == Picked(list, {c \in Range(list) : c.id[2] = i})
    <2>1. own = Picked(list, {c \in Range(list) : c.id[2] = i})
      OBVIOUS
    <2> HIDE DEF own
    <2>2. /\ [k \in DOMAIN own |-> own[k].text] = TextsOf(i)
          /\ \A k \in 1..Len(TextsOf(i)) : \E c \in Range(list) : c.text = TextsOf(i)[k]
      BY <1>1, <2>1, TextsOfSection
    <2>3. Own(i) = [k \in DOMAIN own |-> own[k].text]
      BY DEF own
    <2> HIDE DEF Own, TextsOf
    <2> QED  BY <2>2, <2>3
  <1>3. ASSUME NEW i \in 1..Len(parsed)
        PROVE  /\ NothingLost(ToWords(i), TextsOf(i)) /\ SizesBounded(TextsOf(i))
               /\ Covered(ToWords(i), TextsOf(i))
               /\ parsed[i].blocks \in Seq(Block)
    <2> DEFINE s == parsed[i]
    <2>1. s \in Range(RecoverSections(CleanPages(pages)))
      BY <1>1 DEF Range
    <2>2. Paragraphs(s.blocks) /\ WordsOf(s.blocks) # <<>> /\ IsInjective(WordsOf(s.blocks))
      <3> HIDE DEF s
      <3> QED  BY <2>1, SectionsApart
    <2>3. /\ Faithful(WordsOf(s.blocks), ChunksOfSection(s.blocks))
          /\ SizesBounded(ChunksOfSection(s.blocks))
          /\ Covered(WordsOf(s.blocks), ChunksOfSection(s.blocks))
      BY ONLY <2>2, SectionFaithful
    <2>4. NothingLost(WordsOf(s.blocks), ChunksOfSection(s.blocks))
      BY ONLY <2>3, FaithfulIs
    <2> QED  BY <2>2, <2>3, <2>4 DEF Paragraphs
  <1>4. ASSUME NEW w \in WordsToKeep(pages) PROVE w \in UNION {Range(c.text) : c \in Range(list)}
    <2>1. PICK s \in Range(parsed) : w \in Range(WordsOf(s.blocks))
      BY WordsKept
    <2>2. PICK i \in 1..Len(parsed) : parsed[i] = s
      BY <1>1 DEF Range
    <2>3. w \in Range(ToWords(i)) /\ ToWords(i) \in Seq(Word) /\ TextsOf(i) \in Seq(Seq(Word))
      BY <1>3, <2>1, <2>2, WordsType, ChunksType DEF Texts
    <2>4. Covered(ToWords(i), TextsOf(i))
      BY <1>3
    <2>5. \A k \in 1..Len(TextsOf(i)) : \E c \in Range(list) : c.text = TextsOf(i)[k]
      BY <1>2
    <2> DEFINE words == ToWords(i)  texts == TextsOf(i)
    <2> HIDE DEF words, texts
    <2>6. PICK x \in 1..Len(words) : words[x] = w
      <3>1. w \in Range(words) /\ words \in Seq(Word)
        BY <2>3 DEF words
      <3> QED  BY <3>1, InList
    <2>7. PICK k \in 1..Len(texts) : \E j \in 1..Len(texts[k]) : texts[k][j] = w
      BY <2>4, <2>6 DEF Covered, words, texts
    <2>8. texts[k] \in Seq(Word)
      <3> DEFINE V == Seq(Word)
      <3>1. texts \in Seq(V)
        BY <2>3 DEF texts
      <3> HIDE DEF V
      <3>2. texts[k] \in V
        BY <3>1
      <3> QED  BY <3>2 DEF V
    <2>9. w \in Range(texts[k])
      BY <2>7, <2>8, InList
    <2>10. PICK c \in Range(list) : c.text = texts[k]
      BY <2>5 DEF texts
    <2> QED  BY <2>9, <2>10
  <1>5. ASSUME NEW i \in 1..Len(parsed)
        PROVE  NothingLost(ToWords(i), Own(i)) /\ SizesBounded(Own(i))
    <2>1. Own(i) = TextsOf(i)
      BY <1>2
    <2>2. NothingLost(ToWords(i), TextsOf(i)) /\ SizesBounded(TextsOf(i))
      BY <1>3
    <2> HIDE DEF Own, TextsOf, ToWords
    <2> QED  BY <2>1, <2>2
  <1>6. WordsToKeep(pages) \subseteq UNION {Range(c.text) : c \in Range(list)}
    BY <1>4
  <1> HIDE DEF Own, TextsOf, ToWords
  <1>7. \A i \in DOMAIN parsed : NothingLost(ToWords(i), Own(i)) /\ SizesBounded(Own(i))
    BY <1>1, <1>5
  <1> QED  BY <1>6, <1>7 DEF DocumentFaithful, Own, ToWords

-----------------------------------------------------------------------------
\* The sections of a paper are those of its PDF, and its chunks those of its sections.
TextFollows ==
    \A p \in Paper :
      /\ sections[p] # None => sections[p] = RecoverSections(CleanPages(pdf[p]))
      /\ chunks[p] # None => sections[p] # None /\ chunks[p] = DocumentChunks(p, sections[p])

\* The text follows at first, when nothing is parsed.
LEMMA TextStarts == Init => TextFollows
  BY DEF Init, TextFollows

\* Steps that change neither sections nor chunks.
LEMMA TextStays ==
    ASSUME TextFollows, UNCHANGED <<pdf, sections, chunks>>
    PROVE  TextFollows'
  BY DEF TextFollows

\* Parse makes the sections of the PDF.
LEMMA ParseFollows ==
    ASSUME TextOK, TextFollows, NEW p \in Paper, Parse(p)
    PROVE  TextFollows'
  <1>1. /\ sections[p] = None /\ UNCHANGED <<pdf, chunks>>
        /\ sections' = [sections EXCEPT ![p] = RecoverSections(CleanPages(pdf[p]))]
    BY DEF Parse
  <1>2. sections'[p] = RecoverSections(CleanPages(pdf[p])) /\ \A q \in Paper : q # p => sections'[q] = sections[q]
    BY <1>1 DEF TextOK
  <1>3. chunks[p] = None
    BY <1>1 DEF TextFollows
  <1>4. ASSUME NEW q \in Paper
        PROVE  /\ sections'[q] # None => sections'[q] = RecoverSections(CleanPages(pdf[q]))
               /\ chunks[q] # None => sections'[q] # None /\ chunks[q] = DocumentChunks(q, sections'[q])
    BY <1>2, <1>3 DEF TextFollows
  <1> QED  BY <1>1, <1>4 DEF TextFollows

\* ChunkDocument makes the chunks of the sections.
LEMMA ChunkDocumentFollows ==
    ASSUME TextOK, TextFollows, NEW p \in Paper, ChunkDocument(p)
    PROVE  TextFollows'
  <1>1. /\ sections[p] # None /\ UNCHANGED <<pdf, sections>>
        /\ chunks' = [chunks EXCEPT ![p] = DocumentChunks(p, sections[p])]
    BY DEF ChunkDocument, DocumentChunks, ChunksOf
  <1>2. chunks'[p] = DocumentChunks(p, sections[p]) /\ \A q \in Paper : q # p => chunks'[q] = chunks[q]
    BY <1>1 DEF TextOK
  <1>3. ASSUME NEW q \in Paper
        PROVE  chunks'[q] # None => sections[q] # None /\ chunks'[q] = DocumentChunks(q, sections[q])
    BY <1>1, <1>2 DEF TextFollows
  <1> QED  BY <1>1, <1>3 DEF TextFollows

\* So every step keeps it.
LEMMA StepFollows == TextOK /\ TextFollows /\ [Next]_vars => TextFollows'
  <1> SUFFICES ASSUME TextOK, TextFollows, [Next]_vars PROVE TextFollows'
    OBVIOUS
  <1>1. ASSUME NEW p \in Paper, Parse(p) PROVE TextFollows'
    BY <1>1, ParseFollows
  <1>2. ASSUME NEW p \in Paper, ChunkDocument(p) PROVE TextFollows'
    BY <1>2, ChunkDocumentFollows
  <1>3. ASSUME NEW p \in Paper, Discover(p) \/ Start(p) \/ Index(p) PROVE TextFollows'
    <2>1. UNCHANGED <<pdf, sections, chunks>>
      BY <1>3 DEF Discover, Start, Index
    <2> QED  BY <2>1, TextStays
  <1>4. CASE Answer \/ Retry \/ Fail \/ Finish \/ UNCHANGED vars
    <2>1. UNCHANGED <<pdf, sections, chunks>>
      BY <1>4 DEF Answer, Retry, Fail, Finish, vars
    <2> QED  BY <2>1, TextStays
  <1> QED  BY <1>1, <1>2, <1>3, <1>4 DEF Next

\* Whatever the document and however its sections are cut, parsing and chunking lose no
\* text: every word of a line that no three pages begin or end with, after the first
\* such heading, or when no heading follows at all, is in a chunk; within a section each
\* chunk goes on where the one before ended, and none is larger than size, overlap and
\* merge allow (recover_sections, _pack_units, _merge_tiny_trailing_chunk).
THEOREM ChunksFaithful == Spec => []ChunksAreFaithful
  <1>1. TextOK /\ TextFollows => ChunksAreFaithful
    <2> SUFFICES ASSUME TextOK, TextFollows, NEW p \in Paper, chunks[p] # None
                 PROVE  DocumentFaithful(pdf[p], sections[p], chunks[p])
      BY DEF ChunksAreFaithful, DocumentFaithful
    <2>1. pdf[p] \in Seq(Seq(Block)) /\ IsInjective(WordsOf(FlattenSeq(pdf[p])))
      BY PdfsAssumption DEF TextOK
    <2>2. /\ sections[p] = RecoverSections(CleanPages(pdf[p]))
          /\ chunks[p] = DocumentChunks(p, sections[p])
      BY DEF TextFollows
    <2> QED  BY <2>1, <2>2, DocumentIsFaithful
  <1>2. Spec => []TextOK
    BY AlwaysIInv, PTL DEF IInv
  <1>3. Spec => []TextFollows
    BY <1>2, TextStarts, StepFollows, PTL DEF Spec
  <1> QED  BY <1>1, <1>2, <1>3, PTL
=============================================================================
