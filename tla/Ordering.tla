------------------------------- MODULE Ordering -------------------------------
(***************************************************************************)
(* Lists in an order: what ORDER BY of Cypher, sorted(), the stable        *)
(* list.sort() and the insertion order of a dict give.  A place in a list  *)
(* is counted, so that the list follows from its definition: the sorts of  *)
(* the community modules leave open what becomes of equal elements.        *)
(***************************************************************************)
EXTENDS Integers, Sequences, FiniteSets

\* The order of tuples of one length.
Lexicographic(a, b) ==
    \E i \in DOMAIN a : a[i] < b[i] /\ \A j \in 1..(i - 1) : a[j] = b[j]

\* The members of a finite set in the order of their keys; no two have the same.
Ordered(S, key) ==
    LET Before(x) == {y \in S : Lexicographic(key[y], key[x])}
    IN  [i \in 1..Cardinality(S) |-> CHOOSE x \in S : Cardinality(Before(x)) = i - 1]

Ascending(numbers) == Ordered(numbers, [n \in numbers |-> <<n>>])

\* The elements of a list at some of its places.
At(list, places) ==
    LET order == Ascending(places)
    IN  [i \in DOMAIN order |-> list[order[i]]]

\* The elements that are in a set.
Picked(list, S) == At(list, {i \in DOMAIN list : list[i] \in S})

\* Every element where the list has it first.
Once(list) == At(list, {i \in DOMAIN list : \A j \in 1..(i - 1) : list[j] # list[i]})

\* A stable sort: where the keys of two places are equal, the first stays first.
Sorted(list, key) ==
    LET order == Ordered(DOMAIN list, [i \in DOMAIN list |-> Append(key[i], i)])
    IN  [i \in DOMAIN order |-> list[order[i]]]
=============================================================================
