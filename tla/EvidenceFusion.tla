---------------------------- MODULE EvidenceFusion ----------------------------
(***************************************************************************)
(* EvidenceFusionService.fuse and build_evidence_pool: two ranked lists of *)
(* evidence and the texts that support the second, merged by reciprocal    *)
(* rank fusion.                                                            *)
(*                                                                         *)
(* An item has an id, a kind and, if it comes from the graph, the ids of   *)
(* the texts that support it.  The scores 1 / (k + rank) are kept exact:   *)
(* their unit is 1 / Scale, and Scale is a common multiple of their        *)
(* denominators.  Rounding of floats is left out.                          *)
(***************************************************************************)
EXTENDS SequencesExt, Ordering

CONSTANTS RrfK,      \* HYBRID_RRF_K
          MaxRank,   \* bound on the length of a ranked list
          Scale,     \* the units of a score of 1
          Digest(_)  \* an evidence id, a hash, as the number it is compared as

\* What _best_branch_rank gives an item that no branch ranked.
NoRank == 1000000

ASSUME RrfAssumption == RrfK \in Nat \ {0} /\ MaxRank \in Nat /\ MaxRank < NoRank
ASSUME ScaleAssumption == Scale \in Nat \ {0} /\ \A r \in 1..MaxRank : Scale % (RrfK + r) = 0

Branch == {"vector", "graph"}

Weight(rank) == Scale \div (RrfK + rank)

\* The places at which a list has an id; a list may repeat it.
RanksOf(list, id) == {r \in DOMAIN list : list[r].id = id}

\* Every occurrence in either list adds its weight.
Score(vector, graph, id) ==
    LET SumOf(list) == FoldSet(LAMBDA r, acc : Weight(r) + acc, 0, RanksOf(list, id))
    IN  SumOf(vector) + SumOf(graph)

\* branch_ranks keeps the rank that was written last.
BranchRank(list, id) == CHOOSE r \in RanksOf(list, id) : \A q \in RanksOf(list, id) : q <= r

BestRank(vector, graph, id) ==
    LET ranks == {BranchRank(list, id) : list \in {l \in {vector, graph} : RanksOf(l, id) # {}}}
    IN  IF ranks = {} THEN NoRank ELSE CHOOSE r \in ranks : \A q \in ranks : r <= q

Ids(list) == {list[i].id : i \in DOMAIN list}

\* Mutant: the copy registered last is kept, a text loses its similarity.
RegisteredLast(vector, graph, support, id) ==
    LET all == vector \o graph \o support
    IN  all[CHOOSE i \in RanksOf(all, id) : \A j \in RanksOf(all, id) : j <= i]

\* _register keeps the first: a vector hit before the text the bridge looked up.
Registered(vector, graph, support, id) ==
    LET all == vector \o graph \o support
    IN  all[CHOOSE i \in RanksOf(all, id) : \A j \in RanksOf(all, id) : i <= j]

CrossStore(vector, item) ==
    item.kind # "text" /\ \E i \in DOMAIN item.supports : item.supports[i] \in Ids(vector)

Fused(vector, graph, support, id) ==
    [item |-> Registered(vector, graph, support, id),
     score |-> Score(vector, graph, id),
     best |-> BestRank(vector, graph, id),
     branches |-> (IF id \in Ids(vector) THEN {"vector"} ELSE {})
                    \cup (IF id \in Ids(graph) THEN {"graph"} ELSE {})
                    \cup (IF id \in Ids(support) THEN {"graph_support"} ELSE {}),
     cross |-> CrossStore(vector, Registered(vector, graph, support, id))]

\* The score, then the best rank, then the id.
SortKey(f) == <<0 - f.score, f.best, Digest(f.item.id)>>

\* All of the evidence in its final order, before the cut to top_k.  The registry
\* lists the ids as they were registered.
Ranking(vector, graph, support) ==
    LET all == vector \o graph \o support
        registry == Once([i \in DOMAIN all |-> all[i].id])
        fused == [i \in DOMAIN registry |-> Fused(vector, graph, support, registry[i])]
    IN  Sorted(fused, [i \in DOMAIN fused |-> SortKey(fused[i])])

Fuse(vector, graph, support, topK) ==
    LET ranking == Ranking(vector, graph, support)
    IN  SubSeq(ranking, 1, IF Len(ranking) < topK THEN Len(ranking) ELSE topK)

\* build_evidence_pool: label E<n> is the n-th distinct item.
Pool(fused) == Once([i \in DOMAIN fused |-> fused[i].item.id])
=============================================================================
