--------------------------- MODULE HybridRetrieval ---------------------------
(***************************************************************************)
(* The search endpoints: POST /search/vector, /search/graph and            *)
(* /search/retrieve.  A retrieval reads Qdrant for the vector branch, then *)
(* Neo4j for the graph branch, then Qdrant again for the source chunks of  *)
(* every graph item, and fuses what it found; no read is repeated and none *)
(* shares a snapshot with another.  Meanwhile index requests write both    *)
(* stores.  Their protocol is in IndexGenerations; here are the store      *)
(* calls it makes, in any order.                                           *)
(*                                                                         *)
(* A point's id is hashed from its chunk, so a new generation overwrites   *)
(* it.  Retrievals change nothing: one at a time stands for any number.    *)
(* Which points are similar to a query is data: any order may come back.   *)
(***************************************************************************)
EXTENDS GraphSearch, EvidenceFusion

CONSTANTS VersionOf,        \* [Chunk -> the paper version it is a chunk of]
          Facts,            \* the edges that extractions give rise to
          Call,             \* the requests callers make
          DefaultTopK, MaxTopK,             \* HYBRID_DEFAULT_TOP_K, HYBRID_MAX_TOP_K
          VectorDefaultTopK, VectorMaxTopK, \* VECTOR_SEARCH_*
          MaxDepth, DefaultLimit, MaxLimit, \* GRAPH_*
          MaxSupportingChunks,              \* EVIDENCE_MAX_SUPPORTING_CHUNKS
          Stores,           \* the initial contents of the stores
          MaxWrites         \* bound on the store calls of one behaviour

\* chunk_id is hashed from the version; an extraction reads the chunks of one version.
ASSUME VersionOfAssumption == VersionOf \in [Chunk -> Version] /\ IsFiniteSet(Chunk)
ASSUME FactsAssumption ==
    /\ Facts \subseteq Edge
    /\ \A f \in Facts : \A c \in f.supporting \cup ({f.primary} \ {None}) : VersionOf[c] = f.version

\* The ids of evidence of one and of two relationships, and of texts, are hashes.
ASSUME DigestAssumption ==
    /\ \A op \in Operation : \A e, f \in Facts :
         \A a, b \in {e.source, e.target} : \A c \in {f.source, f.target} :
           LET one == <<op, <<a, b>>, <<RelationshipId(e)>>>>
               two == <<op, <<a, b, c>>, <<RelationshipId(e), RelationshipId(f)>>>>
           IN  {PathDigest(one), PathDigest(two), Digest(one), Digest(two)} \subseteq Nat
    /\ \A c \in Chunk, g \in Generation : Digest(<<"text", c, g>>) \in Nat

\* Every branch fits in a ranked list.
ASSUME BoundsAssumption ==
    /\ {DefaultTopK, MaxTopK, VectorDefaultTopK, VectorMaxTopK, MaxDepth, DefaultLimit, MaxLimit,
        MaxSupportingChunks, MaxWrites} \subseteq Nat
    /\ VectorMaxTopK <= MaxRank /\ MaxLimit <= MaxRank

Strategy == {"vector", "graph", "hybrid"}

Error == {"invalid", "not_found", "ambiguous", "identity_mismatch", "unavailable"}

ASSUME ErrorAssumption == None \notin Error

ASSUME CallAssumption ==
    \A c \in Call :
        /\ c.endpoint \in {"vector", "graph", "retrieve"} /\ c.strategy \in Strategy
        /\ c.top \in Nat \cup {None} /\ c.vectorTop \in Nat \cup {None}
        /\ c.op \in Operation \cup {None} /\ c.entity \in Nat \cup {None}
        /\ c.type \in EntityType \cup {None} /\ c.depth \in Nat \cup {None}
        /\ c.limit \in Nat \cup {None} /\ c.filter \in (SUBSET Chunk) \cup {None}
        /\ c.endpoint = "graph" => c.op \in Operation

\* What earlier index requests may have left.
ASSUME StoresAssumption ==
    \A s \in Stores :
        /\ s.point \in [Chunk -> Generation \cup {None}]
        /\ s.nodes \subseteq Entity /\ s.edges \subseteq Facts /\ IsFiniteSet(s.edges)
        /\ \A e \in s.edges : {e.source, e.target} \subseteq s.nodes
        /\ \A e, f \in s.edges : RelationshipId(e) = RelationshipId(f) => e = f

VARIABLES
    point,   \* Qdrant: [Chunk -> the generation of its point, or None]
    nodes,   \* Neo4j: the entities that have a node
    edges,   \* Neo4j: its relationships
    req,     \* the retrieval in progress
    writes   \* how many store calls the index requests made

vars == <<point, nodes, edges, req, writes>>

stores == <<point, nodes, edges, writes>>

\* quiet: no store was written since the request began.
Idle == [pc |-> "idle", call |-> None, start |-> None, paths |-> <<>>, todo |-> <<>>,
         vector |-> <<>>, graph |-> <<>>, support |-> <<>>, answer |-> <<>>, error |-> None,
         quiet |-> TRUE]

Init ==
    /\ \E s \in Stores : point = s.point /\ nodes = s.nodes /\ edges = s.edges
    /\ req = Idle
    /\ writes = 0

-----------------------------------------------------------------------------
Default(x, d) == IF x = None THEN d ELSE x

Goto(pc) == req' = [req EXCEPT !.pc = pc]

\* An exception: the request answers with it, whatever the branches have found.
Fail(error) == req' = [req EXCEPT !.pc = "failed", !.error = error]

\* The branches a request runs.
Vectors(c) == c.endpoint = "vector" \/ (c.endpoint = "retrieve" /\ c.strategy # "graph")
Graphs(c) == c.endpoint = "graph" \/ (c.endpoint = "retrieve" /\ c.strategy # "vector")

TopK(c) == Default(c.top, DefaultTopK)

\* _validate_top_k and _validate_strategy_request; top_k is the retrieve endpoint's.
Refused(c) ==
    /\ c.endpoint = "retrieve"
    /\ \/ TopK(c) \notin 1..MaxTopK
       \/ c.strategy # "vector" /\ c.op = None
       \/ c.strategy = "graph" /\ c.filter # None

\* A blank query is refused like an invalid top_k.
Begin ==
    /\ req.pc = "idle"
    /\ \E c \in Call :
        req' = [req EXCEPT !.call = c,
                           !.pc = CASE Refused(c) -> "failed"
                                    [] Vectors(c) /\ ~Refused(c) -> "vector"
                                    [] OTHER -> "resolve",
                           !.error = IF Refused(c) THEN "invalid" ELSE None]
    /\ UNCHANGED stores

\* text_evidence_from_hit and text_evidence_from_chunk.
Text(c, scored) == [kind |-> "text", id |-> <<"text", c, point[c]>>, chunk |-> c, scored |-> scored]

Stored == {c \in Chunk : point[c] # None}

\* The points the filter lets through, most similar first.
Hits(filter, topK) ==
    {Limited(order, topK) : order \in SetToSeqs(Stored \cap Default(filter, Chunk))}

SearchVectors ==
    /\ req.pc = "vector"
    /\ LET topK == Default(req.call.vectorTop, VectorDefaultTopK)
       IN  \/ topK \notin 1..VectorMaxTopK /\ Fail("invalid")
           \/ /\ topK \in 1..VectorMaxTopK
              /\ \E hits \in Hits(req.call.filter, topK) :
                   req' = [req EXCEPT !.vector = [i \in DOMAIN hits |-> Text(hits[i], TRUE)],
                                      !.pc = CASE req.call.endpoint = "vector" -> "done"
                                               [] Graphs(req.call) -> "resolve"
                                               [] OTHER -> "fuse"]
    /\ UNCHANGED stores

Depth == Default(req.call.depth, 1)
Limit == Default(req.call.limit, DefaultLimit)

\* _validate_depth, _validate_limit and the lookups of _resolve_entity by id.
ResolveEntity ==
    /\ req.pc = "resolve"
    /\ LET c == req.call
           id == IF c.entity # None THEN c.entity
                 ELSE IF c.name # None /\ c.type # None THEN IdOf(c.type, Canonical(c.type, c.name))
                 ELSE None
           valid == Depth \in 1..MaxDepth /\ Limit \in 1..MaxLimit
                    /\ (c.entity = None => c.name # None)
       IN  \/ ~valid /\ Fail("invalid")
           \/ valid /\ id \in nodes /\ req' = [req EXCEPT !.start = id, !.pc = "query"]
           \/ valid /\ id \notin nodes /\ c.entity # None /\ Fail("not_found")
           \/ valid /\ id \notin nodes /\ c.entity = None /\ Goto("find")
    /\ UNCHANGED stores

\* The lookup by canonical name, in a later read.
FindEntity ==
    /\ req.pc = "find"
    /\ LET found == NamedNodes(nodes, req.call.name, req.call.type)
       IN  \/ found = {} /\ Fail("not_found")
           \/ \E n \in found : found = {n} /\ req' = [req EXCEPT !.start = n, !.pc = "query"]
           \/ Cardinality(found) > 1 /\ Fail("ambiguous")
    /\ UNCHANGED stores

\* The graph branch has its paths: the graph endpoint answers, a retrieval goes on
\* to the bridge.
Found(paths) ==
    LET evidence == GraphEvidence(req.call.op, paths)
    IN  req' = [req EXCEPT !.paths = paths,
                           !.todo = IF req.call.endpoint = "graph" THEN <<>> ELSE evidence,
                           !.graph = IF req.call.endpoint = "graph" THEN evidence ELSE <<>>,
                           !.pc = IF req.call.endpoint = "graph" THEN "done" ELSE "bridge"]

QueryPaths ==
    /\ req.pc = "query"
    /\ LET op == req.call.op
           paths == Paths(edges, op, req.start, Depth, Limit)
       IN  \/ op = "citation_neighborhood" /\ Depth > 2 /\ Fail("invalid")
           \/ op = "citation_neighborhood" /\ Depth <= 2 /\ req' = [req EXCEPT !.paths = paths, !.pc = "incoming"]
           \/ op # "citation_neighborhood" /\ Found(paths)
    /\ UNCHANGED stores

\* The second query of a neighbourhood; the papers cited come first in the limit.
QueryIncoming ==
    /\ req.pc = "incoming"
    /\ Found(Limited(req.paths \o CitedByPaths(edges, req.start, Depth, Limit), Limit))
    /\ UNCHANGED stores

\* Mutant: the chunks that were not found are not reported.
BridgedSilently(item, wanted) ==
    LET texts == Picked(wanted, Stored)
    IN  [item EXCEPT !.supports = [i \in DOMAIN texts |-> Text(texts[i], FALSE).id]]

\* _with_bridge_metadata.  Evidence of authorship has no chunk and is never complete.
Bridged(item, wanted) ==
    LET texts == Picked(wanted, Stored)
        metadata == \A i \in DOMAIN item.path.edges : item.path.edges[i].type = "authored_by"
    IN  [item EXCEPT !.supports = [i \in DOMAIN texts |-> Text(texts[i], FALSE).id],
                     !.complete = IF wanted = <<>> THEN ~metadata ELSE texts = wanted]

\* resolve_graph_evidence_sources, for the next item: get_by_chunk_ids, and
\* _validate_chunk of every chunk that was found.
BridgeItem ==
    /\ req.pc = "bridge" /\ req.todo # <<>>
    /\ LET item == Head(req.todo)
           wanted == Limited(item.chunks, MaxSupportingChunks)
           texts == Picked(wanted, Stored)
           mismatch == \E c \in Range(texts) : VersionOf[c] # ExpectedVersion(item.path, c)
       IN  \/ mismatch /\ Fail("identity_mismatch")
           \/ /\ ~mismatch
              /\ req' = [req EXCEPT !.todo = Tail(@),
                                    !.graph = Append(@, Bridged(item, wanted)),
                                    !.support = @ \o [i \in DOMAIN texts |-> Text(texts[i], FALSE)]]
    /\ UNCHANGED stores

BranchesDone == req.pc = "fuse" \/ (req.pc = "bridge" /\ req.todo = <<>>)

FuseBranches ==
    /\ BranchesDone
    /\ req' = [req EXCEPT !.answer = Fuse(req.vector, req.graph, req.support, TopK(req.call)),
                          !.pc = "done"]
    /\ UNCHANGED stores

\* Qdrant or Neo4j does not answer a read.
StoreFails ==
    /\ \/ req.pc \in {"vector", "resolve", "find", "query", "incoming"}
       \/ /\ req.pc = "bridge" /\ req.todo # <<>>
          /\ Limited(Head(req.todo).chunks, MaxSupportingChunks) # <<>>
    /\ Fail("unavailable")
    /\ UNCHANGED stores

Reply ==
    /\ req.pc \in {"done", "failed"}
    /\ req' = Idle
    /\ UNCHANGED stores

-----------------------------------------------------------------------------
(* The store calls of index requests. *)

Write ==
    /\ writes < MaxWrites
    /\ writes' = writes + 1
    /\ req' = IF req.pc = "idle" THEN req ELSE [req EXCEPT !.quiet = FALSE]

\* upsert_chunks
UpsertPoint(c, g) ==
    /\ Write
    /\ point' = [point EXCEPT ![c] = g]
    /\ UNCHANGED <<nodes, edges>>

\* delete_paper_version: the points of the version's other generations.
DeletePoints(v, g) ==
    /\ Write
    /\ point' = [c \in Chunk |-> IF VersionOf[c] = v /\ point[c] # g THEN None ELSE point[c]]
    /\ UNCHANGED <<nodes, edges>>

\* upsert_entities
UpsertEntity(n) ==
    /\ Write
    /\ nodes' = nodes \cup {n}
    /\ UNCHANGED <<point, edges>>

\* Mutant: MERGE keeps the chunks that an earlier version gave the relationship.
MergeRelationship(f) ==
    /\ Write
    /\ {f.source, f.target} \subseteq nodes
    /\ LET old == {e \in edges : RelationshipId(e) = RelationshipId(f)}
       IN  edges' = (edges \ old) \cup {[f EXCEPT !.supporting = @ \cup UNION {e.supporting : e \in old}]}
    /\ UNCHANGED <<point, nodes>>

\* Mutant: CREATE in place of MERGE.
CreateRelationship(f) ==
    /\ Write
    /\ {f.source, f.target} \subseteq nodes
    /\ edges' = edges \cup {f}
    /\ UNCHANGED <<point, nodes>>

\* upsert_relationships: MERGE on the id, SET of every property; endpoints only match.
UpsertRelationship(f) ==
    /\ Write
    /\ {f.source, f.target} \subseteq nodes
    /\ edges' = {e \in edges : RelationshipId(e) # RelationshipId(f)} \cup {f}
    /\ UNCHANGED <<point, nodes>>

\* delete_generation
DeleteRelationships(v, g) ==
    /\ Write
    /\ edges' = {e \in edges : e.version # v \/ e.gen = g}
    /\ UNCHANGED <<point, nodes>>

Retrieve ==
    \/ Begin \/ SearchVectors \/ ResolveEntity \/ FindEntity \/ QueryPaths \/ QueryIncoming
    \/ BridgeItem \/ FuseBranches \/ StoreFails \/ Reply

Index ==
    \/ \E c \in Chunk, g \in Generation : UpsertPoint(c, g)
    \/ \E v \in Version, g \in Generation : DeletePoints(v, g) \/ DeleteRelationships(v, g)
    \/ \E n \in Entity : UpsertEntity(n)
    \/ \E f \in Facts : UpsertRelationship(f)

Next == Retrieve \/ Index

Spec == Init /\ [][Next]_vars

-----------------------------------------------------------------------------
PC == {"idle", "vector", "resolve", "find", "query", "incoming", "bridge", "fuse", "done", "failed"}

\* The types; and Neo4j holds a relationship once and only between nodes it has,
\* which upsert_relationships gets from MERGE and from matching both endpoints.
TypeOK ==
    /\ point \in [Chunk -> Generation \cup {None}]
    /\ nodes \subseteq Entity /\ edges \subseteq Edge
    /\ req.pc \in PC /\ req.call \in Call \cup {None} /\ req.start \in Entity \cup {None}
    /\ req.error \in Error \cup {None}
    /\ \A e \in edges : {e.source, e.target} \subseteq nodes
    /\ \A e, f \in edges : RelationshipId(e) = RelationshipId(f) => e = f

\* However re-indexing interleaves with the reads of a retrieval, the bridge never
\* finds a chunk of another version than that of the relationship naming it, which
\* would fail the whole request, and the texts it attaches are of such a version.
VersionsAgree ==
    /\ req.error # "identity_mismatch"
    /\ \A i \in DOMAIN req.support, j \in DOMAIN req.graph :
         req.support[i].id \in Range(req.graph[j].supports)
           => \E k \in DOMAIN req.graph[j].path.edges :
                req.graph[j].path.edges[k].version = VersionOf[req.support[i].chunk]

Answered(c) == req.pc = "done" /\ req.call.endpoint = c

\* ARCHITECTURE.md, evidence provenance: if no index request wrote meanwhile, a graph
\* item of a retrieval is complete exactly if Qdrant has every source chunk it was
\* allowed to look up, its supports are those chunks' texts in order, each supporting
\* text is in the answer unless top_k was reached, and no chunk is there twice.
ProvenanceTold ==
    Answered("retrieve") /\ req.quiet =>
        LET ids == {req.answer[i].item.id : i \in DOMAIN req.answer}
        IN  /\ \A j \in DOMAIN req.graph :
                 LET item == req.graph[j]
                     wanted == Limited(item.chunks, MaxSupportingChunks)
                     stored == Picked(wanted, Stored)
                 IN  /\ wanted # <<>> => (item.complete <=> Range(wanted) \subseteq Stored)
                     /\ item.supports = [i \in DOMAIN stored |-> <<"text", stored[i], point[stored[i]]>>]
                     /\ Len(req.answer) < TopK(req.call) => Range(item.supports) \subseteq ids
            /\ \A i, j \in DOMAIN req.answer :
                 LET a == req.answer[i].item  b == req.answer[j].item
                 IN  a.kind = "text" /\ b.kind = "text" /\ a.chunk = b.chunk => i = j

NoRepeats(list) == \A i, j \in DOMAIN list : list[i].id = list[j].id => i = j

FirstRank(list, id) == IF RanksOf(list, id) = {} THEN NoRank
                       ELSE CHOOSE r \in RanksOf(list, id) : \A q \in RanksOf(list, id) : r <= q

\* Reciprocal rank fusion keeps the order of the branches: evidence that some branch
\* ranks higher and none ranks lower never comes after, so a text that only supports
\* a graph item comes after all evidence a branch ranked and is what top_k cuts
\* first; and a text both branches found carries the similarity of the vector hit.
RanksRespected ==
    Answered("retrieve") /\ NoRepeats(req.graph) =>
        /\ \A i, j \in DOMAIN req.answer :
             LET a == req.answer[i].item.id  b == req.answer[j].item.id
             IN  /\ FirstRank(req.vector, a) <= FirstRank(req.vector, b)
                 /\ FirstRank(req.graph, a) <= FirstRank(req.graph, b)
                 /\ <<FirstRank(req.vector, a), FirstRank(req.graph, a)>>
                      # <<FirstRank(req.vector, b), FirstRank(req.graph, b)>>
                 => i < j
        /\ \A i \in DOMAIN req.answer :
             req.answer[i].item.kind = "text"
               => (req.answer[i].item.scored <=> "vector" \in req.answer[i].branches)

\* Every path of an answer starts at the entity asked for, and each of its
\* relationships joins two neighbouring nodes and is, endpoints included, one that
\* Neo4j held: the endpoints that a query's caller fills in are the stored ones.
PathsAreStored ==
    req.pc = "done" /\ req.quiet =>
        \A j \in DOMAIN req.graph :
            LET path == req.graph[j].path
            IN  /\ path.nodes[1] = req.start
                /\ Len(path.nodes) = Len(path.edges) + 1
                /\ \A k \in DOMAIN path.edges :
                     /\ path.edges[k] \in edges
                     /\ {path.nodes[k], path.nodes[k + 1]} = {path.edges[k].source, path.edges[k].target}

\* ARCHITECTURE.md, RRF fusion: the fused score is the sum of 1 / (k + branch_rank)
\* over the branch ranks that the answer reports.
ScoreIsSumOfRanks ==
    Answered("retrieve") =>
        \A i \in DOMAIN req.answer :
            LET id == req.answer[i].item.id
                Part(list) == IF RanksOf(list, id) = {} THEN 0 ELSE Weight(BranchRank(list, id))
            IN  req.answer[i].score = Part(req.vector) + Part(req.graph)

\* build_evidence_id: the same chunk that several retrieval passes found is one piece
\* of evidence, not distinct ones.
ChunkIsOneEvidence ==
    Answered("retrieve") =>
        \A i, j \in DOMAIN req.answer :
            LET a == req.answer[i].item  b == req.answer[j].item
            IN  a.kind = "text" /\ b.kind = "text" /\ a.chunk = b.chunk => i = j
=============================================================================
