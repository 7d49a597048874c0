----------------------------- MODULE GraphSearch -----------------------------
(***************************************************************************)
(* GraphRetrievalService and the read queries of Neo4jGraphRepository, as  *)
(* operators over the contents of Neo4j at the moment a query runs.        *)
(*                                                                         *)
(* A node is its entity_id, an edge a record.  Cypher hands back the       *)
(* properties of a relationship; its endpoints are filled in by the caller *)
(* from the roles of the nodes in the query (Between).  A query matches no *)
(* edge twice.  Summaries, properties of nodes and messages are left out.  *)
(***************************************************************************)
EXTENDS SequencesExt, Ordering

CONSTANTS Entity,          \* entity ids, numbers: the queries order by them
          Chunk,           \* chunk ids, numbers: they are sorted
          Version,         \* paper versions
          Generation,      \* graph index generations
          TypeOf,          \* [Entity -> its entity type]
          NameOf,          \* [Entity -> its canonical name, case-folded]
          AliasOf,         \* [<<type, name>> -> the name the alias registry gives]
          MaxConfidence,   \* confidences are 0..MaxConfidence
          PathDigest(_),   \* an evidence id, a hash, as the number it is compared as
          None

EntityType == {"paper", "author", "method", "dataset", "task"}

RelationshipType == {"authored_by", "cites", "uses_method", "evaluated_on", "addresses"}

ASSUME NumbersAssumption == Entity \subseteq Nat /\ Chunk \subseteq Nat /\ MaxConfidence \in Nat
ASSUME TypeOfAssumption == TypeOf \in [Entity -> EntityType]
ASSUME NameOfAssumption == DOMAIN NameOf = Entity
ASSUME NoneAssumption == None \notin Entity /\ None \notin Chunk /\ None \notin Version

\* AUTHORED_BY has no chunk: its facts come from arXiv's metadata.
Edge ==
    [source : Entity, type : RelationshipType, target : Entity, confidence : 0..MaxConfidence,
     primary : Chunk \cup {None}, supporting : SUBSET Chunk, version : Version, gen : Generation]

RelationshipId(e) == <<e.source, e.type, e.target>>

\* _relationship_to_record: what is stored, under the endpoints the caller names.
Between(e, s, t) == [e EXCEPT !.source = s, !.target = t]

OfType(n, type) == TypeOf[n] = type

Path(nodes, edges) == [nodes |-> nodes, edges |-> edges]

-----------------------------------------------------------------------------
(* _resolve_entity *)

\* The id that ScientificEntity.create derives; None if no entity ever had it.
IdOf(type, name) ==
    LET named == {n \in Entity : OfType(n, type) /\ NameOf[n] = name}
    IN  IF named = {} THEN None ELSE CHOOSE n \in named : TRUE

\* The resolver's answer for a candidate of a type: a paper is never retargeted.
Canonical(type, name) ==
    IF type # "paper" /\ <<type, name>> \in DOMAIN AliasOf THEN AliasOf[<<type, name>>] ELSE name

\* find_entities_by_canonical_name with limit=2: more than one is ambiguous.
NamedNodes(nodes, name, type) ==
    {n \in nodes : NameOf[n] = name /\ (type # None => OfType(n, type))}

-----------------------------------------------------------------------------
(* The queries.  Each returns its rows in the order of its ORDER BY. *)

Limited(rows, limit) == SubSeq(rows, 1, IF Len(rows) < limit THEN Len(rows) ELSE limit)

\* The rows a query finds, ordered by a key, cut to the limit.
Query(rows, Key(_), limit) ==
    Limited(Ordered(rows, [p \in rows |-> Key(p)]), limit)

ByConfidence(p) == <<MaxConfidence - p.edges[1].confidence, p.nodes[2]>>
ByEnd(p) == <<p.nodes[2]>>
ByMiddle(p) == <<p.nodes[2], p.nodes[3]>>
ByLast(p) == <<p.nodes[3], p.nodes[2]>>

\* What an edge leads to from a node, and what leads to it.
Outgoing(edges, n, type) == {e \in edges : e.source = n /\ e.type = type}
Incoming(edges, n, type) == {e \in edges : e.target = n /\ e.type = type}

\* get_direct_paths
DirectPaths(edges, start, type, direction, end, limit) ==
    Query(IF direction = "outgoing"
          THEN {Path(<<start, e.target>>, <<Between(e, start, e.target)>>) :
                  e \in {f \in Outgoing(edges, start, type) : OfType(f.target, end)}}
          ELSE {Path(<<start, e.source>>, <<Between(e, e.source, start)>>) :
                  e \in {f \in Incoming(edges, start, type) : OfType(f.source, end)}},
          ByConfidence, limit)

\* Two edges in a row, joined as the query says.
Pairs(edges, Joined(_, _)) == {ef \in edges \X edges : ef[1] # ef[2] /\ Joined(ef[1], ef[2])}

\* get_shared_entity_paths
SharedPaths(edges, paper, type, shared, limit) ==
    LET Joined(e, f) == /\ e.source = paper /\ OfType(paper, "paper")
                        /\ e.type = type /\ f.type = type
                        /\ f.target = e.target /\ OfType(e.target, shared)
                        /\ f.source # paper /\ OfType(f.source, "paper")
    IN  Query({Path(<<paper, ef[1].target, ef[2].source>>,
                    <<Between(ef[1], paper, ef[1].target),
                      Between(ef[2], ef[2].source, ef[1].target)>>) : ef \in Pairs(edges, Joined)},
              ByMiddle, limit)

\* Mutant: the endpoints of the citation are taken in the order of the path.
CitingPathsReversed(edges, paper, type, end, limit) ==
    LET Joined(e, f) == /\ e.type = "cites" /\ e.target = paper /\ OfType(paper, "paper")
                        /\ f.source = e.source /\ f.type = type /\ OfType(f.target, end)
    IN  Query({Path(<<paper, ef[1].source, ef[2].target>>,
                    <<Between(ef[1], paper, ef[1].source),
                      Between(ef[2], ef[1].source, ef[2].target)>>) : ef \in Pairs(edges, Joined)},
              ByLast, limit)

\* get_citing_paper_entity_paths
CitingPaths(edges, paper, type, end, limit) ==
    LET Joined(e, f) == /\ e.type = "cites" /\ e.target = paper /\ OfType(paper, "paper")
                        /\ f.source = e.source /\ f.type = type /\ OfType(f.target, end)
    IN  Query({Path(<<paper, ef[1].source, ef[2].target>>,
                    <<Between(ef[1], ef[1].source, paper),
                      Between(ef[2], ef[1].source, ef[2].target)>>) : ef \in Pairs(edges, Joined)},
              ByLast, limit)

\* get_entity_paper_entity_paths
EntityPaperEntityPaths(edges, start, incoming, outgoing, end, limit) ==
    LET Joined(e, f) == /\ e.type = incoming /\ e.target = start /\ OfType(e.source, "paper")
                        /\ f.source = e.source /\ f.type = outgoing /\ OfType(f.target, end)
    IN  Query({Path(<<start, ef[1].source, ef[2].target>>,
                    <<Between(ef[1], ef[1].source, start),
                      Between(ef[2], ef[1].source, ef[2].target)>>) : ef \in Pairs(edges, Joined)},
              ByLast, limit)

\* get_citation_neighborhood_paths, its first query: the papers cited.
CitedPaths(edges, paper, depth, limit) ==
    LET Joined(e, f) == /\ e.source = paper /\ e.type = "cites"
                        /\ f.source = e.target /\ f.type = "cites"
    IN  IF depth = 1
        THEN Query({Path(<<paper, e.target>>, <<Between(e, paper, e.target)>>) :
                      e \in Outgoing(edges, paper, "cites")}, ByEnd, limit)
        ELSE Query({Path(<<paper, ef[1].target, ef[2].target>>,
                         <<Between(ef[1], paper, ef[1].target),
                           Between(ef[2], ef[1].target, ef[2].target)>>) : ef \in Pairs(edges, Joined)},
                   ByMiddle, limit)

\* Its second query: the papers that cite.
CitedByPaths(edges, paper, depth, limit) ==
    LET Joined(e, f) == /\ e.target = paper /\ e.type = "cites"
                        /\ f.target = e.source /\ f.type = "cites"
    IN  IF depth = 1
        THEN Query({Path(<<paper, e.source>>, <<Between(e, e.source, paper)>>) :
                      e \in Incoming(edges, paper, "cites")}, ByEnd, limit)
        ELSE Query({Path(<<paper, ef[1].source, ef[2].source>>,
                         <<Between(ef[1], ef[1].source, paper),
                           Between(ef[2], ef[2].source, ef[1].source)>>) : ef \in Pairs(edges, Joined)},
                   ByMiddle, limit)

\* get_paper_graph and get_entity_context: what the inspection endpoints list.
PaperGraph(edges, paper) == {Between(e, paper, e.target) : e \in {f \in edges : f.source = paper}}
EntityContext(outbound, inbound, n) ==
    PaperGraph(outbound, n) \cup {Between(e, e.source, n) : e \in {f \in inbound : f.target = n}}

-----------------------------------------------------------------------------
(* _execute_operation *)

Direct == [paper_methods     |-> <<"uses_method",  "outgoing", "method">>,
           paper_datasets    |-> <<"evaluated_on", "outgoing", "dataset">>,
           paper_tasks       |-> <<"addresses",    "outgoing", "task">>,
           paper_authors     |-> <<"authored_by",  "outgoing", "author">>,
           paper_citations   |-> <<"cites",        "outgoing", "paper">>,
           paper_cited_by    |-> <<"cites",        "incoming", "paper">>,
           papers_for_method |-> <<"uses_method",  "incoming", "paper">>,
           papers_for_dataset |-> <<"evaluated_on", "incoming", "paper">>,
           papers_for_task   |-> <<"addresses",    "incoming", "paper">>]

Operation == DOMAIN Direct \cup {"shared_datasets", "shared_methods", "datasets_from_citing_papers",
                                 "methods_for_dataset", "citation_neighborhood"}

\* The operation's query, or the first one of a citation neighbourhood.
Paths(edges, op, start, depth, limit) ==
    CASE op \in DOMAIN Direct ->
           DirectPaths(edges, start, Direct[op][1], Direct[op][2], Direct[op][3], limit)
      [] op = "shared_datasets" -> SharedPaths(edges, start, "evaluated_on", "dataset", limit)
      [] op = "shared_methods" -> SharedPaths(edges, start, "uses_method", "method", limit)
      [] op = "datasets_from_citing_papers" ->
           CitingPaths(edges, start, "evaluated_on", "dataset", limit)
      [] op = "methods_for_dataset" ->
           EntityPaperEntityPaths(edges, start, "evaluated_on", "uses_method", "method", limit)
      [] op = "citation_neighborhood" -> CitedPaths(edges, start, depth, limit)

-----------------------------------------------------------------------------
(* _path_to_evidence and GraphEvidenceAdapter *)

\* The primary chunk, then the supporting ones in order; each chunk once.
ChunksOf(e) ==
    (IF e.primary = None THEN <<>> ELSE <<e.primary>>)
      \o Ascending(e.supporting \ {e.primary})

SourceChunks(path) == Once(FlattenSeq([i \in DOMAIN path.edges |-> ChunksOf(path.edges[i])]))

\* The version each chunk must be of; the last relationship that names it decides.
ExpectedVersion(path, c) ==
    LET naming == {i \in DOMAIN path.edges : c \in path.edges[i].supporting \cup {path.edges[i].primary}}
    IN  path.edges[CHOOSE i \in naming : \A j \in naming : j <= i].version

PathConfidence(path) ==
    LET all == {path.edges[i].confidence : i \in DOMAIN path.edges}
    IN  CHOOSE c \in all : \A d \in all : c <= d

\* complete and supports are the provenance bridge's to fill in.
PathEvidence(op, path) ==
    [kind |-> IF Len(path.edges) = 1 THEN "relationship" ELSE "path",
     id |-> <<op, path.nodes, [i \in DOMAIN path.edges |-> RelationshipId(path.edges[i])]>>,
     path |-> path, chunks |-> SourceChunks(path), supports |-> <<>>, complete |-> TRUE]

\* _evidence_sort_key
EvidenceKey(item) ==
    <<Len(item.path.edges), MaxConfidence - PathConfidence(item.path), PathDigest(item.id)>>

\* A path may come twice, the paper that cites itself from both queries: evidence
\* with the same id stays in the list twice, in the order it was found.
GraphEvidence(op, paths) ==
    LET evidence == [i \in DOMAIN paths |-> PathEvidence(op, paths[i])]
    IN  Sorted(evidence, [i \in DOMAIN evidence |-> EvidenceKey(evidence[i])])
=============================================================================
