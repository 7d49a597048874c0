-------------------------- MODULE KnowledgeExtraction --------------------------
(***************************************************************************)
(* The content of the pipeline: from the pages of a PDF to the nodes and   *)
(* edges of the graph.  A paper's PDF is parsed and chunked; an extraction *)
(* takes facts from metadata and references, asks the LLM about each chunk *)
(* of a semantic section, with retries, and writes the artifact; indexing  *)
(* resolves the artifact to the canonical graph and stores it.  Papers are *)
(* discovered meanwhile.                                                   *)
(*                                                                         *)
(* When a stage may run, what a crash leaves, and how index requests meet  *)
(* in the store are in JobControlPlane, ArtifactChain and                  *)
(* IndexGenerations; here a stage runs alone.  Each mutant stands before   *)
(* the definition it is a broken form of.                                  *)
(***************************************************************************)
EXTENDS SectionChunker, CanonicalGraph

CONSTANTS Paper,
          Pdfs,        \* the possible [Paper -> pages]
          Authors,     \* [Paper -> the author names in the metadata]
          ArxivId,     \* [word -> paper]: the words that are an arXiv id
          FirstIds(_), \* the words of a text that come first of the ids in an entry
          Replies,     \* [section type -> what the LLM may answer]
          MaxRetries,  \* LLM_MAX_RETRIES
          MaxExtractions \* bound: extractions that complete, in all

\* The sections the LLM is asked about.
Semantic == {"abstract", "introduction", "methodology", "experiments", "results",
             "discussion", "conclusion", "other"}

\* A word is one occurrence: no two places of a document have the same.
ASSUME PdfsAssumption ==
    /\ Pdfs \subseteq [Paper -> Seq(Seq(Block))]
    /\ \A f \in Pdfs : \A p \in Paper : IsInjective(WordsOf(FlattenSeq(f[p])))
ASSUME AuthorsAssumption == \A p \in Paper : Authors[p] \in Seq(Range(Authors[p]))
ASSUME RepliesAssumption ==
    \A type \in Semantic : \A reply \in Replies[type] :
        /\ reply.entities \in Seq(Range(reply.entities))
        /\ reply.relationships \in Seq(Range(reply.relationships))
ASSUME RetriesAssumption == MaxRetries \in Nat
\* A chunk's id is made of its paper, section and index.
ASSUME NoneAssumption == None \notin Paper /\ None \notin Paper \X Nat \X Nat

VARIABLES
    pdf,         \* [Paper -> the pages of its PDF]
    discovered,  \* the papers with a row in PostgreSQL
    sections,    \* [Paper -> the sections of parsed.json, or None]
    chunks,      \* [Paper -> the chunks of chunks.json, or None]
    work,        \* the extraction that runs, or Idle
    artifact,    \* [Paper -> graph_extraction.json, or None]
    indexed,     \* [Paper -> the artifact its edges come from, or None]
    node,        \* [entity id -> its properties in Neo4j]
    edge,        \* [<<source, type, target>> -> its properties in Neo4j]
    extractions  \* bound

vars == <<pdf, discovered, sections, chunks, work, artifact, indexed, node, edge, extractions>>

Idle == [paper |-> None, todo |-> <<>>, attempt |-> 0, entities |-> <<>>,
         relationships |-> <<>>, heard |-> {}]

Init ==
    /\ pdf \in Pdfs
    /\ discovered = {}
    /\ sections = [p \in Paper |-> None]
    /\ chunks = [p \in Paper |-> None]
    /\ work = Idle
    /\ artifact = [p \in Paper |-> None]
    /\ indexed = [p \in Paper |-> None]
    /\ node = <<>>
    /\ edge = <<>>
    /\ extractions = 0

-----------------------------------------------------------------------------
Discover(p) ==
    /\ p \notin discovered
    /\ discovered' = discovered \cup {p}
    /\ UNCHANGED <<pdf, sections, chunks, work, artifact, indexed, node, edge, extractions>>

\* PyMuPDFParser.parse: a PDF without text is an error.
Parse(p) ==
    /\ p \in discovered /\ sections[p] = None
    /\ FlattenSeq(CleanPages(pdf[p])) # <<>>
    /\ sections' = [sections EXCEPT ![p] = RecoverSections(CleanPages(pdf[p]))]
    /\ UNCHANGED <<pdf, discovered, chunks, work, artifact, indexed, node, edge, extractions>>

\* SectionAwareChunker.chunk; a chunk's id is hashed from the version, section and index.
ChunkDocument(p) ==
    LET ChunksOf(i) == LET texts == ChunksOfSection(sections[p][i].blocks)
                       IN  [k \in DOMAIN texts |-> [id |-> <<p, i, k>>, text |-> texts[k],
                                                    type |-> sections[p][i].type]]
    IN  /\ sections[p] \notin {None, <<>>} /\ chunks[p] = None
        /\ chunks' = [chunks EXCEPT ![p] = FlattenSeq([i \in DOMAIN sections[p] |-> ChunksOf(i)])]
        /\ UNCHANGED <<pdf, discovered, sections, work, artifact, indexed, node, edge, extractions>>

-----------------------------------------------------------------------------
\* The chunks of some of a paper's sections.
OfSections(p, types) == Picked(chunks[p], {c \in Range(chunks[p]) : c.type \in types})

Start(p) ==
    /\ work = Idle /\ chunks[p] # None /\ extractions < MaxExtractions
    /\ work' = [Idle EXCEPT !.paper = p, !.attempt = 1,
                            !.todo = OfSections(p, Semantic)]
    /\ UNCHANGED <<pdf, discovered, sections, chunks, artifact, indexed, node, edge, extractions>>

\* What the LLM says of a chunk is remembered with it.
Proposal(chunk, raw) ==
    [chunk |-> chunk, type |-> raw.type, source |-> raw.source, target |-> raw.target,
     name |-> raw.name, usage |-> raw.usage, confidence |-> raw.confidence]

\* generate_structured: a usable answer, and the validation of what it proposes.
Answer ==
    /\ work.todo # <<>>
    /\ \E reply \in Replies[Head(work.todo).type] :
         LET proposed == [i \in DOMAIN reply.relationships |->
                             Proposal(Head(work.todo).id, reply.relationships[i])]
             valid == {r \in Range(proposed) : ValidRelationship(r)}
         IN  work' = [work EXCEPT
                 !.todo = Tail(@), !.attempt = 1,
                 !.entities = @ \o Picked(reply.entities, {e \in Range(reply.entities) : ValidEntity(e)}),
                 !.relationships = @ \o Picked(proposed, valid),
                 !.heard = @ \cup Range(proposed)]
    /\ UNCHANGED <<pdf, discovered, sections, chunks, artifact, indexed, node, edge, extractions>>

\* Mutant: the first attempt is not counted.
RetryOnceMore ==
    /\ work.todo # <<>> /\ work.attempt <= MaxRetries + 1
    /\ work' = [work EXCEPT !.attempt = @ + 1]
    /\ UNCHANGED <<pdf, discovered, sections, chunks, artifact, indexed, node, edge, extractions>>

\* A timeout, a transport error or unusable output: all three draw on one budget.
Retry ==
    /\ work.todo # <<>> /\ work.attempt <= MaxRetries
    /\ work' = [work EXCEPT !.attempt = @ + 1]
    /\ UNCHANGED <<pdf, discovered, sections, chunks, artifact, indexed, node, edge, extractions>>

\* The budget is spent, or the envelope of a response is malformed, which is not
\* retried: the extraction fails with all that was heard.
Fail ==
    /\ work.todo # <<>>
    /\ work' = Idle
    /\ UNCHANGED <<pdf, discovered, sections, chunks, artifact, indexed, node, edge, extractions>>

AuthorsOf(p) ==
    LET Author(name) == Entity("author", name)
    IN  DedupeEntities([i \in DOMAIN Authors[p] |-> Author(Authors[p][i])])

\* What a chunk's text resolves to: where its entries begin is a matter of the text, and
\* of an entry the first arXiv id counts.
CitedIn(text) == {w \in Range(text) \cap DOMAIN ArxivId : w \in FirstIds(text)}

\* One relationship for each entry of a references chunk that resolves, repeated or not.
Citations(p) ==
    LET InChunk(c) == LET ids == Picked(c.text, CitedIn(c.text))
                      IN  [i \in DOMAIN ids |-> Fact(PaperId(p), "cites", PaperId(ArxivId[ids[i]]), c.id)]
        references == OfSections(p, {"references"})
    IN  FlattenSeq([i \in DOMAIN references |-> InChunk(references[i])])

Finish ==
    LET p == work.paper
        Wrote(a) == Fact(PaperId(p), "authored_by", a.id, None)
        authors == AuthorsOf(p)
        proposed == EntitiesOf(work.entities)
        self == [id |-> PaperId(p), name |-> p, placeholder |-> FALSE]
    IN  /\ p # None /\ work.todo = <<>>
        /\ artifact' = [artifact EXCEPT ![p] =
               [entities |-> <<self>> \o authors \o proposed
                                \o ImplicitEntities(proposed, work.relationships),
                relationships |-> [i \in DOMAIN authors |-> Wrote(authors[i])]
                                \o Citations(p) \o RelationshipsOf(p, work.relationships),
                heard |-> work.heard]]
        /\ work' = Idle
        /\ extractions' = extractions + 1
        /\ UNCHANGED <<pdf, discovered, sections, chunks, indexed, node, edge>>

-----------------------------------------------------------------------------
(* Indexing *)

\* A paper nobody discovered is known by its arXiv id alone.
CitationTarget(id) ==
    IF id.name \in discovered THEN [id |-> id, name |-> id.name, placeholder |-> FALSE]
    ELSE [id |-> id, name |-> None, placeholder |-> TRUE]

\* _prepare_entities: the targets of CITES that the artifact has no entity for.
Prepared(a) ==
    LET cites == Picked(a.relationships, {r \in Range(a.relationships) : r.type = "cites"})
        targets == DedupeEntities([i \in DOMAIN cites |-> CitationTarget(cites[i].target)])
    IN  a.entities \o Unknown(targets, a.entities)

NodeInput(e) == [name |-> e.name, placeholder |-> e.placeholder,
                 title |-> IF e.id.type = "paper" /\ ~e.placeholder THEN e.name ELSE None]

\* upsert_entities: a node keeps the name it was created with and every property that
\* the input does not set, is_placeholder among them.
Upserted(entities) ==
    LET ids == {e.id : e \in Range(entities)}
        New(id) == NodeInput(CHOOSE e \in Range(entities) : e.id = id)
        Matched(old, new) == [name |-> old.name, placeholder |-> old.placeholder \/ new.placeholder,
                              title |-> IF new.title # None THEN new.title ELSE old.title]
    IN  [id \in ids \cup DOMAIN node |->
            IF id \notin ids THEN node[id]
            ELSE IF id \in DOMAIN node THEN Matched(node[id], New(id)) ELSE New(id)]

\* _index_and_finalize.  A relationship without its endpoints is not written, and then
\* the verification fails, before the edges of other generations are deleted.
Index(p) ==
    /\ artifact[p] # None
    /\ \E prepared \in {Prepared(artifact[p])} :
       \E entities \in {CanonicalEntities(prepared)},
          relationships \in {CanonicalRelationships(prepared, artifact[p].relationships)} :
         LET matched == Picked(relationships, {r \in Range(relationships) : {r.source, r.target} \subseteq DOMAIN node'})
             Properties(r) == [chunk |-> r.chunk, supporting |-> r.supporting, confidence |-> r.confidence]
             written == {Endpoints(r) : r \in Range(matched)}
             stale == IF matched = relationships THEN {k \in DOMAIN edge : k[1] = PaperId(p)} ELSE {}
         IN  /\ node' = Upserted(entities)
             /\ edge' = [k \in written \cup (DOMAIN edge \ stale) |->
                            IF k \in written THEN Properties(CHOOSE r \in Range(matched) : Endpoints(r) = k)
                            ELSE edge[k]]
    /\ indexed' = [indexed EXCEPT ![p] = artifact[p]]
    /\ UNCHANGED <<pdf, discovered, sections, chunks, work, artifact, extractions>>

Next ==
    \/ \E p \in Paper : Discover(p) \/ Parse(p) \/ ChunkDocument(p) \/ Start(p) \/ Index(p)
    \/ Answer \/ Retry \/ Fail \/ Finish

Spec == Init /\ [][Next]_vars

-----------------------------------------------------------------------------
(* Properties *)

\* Every name that is stored is of the ontology, and no chunk is asked about more than
\* MaxRetries + 1 times, whatever failed (generate_structured).
TypeOK ==
    /\ discovered \subseteq Paper
    /\ work.attempt \in 0..(MaxRetries + 1)
    /\ work.paper = None <=> work = Idle
    /\ \A id \in DOMAIN node : id.type \in EntityType
    /\ \A k \in DOMAIN edge : k[2] \in DOMAIN Compatible /\ edge[k].confidence \in 0..One

\* Parsing and chunking lose no text: the chunks hold every word of WordsToKeep; within a
\* section each chunk goes on where the one before ended, and none is larger than size,
\* overlap and merge allow (recover_sections, _pack_units, _merge_tiny_trailing_chunk).
ChunksAreFaithful ==
    \A p \in Paper : chunks[p] # None =>
        LET Texts(i) == LET own == Picked(chunks[p], {c \in Range(chunks[p]) : c.id[2] = i})
                        IN  [k \in DOMAIN own |-> own[k].text]
        IN  /\ WordsToKeep(pdf[p]) \subseteq UNION {Range(c.text) : c \in Range(chunks[p])}
            /\ \A i \in DOMAIN sections[p] : /\ NothingLost(WordsOf(sections[p][i].blocks), Texts(i))
                                             /\ SizesBounded(Texts(i))

\* What the prompt asks for and nothing else.
Asked(r) ==
    /\ r.source = "paper" /\ r.confidence \in 0..One /\ Key[r.name] # Blank
    /\ \/ r.type = "addresses" /\ r.target = "task"
       \/ r.type = "uses_method" /\ r.target = "method" /\ r.usage = "used_by_this_paper"
       \/ r.type = "evaluated_on" /\ r.target = "dataset" /\ r.usage = "used_by_this_paper"

Canonical(r) ==
    LET alias == <<r.target, Key[r.name]>>
    IN  EntityId(r.target, IF alias \in DOMAIN Aliases THEN Aliases[alias] ELSE r.name)

\* An edge to a method, a dataset or a task stands for what the LLM said of the paper,
\* all of it: the chunks it was said of, no others, and the highest confidence.
ClaimsAreEdges(p) ==
    LET said == {r \in indexed[p].heard : Asked(r)}
        Claims(k) == {r \in said : r.type = k[2] /\ Canonical(r) = k[3]}
        claimed == {<<PaperId(p), r.type, Canonical(r)>> : r \in said}
    IN  /\ claimed = {k \in DOMAIN edge : k[1] = PaperId(p) /\ k[2] \notin {"cites", "authored_by"}}
        /\ \A k \in claimed : /\ edge[k].supporting = {r.chunk : r \in Claims(k)}
                              /\ edge[k].chunk \in edge[k].supporting
                              /\ edge[k].confidence = Max({r.confidence : r \in Claims(k)})

\* A trusted citation has the references chunks with an entry that resolves to it.
CitationsAreEdges(p) ==
    LET Holding(q) == {c \in Range(chunks[p]) : /\ c.type = "references"
                                                /\ \E w \in CitedIn(c.text) : ArxivId[w] = q}
        Cited(q) == <<PaperId(p), "cites", PaperId(q)>>
    IN  \A q \in Range(ArxivId) :
          /\ Cited(q) \in DOMAIN edge <=> Holding(q) # {}
          /\ Holding(q) # {} => /\ edge[Cited(q)].supporting = {c.id : c \in Holding(q)}
                                /\ edge[Cited(q)].chunk \in edge[Cited(q)].supporting

\* The graph says what the paper and the LLM said, with its provenance, across
\* deduplication, aliases, retries and re-extraction; both ends of an edge exist; and no
\* paper has a title before it is discovered (build_canonical_graph, upsert_entities).
GraphIsGrounded ==
    /\ \A p \in Paper : indexed[p] # None => ClaimsAreEdges(p) /\ CitationsAreEdges(p)
    /\ \A k \in DOMAIN edge : {k[1], k[3]} \subseteq DOMAIN node
    /\ \A id \in DOMAIN node : id.of = "arxiv_id" /\ node[id].title # None => id.name \in discovered

\* docs/ARCHITECTURE.md: only an explicit arXiv id becomes a citation.
CitesOnlyByArxivId == \A k \in DOMAIN edge : k[2] = "cites" => k[3].of = "arxiv_id"
=============================================================================
