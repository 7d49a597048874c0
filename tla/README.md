# arxiv-graph-rag: specifications, model checking and proofs

arxiv-graph-rag downloads arXiv papers, turns each into text, chunks, vectors
and a knowledge graph, and answers questions over them with citations. This
directory holds TLA+ models of the parts of it where several actors, two kinds
of stores and failures meet, the TLC runs that check them on small instances,
and theorems about them that TLAPS checks for every instance.

1. [The system](#1-the-system)
2. [Modules](#2-modules)
3. [Runs: what is checked and what it shows](#3-runs)
4. [Divergences between the code and its documentation](#4-divergences)
5. [Theorems](#5-theorems)
6. [What is only model-checked, and what is not modelled](#6-limits)
7. [Plan](#7-plan)

Paths below are relative to `src/app/` unless they start with `docs/`.

## 1. The system

A FastAPI process serves two families of endpoints. **Ingestion** endpoints
(`api/routes/papers.py`) each run one stage of the pipeline on one paper
version; **question** endpoints (`api/routes/search.py`, `query.py`) only read.
Every endpoint is a synchronous function: FastAPI runs it in a thread of its
own, with a database session of its own (`storage/postgres/session.py`), which
is *one* transaction: repositories flush, the session commits when the endpoint
returns and rolls back when it raises. There is no queue, no worker and no
lock other than PostgreSQL's.

| Component | State it keeps | Operations | Makes it correct |
|---|---|---|---|
| Ingestion state machine, `domain/ingestion.py` | none (rules) | `can_transition`, `validate_transition` | the statuses form one line with an exit to FAILED; FAILED and READY are final |
| Control plane, `storage/postgres/repositories/ingestion.py` | rows of `ingestion_jobs`, `ingestion_steps` | `create_ingestion_job`, `transition_job_status`, `mark_job_failed`, `record_step` | one active job for each version; a failed job stays failed; a closed job always has a successor |
| Stage services, `ingestion/*/service.py` | none of their own | ingest, parse, chunk, vector-index, extract-graph, graph-index | reuse only what is valid; a job's status never claims what is not there |
| PDF acquisition, `ingestion/download/` | `paper.pdf`, `paper.pdf.part`, artifact columns of `paper_versions` | download with retries, validate, checksum, rename, reconcile | the final path never shows a partial file; success means a complete file whose checksum is recorded |
| Artifact storages, `ingestion/{parsing,chunking,graph_extraction}/storage.py` | `parsed.json`, `chunks.json`, `graph_extraction.json` | write to a temporary name and rename, try_read, checksum | an artifact matches the one it was derived from |
| Index stores, `storage/qdrant/`, `graph/neo4j_repository.py` | points; entity nodes and edges, stamped with version and generation | upsert, count/list, delete stale | an indexed version is never empty, holds one generation, and no other version's |
| Papers repository, `storage/postgres/repositories/papers.py` | rows of `papers`, `paper_versions` | upsert, `update_version_*` | one row for each version |
| Discovery, `ingestion/discovery/` | none of its own; one transaction for each search | search, deduplicate, filter, upsert papers and versions | a bounded number of attempts; a recorded paper was reported as new to somebody; its row describes its newest version |
| Parser and chunker, `ingestion/parsing/`, `ingestion/chunking/section_chunker.py` | none (algorithms) | PDF to sections, sections to chunks | chunks hold all the text of their section, in order, within a size |
| Graph extraction and canonical resolution, `ingestion/graph_extraction/`, `ingestion/canonical_resolution/` | none (algorithms) | facts, citations, validated proposals of the LLM, entity merging | an edge stands for what the paper or the LLM said, with all of its provenance |
| LLM and embedding providers | none | HTTP and model calls, bounded retries | a bounded number of attempts |
| Search, `retrieval/{graph_search,evidence,hybrid}.py` | none; three reads of two stores | graph queries, provenance bridge, rank fusion | paths are stored edges; what is missing is told; fusion keeps the order of the branches |
| Workflow, `retrieval/workflow.py`, `critic.py` | per-question workflow state | plan, search, assess, refine | at most `MAX_RETRIEVAL_ROUNDS` rounds; every path ends; what was given up is not revived |
| Answering, `generation/` | none | build the context, generate, validate citations, check grounding | an answer cites evidence the generator was shown and the critic judged |
| Routes, configuration, frontend, evaluation, scripts, migrations | none | request and response shapes | |

How they interact on one ingestion request:

```
endpoint thread ── session (one transaction) ───────────────────────────┐
  service.stage(paper, version)                                         │
    validate the upstream artifact           reads files                │
    create_ingestion_job                     SELECT / INSERT            │
    reconcile: is my artifact there, valid   reads files, Qdrant, Neo4j │
      and current?                                                      │
      yes: update_version, move the job      UPDATEs                    │
      no : close a job that claims it done,  UPDATE, INSERT             │
           move the job to "busy",           UPDATE (row lock)          │
           do the work,                      writes files, stores       │
           update_version, move the job      UPDATEs                    │
commit, or rollback of the rows only ───────────────────────────────────┘
```

What is hard about it:

- **Two stores, one transaction.** Files, points and edges are written while
  the transaction is open, and no rollback takes them back. Everything after a
  crash or a failure depends on the next request reconciling what it finds.
- **Locks are incidental.** A request locks the job's row only when it updates
  it. A stage whose job is already *past* the stage never updates it before
  its external work, so two requests can do the same work at the same time,
  with the same temporary file name and the same delete-by-generation.
- **Checked, then overwritten.** `transition_job_status` validates the status
  it reads, then its UPDATE may wait for another transaction and overwrite what
  that one committed. Services keep a domain object read earlier still.
- **Three lock orders.** Job rows, the version row and the slot of the partial
  unique index are taken in different orders by different paths.

- **Checksums of files that change.** Every artifact records the checksum of the
  file it was made from, but content and checksum are read at two moments, and
  all writers of a stage share one `.part` name.
- **Reads without a snapshot.** A retrieval reads Qdrant, Neo4j and Qdrant
  again while an index request may rewrite both.
- **State handed on by key.** A question passes through thirteen nodes that
  each return the whole state dictionary with some keys replaced. Evidence,
  pool, assessment and citations are separate keys, a second round rebuilds
  some of them, and the routes test statuses or the mere presence of a key.

The full list, line by line, is `hazards` in `PROJECT.json`.

## 2. Modules

| Module | What it is |
|---|---|
| `IngestionStateMachine` | the pure rules: statuses, order, allowed transitions |
| `JobLedger` | abstract specification: what a reader of the committed jobs of one version may ever see |
| `JobControlPlane` | job rows under READ COMMITTED, and the six stages driving them from concurrent requests; implements `JobLedger` |
| `PdfAcquisition` | the ingest stage down to inodes, file handles, retries and restarts |
| `IndexGenerations` | the two index services against their stores, one protocol with two kinds of keys |
| `ArtifactLineage` | abstract specification: what the artifact files of one version promise |
| `ArtifactChain` | parse, chunk, extract-graph and graph-index over their files, handles and checksums; implements `ArtifactLineage` |
| `PaperDiscovery` | the search request: arXiv client, deduplication, and the transaction that stores the results |
| `PaperParser` | running headers and footers, recovery of sections (operators) |
| `SectionChunker` | units, packing, overlap, the last chunk (operators) |
| `CanonicalGraph` | validation of candidates, facts, deduplication, canonical resolution (operators) |
| `KnowledgeExtraction` | the three algorithm modules composed: from the pages of a PDF to the edges of the graph |
| `Ordering` | lists in an order: `ORDER BY`, `sorted()`, the stable `list.sort()`, the insertion order of a dict (operators) |
| `GraphSearch` | the read queries of Neo4j and the evidence made of their rows (operators) |
| `EvidenceFusion` | reciprocal rank fusion and the evidence pool (operators) |
| `HybridRetrieval` | the search endpoints between the store calls of index requests; extends the two above |
| `RetrievalWorkflow` | one question through the workflow graph: planner, critic, refinement loop, citation and grounding gates |
| `MC*` | symmetry, concrete inputs and bounds for TLC |
| `JobControlPlaneProofs`, `PdfAcquisitionProofs`, `ArtifactChainProofs`, `IndexGenerationsProofs`, `PaperDiscoveryProofs`, `KnowledgeExtractionProofs`, `HybridRetrievalProofs`, `RetrievalWorkflowProofs` | the theorems |

`JobControlPlane` extends `IngestionStateMachine` and instantiates `JobLedger`;
`ArtifactChain` instantiates `ArtifactLineage`. `PdfAcquisition`, `ArtifactChain`
and `IndexGenerations` each refine stages of `JobControlPlane` on the side of the
files and stores. The first and the last take from it what it proves (one
active job, closed and replaced under one lock) instead of repeating its rows;
`ArtifactChain` assumes no lock at all. `KnowledgeExtraction` is about the content
that the other modules treat as opaque, so there a stage runs alone.
`HybridRetrieval` takes the store calls of `IndexGenerations`, in any order, as its
environment. `RetrievalWorkflow` takes the results of `HybridRetrieval` as a set:
a question sees each store as it is at the moment of its search.

### JobControlPlane

*State.* `jobs`: committed rows of one paper version. `writes`: for each
request, the rows its transaction has written and not committed; a request
holds the lock of exactly those rows. `versionLock`: who has updated the
`paper_versions` row. `req`: the next call of each request's thread, its
operation, its job and `snap`, the status in the domain object it holds.
`stored`: the stages whose artifact has ever been written.

*Actions* are the calls of a service in the order it makes them: `CreateSelect`,
`CreateInsert`, `CreateLost`, `CreateReselect` are `create_ingestion_job` with
its savepoint; `ReconcileReuse` and `ReconcileRedo` are `_reconcile_existing_*`
and `_recreate_job_if_stale*`; `FailRead` and `FailWrite` are the read and the
UPDATE of `mark_job_failed`; `EnsureRead`, `EnsureWrite` and `EnsureRejected` the
chain of transitions of `_ensure_job_at_*`; `WorkDone`, `WorkFails` the external
work; `UpdateVersion`, `Transition`, `Commit`, `Raise` the end. `Crash` is the
loss of process or connection, `DeadlockVictim` PostgreSQL's deadlock detector.
The six services differ only in tables (`Busy`, `Done`, `ClaimsDone`, `Finish`,
`Upstream`), so one set of actions covers all of them.

*Abstracted.* An artifact once written may later be found valid or not: both
are possible after each `Begin`, because files and stores survive rollbacks and
can be lost or outdated. Step rows decide nothing here. READY is a status no
service writes, and `get_resume_point` is called by none.

### PdfAcquisition

*State.* `final` and `part` are directory entries, `data` the blocks of each
inode, `recorded` the version's checksum, `job` the number and status class of
the active job and `slot` who has inserted or closed a job and not yet ended.
A handle keeps its inode when the entry is renamed, unlinked or truncated: that
is what makes the fixed name `paper.pdf.part` interesting.

*Actions.* `IsFile`, `Hash`, `Delete`, `Stat` are `_reconcile_existing_artifact`;
`Open`, `Write`, `Downloaded`, `TransientFailure` and `PermanentFailure` the
retry loop of `PdfDownloadClient.download`; `Validate`, `Checksum`, `Finalize`
and `Cleanup` the rest of `_download_and_finalize`. `Restart` kills all threads,
`Advance` is a later stage, `Harm` loses or corrupts the stored file while no
request runs.

*Abstracted.* The job's transitions after the work are one step with the commit;
`JobControlPlane` has them one by one. A damaged file is one the
checksum tells apart. A response cut short raises, as httpx does when the
announced length is not reached. The redirect checks and the step rows are
left out.

### IndexGenerations

*State.* `entry`: for each key, the stamp (version, generation) of the point or
edge stored under it. `artifact`: the content of the upstream file of each
version. `indexed`: the versions with a fingerprint recorded in `paper_versions`. `req`:
what each request read (`doc`), fingerprinted (`gen`) and has left to write (`todo`), and
whether it has had its version to itself (`lone`). `clean` is a history variable: the
versions where no requests have overlapped since one that ran alone succeeded.

*Keys decide.* A point's id is hashed from the paper version, so two versions
share no key (`PointKeys`); a relationship's id is hashed from its two entities
and its type, and its source is always the paper, so two versions of one paper
share keys (`EdgeKeys`). `ByCount` is the other difference: Qdrant is asked for
a count, Neo4j for the ids.

*Actions.* `Begin` and `Fingerprint` are two separate reads of the artifact, as
in the code (content, then checksum); `Check` is `_reconcile_existing_index`;
`Upsert` writes one entry at a time, so a failure may come between any two;
`Verify`, `Delete`, `Commit`, `Abort`. `Replace` lets the upstream stage replace
the artifact at any moment, also between the two reads. When it does, old
content is stamped with the new fingerprint; if that request also fails partway
the next one finds a wrong count and repairs or raises, which is why
`WorkIsExact` speaks of the artifact a request *read*.

*Overlap.* Nothing in the model keeps two requests of one version apart, because nothing
in the code does always. In the ordinary case moving the job to VECTOR_INDEXING or
GRAPH_INDEXING locks its row until the commit. But `extract-graph` leaves the job *at*
GRAPH_INDEXING, so `graph-index` has nothing to move and takes no lock; and a request
that waited for a job which was closed meanwhile goes on with its successor unlocked. Two
requests with different artifacts can each verify and then each delete the other's
generation, and both report success. The code promises nothing for that. What it does
promise, and the properties say, is the rest: a request without company that writes the index leaves exactly
its artifact's entries whatever overlapping requests left (`WorkIsExact`), from its success on
the version keeps entries until requests overlap there again, and that through any failure
of a reindex (`NeverEmptied`); and no overlap at one version touches another
(`OtherVersionsKept`). `MaxCompany` bounds the overlaps.

*Abstracted.* Entity nodes (nothing deletes them), papers without relationships
(refused, or trivially complete), collection and schema bootstrap.

### ArtifactChain

*State.* `final` and `part` are the files of each stage at the two paths: content,
the handles open on them, and the documents that went through these.
`config` is the setting each stage runs under (of the graph index: the canonicalization),
`published` the version's edges in Neo4j, each with the extraction it was made from and its
stamp, `req` the next call of each request and what it has read.

*Actions.* `Start`, `ReadSource` and `HashSource` (two reads of one file), the three
`Reconcile*`, `OpenPart`, `ClosePart` and `Replace` (the write to the shared `.part`
and the rename), then the graph index: `ReconcileExistingIndex` compares the ids stored under
the current fingerprint with the expected ones and reuses them as they are, or `UpsertEdge`,
`VerifyIndex`, `DeleteGeneration`; `Answer`, `Raise`; `Restart` kills all threads and may come
back with other settings. `Ids` are the ids an extraction's relationships have: hashed from
canonical endpoints and type, so extractions made from different chunks may have the same.
Edges are written one at a time, which is finer than the code's batch for each type. A document is a record that contains its
source, so it stands for its own SHA-256.

*Callers.* `sequential` is chosen at the start: callers wait for each other's answers,
as a client that runs one stage after another does, or they do not. `lone` marks a
request that had no company from beginning to end. What the code promises differs:
lineage for sequential callers, and for others only that whoever ran alone answers for a
current artifact, or for exactly the current relationships under the current stamp, whatever
it found. What those edges were made from is not part of it (section 4).

### PaperDiscovery

*State.* `arxiv` is the newest version of each paper, which an author may raise at any
moment (`Revise`). `papers` and `versions` are committed rows. `search` holds, for each
request, the next call and its open transaction; `news` counts the answers that
called a paper new.

*Actions.* `Start` (with `_resolve_max_results`), `Respond` (parsing, `_deduplicate`,
the date range), `TransientFailure` (the retry loop), `Raise`; then for each result
`Lookup`, `Load`, `Store`, `FindVersion`, `StoreVersion`: the reads and writes of
`get_by_source`, `upsert_paper` and `get_or_create_paper_version`, in one
transaction until `Commit`, which is the commit and the answer in one: an answer that is
lost on its way after the commit is not modelled. A write waits for the transactions in `Blockers`;
`DeadlockVictim` is PostgreSQL's detector. SQLAlchemy's UPDATE sets only columns
that differ from the loaded ones (`Updated`), which is why two columns are kept.

*Abstracted.* Waiting between attempts; the text of queries and feeds. A page
lists what arXiv has at that moment: when it listed older versions alone after newer ones
were stored, the row would go back to the older metadata. arXiv's pages do not;
`NewestAssumption` says so, and `RowDescribesDefault` rests on it.

### PaperParser, SectionChunker, CanonicalGraph, KnowledgeExtraction

*Data.* A page is a sequence of blocks, a paragraph a sequence of sentences, a
sentence a sequence of words; all words differ, so that loss, order and repetition
can be told, and a text is as long as it has words. A name is a surface form with
an identity key; an id is what the code hashes: `of` tells a paper's own id, its arXiv id,
from one that is hashed from a name.

*State* of `KnowledgeExtraction`: the PDFs, the parsed sections, the chunks, the
running extraction (`work`: chunks to ask about, attempt, proposals), the artifact
and what was indexed of it, and the properties of nodes and edges. `heard` is a history
variable: all the LLM proposed, valid or not.

*Actions.* `Discover`, `Parse`, `ChunkDocument`; `Start`, `Answer`, `Retry`, `Fail`, `Finish`
are one extraction, asking chunk by chunk; `Index` resolves, merges, upserts nodes,
merges edges and deletes those of earlier artifacts. The operators below them
are `recover_sections`, `_pack_units` and `_merge_tiny_trailing_chunk`, the
ontology's validation, and `_remap_and_dedupe_relationships`, each with its name
in a comment.

*Reference definitions.* `WordsToKeep`, `NothingLost` and `SizesBounded` say what a
chunking must be without saying how it is made. A word must be kept when its line begins or
ends fewer than three pages (`min_page_count`; a line that does may be taken for a running
header or footer) and a heading of that kind precedes it, or no heading follows it at all. A
heading that does begin three pages proves nothing: with the ratio of 60 % a document of six
pages keeps it, one of five loses it, and with it the section it opened. `ClaimsAreEdges` and
`CitationsAreEdges` say which edges the graph must have from `heard` and the chunks
alone.

*Abstracted.* How a heading or a running header is recognised in text, and where in a
text of references an entry begins: `FirstIds` is a constant operator, the words that come
first of the arXiv ids of an entry, since `extract_arxiv_id` takes one for each. The prompt,
quotes, warnings. The reviewed alias registry of the repository is empty; the
instance has one alias, so that resolution has something to merge.

### GraphSearch, EvidenceFusion, HybridRetrieval

*State* of `HybridRetrieval`: the points of Qdrant, the nodes and edges of Neo4j, and one
retrieval (`req`: branch lists, graph items still to bridge, support texts,
answer). Retrievals change nothing, so one at a time stands for any number.

*Actions.* One for each store read of `retrieve` (`SearchVectors`, `ResolveEntity`,
`FindEntity`, `QueryPaths`, `QueryIncoming`, `BridgeItem`), `FuseBranches`, `StoreFails`,
`Reply`; and the store calls of index requests between them (`UpsertPoint`,
`DeletePoints`, `UpsertEntity`, `UpsertRelationship`, `DeleteRelationships`). A refusal or an
exception is a `Fail` with its kind of error.

*Operators.* `GraphSearch` has every operation of `_execute_operation` with its query,
order and limit, including what the caller of a query fills in (`Between`).
`EvidenceFusion` computes scores exactly, in units of 1 / `Scale`, where
the code has floats. `Ordering` defines a sorted list by counting what comes before
an element, because the sorts of the community modules leave open where equal
elements go, and the code's own order depends on it: `list.sort()` is stable.
Evidence ids are SHA-256 digests; `Digest` and `PathDigest` stand for the number a
digest is compared as, any number at all.

*Abstracted.* Similarity: any order of the points may come back. Summaries and node
properties. For a paper given by name `IdOf` is the paper's id, where the code first hashes
the name and then finds the node by its name.

### RetrievalWorkflow

*State.* `node` is the node LangGraph runs next; the other variables are keys of
`RetrievalWorkflowState`. `pool`, `context` and `cited` are sets of evidence ids,
so that what each node passes on can be compared; `assessment` remembers which
evidence it judged. `calls` is the one history variable: how often
`HybridRetrievalService.retrieve` was called.

*Actions* are the nodes, each with the route function that follows it, because
the route reads the state the node returns. `evaluate_evidence` is five actions,
one for each branch of the critic: no evidence, a structural question, the gate of a
mixed question, the model's verdict, the model's failure. `build_refinement` is
two, a refinement built and none. `RejectBlank` is the blank question, which
`run` answers itself. `Resolve` may end in `raised`: of the nodes that call a
store or a model it is the only one without an exception handler.

*Chance.* The intent, the outcome of entity resolution, the results of each
search (`Results`: any evidence of the kinds the strategy can return), the
model's verdict and recommendation, what fits in the context (`Contexts`), which
labels the model cites (`Citable`, also ones it was not shown), and the failure of
every call.

*Abstracted.* Services that may be `None` are configured. An empty context ends the question;
the code, with a budget of characters too small for any item, would still ask the generator. Confidence, texts,
labels and metadata are left out; so is `_has_fatal_provenance`, because no code
sets the flag it looks for. `Room` says which budget can still grow; a
budget at its maximum makes the expansions return nothing. LangGraph's own
limit of 25 steps is above the longest path (15 nodes) at the default of two
rounds; with five rounds (30 nodes) it would make `invoke` raise.

## 3. Runs

| Run | Question | Instance |
|---|---|---|
| `control_plane` | do concurrent requests of any stages keep one active job, never reopen a failed one, and change the rows only as the ledger says? | 2 requests, 2 job ids, all 6 stages |
| `control_plane_live` | does every request end? | 2 requests, 2 job ids, ingest and parse |
| `failure_recorded` | is a failed stage recorded? (it is not) | 1 request |
| `pdf` | with a job at most DOWNLOADED, do failing, racing, restarted ingests keep the final file whole and the result truthful? | 2 requests, 2 blocks, 1 retry, 3 jobs, files lost while idle |
| `pdf_repair` | does one ingest at a time repair any damage at any stage of the job? | 1 request, lost and corrupted files |
| `chain` | do overlapping, failing and restarted requests keep the lineage of the artifacts, as far as their callers wait? | 2 requests, 2 settings, 2 LLM outcomes, 3 relationship ids, 2 disturbances |
| `index` | points: does an indexed version keep its entries, and does a request that worked alone leave exactly its artifact's, also after requests have overlapped? | 2 requests, 2 versions, 2 generations, 4 points, 1 overlap |
| `discovery` | do overlapping searches end, report each new paper and describe its newest version? | 2 searches, 2 papers, 2 versions, 2 attempts |
| `extraction` | are chunks faithful to the PDF and edges to the chunks and the LLM? | an article with a note, a letter with a bare heading, a report whose running heading is kept; 2 extractions, 4 kinds of LLM answers; 420 sections |
| `llm_cites` | does a citation need an arXiv id? (not one the LLM proposes) | the same |
| `retrieval` | are paths stored, provenance told and ranks respected while both stores are rewritten? | every operation and strategy, 7 entities, 4 chunks, 3 versions, 2 store calls |
| `workflow` | does a question end within its rounds, is what it answers grounded in what the critic judged, and does a failure stay one? | 2 text items, 1 graph item, 2 rounds |

*Why these bounds.* Two requests are enough for each race the code has: every
conflict is between a transaction that holds a lock, a file or a slot and one
other that waits or has read before. Two job ids let a job be closed and
replaced, which is where gaps and double jobs could appear; when no id is left
the request gives up (`NoIdLeft`), a behaviour the code lacks but one which
only ends runs earlier. Two blocks give a file that is empty, half-written or
complete; one retry gives a first, a last and a repeated attempt; three jobs let a
job be closed twice (`MaxJobs` bounds `FailRead`). In `index` the two
generations of one version overlap in one of two keys, so an upsert both overwrites and
adds, and the delete leaves something and removes something; those of the other have the
same key, so an upsert only overwrites. One overlap (`MaxCompany`) is enough to leave the
store in any disorder a later request must put right. `NoIdLeft`, `MaxJobs` and `MaxCompany`
are the only bounds in the guards of these modules; all other state is finite by itself.

For `chain`, one setting that differs is enough to make each stage stale on its own,
two outcomes of the LLM tell a redone extraction from a reused one, and two
disturbances (an overlap, an exception, a restart) are as many as one window
between two calls can have. The second outcome has the relationships of the first and one
more, and other canonicalization settings rename one: the ids of two extractions can be
the same, contained in each other, or differ. For `discovery`, the pages hold two papers in both orders
(the deadlock), one paper at two versions, and an id without version; a limit of two
with a request for three is refused; one exception may come at any call. `MaxSearches`,
`MaxErrors` and `MaxDisturbances` bound how often these happen.

For `extraction`, a chunk has 4 words, the overlap 2, the minimum 2: the sections (one
or two paragraphs of one or two sentences of 1, 2, 3 or 6 words) are shorter and longer
than each of these, and need splitting by sentence and by word, and a merged end. The
article has running lines, a section over two pages, an empty section, one the LLM is
not asked about, and references; the report has a heading that begins three pages of six, one
page too few to be removed. The LLM's answers include nothing, aliases, duplicates
with other confidences, uses that are mere mentions, and everything the ontology
refuses. Two extractions (`MaxExtractions`) let the second replace the first. For
`retrieval`, two papers cite each other and one cites itself, three versions share an
edge, and up to two writes (`MaxWrites`) fall between any reads; `MaxSupportingChunks`
is smaller than a path's chunks can be. A wrong `Scale` cannot hide: scores are exact up
to `MaxRank` 4, the longest branch the limits allow.

For `workflow`, two text items and a graph item let a refinement bring new
evidence of either type or nothing new, the context leave an item out, and a
citation name an item that the context, or the pool, does not hold; two rounds are the
configured default (`core/config.py:149`), with both budgets able to grow. With
three rounds every property but `RefinementIsFresh` holds as well (section 4).

*What `pdf` does not show.* Its instance is chosen: jobs at most DOWNLOADED, two
requests, loss but no corruption. With later stages or corruption (section 4) two
requests already break the properties, and with three requests loss alone does: two
ingests that waited to close a job which a third has closed go on with its successor and
download side by side, without a lock. The run shows where the incidental lock holds;
the violations show where it stops holding. The theorems of section 5 cover any number
of requests when stored files are not damaged.

*Deadlock.* All runs but `workflow` and `discovery` check it; none can stop, because a
request may always begin. `workflow` is one question, which ends; that it ends at `done` or
`raised` and nowhere else is `EveryQuestionEnds`. `discovery` stops when `MaxSearches` have run and
arXiv has no version left to publish; that no search is left waiting then is
`EverySearchEnds`.

*Fairness.* `discovery` assumes `WF_vars(Step(r) \/ TransientFailure(r))` for every
search: a call of arXiv answers or times out, and a statement that nobody blocks runs.
Weak fairness is enough, since searches are bounded and a search that is blocked stays
so until its blocker ends or one of both is chosen by the detector. `workflow` assumes
`WF_vars(Next)`: `invoke()` runs node after node in the caller's thread, and every call
of a node returns or raises. `control_plane_live` assumes `SF_vars(Step(r))` for every
request. A thread that can go on is scheduled by the operating system; external calls
return or time out, which is a `WorkDone` or `WorkFails` (the HTTP and Qdrant clients
are built with timeouts and downloads have a size limit; of Neo4j only the connection
has one, a query is assumed to return); and a lock that is released again and again is
granted to its waiters in turn, because PostgreSQL queues them, which needs strong
rather than weak fairness. `Begin` (a client's choice) and `Crash` have none. The cycles
that remain, version row against job row against index slot, are broken by
`DeadlockVictim`, which is part of `Step` since `deadlock_timeout` is bounded; without
it the property fails. The instance uses the first two stages, which have both lock
orders, because TLC's liveness check admits no symmetry here.

Every property of every passing run has a mutant in `PROJECT.json`: a
plausible fault in one definition (the index missing, a check dropped, locks
kept after a rollback, a failure ignored, a delete with a wider scope) which
makes TLC find that property violated. Mutant definitions stand before the
definition they replace and are used by nothing else.

## 4. Divergences

Two runs keep a counterexample to something the repository says of itself.
Each has an entry with the quoted line under `findings` in `PROJECT.json`.

1. `failure_recorded`. A stage that fails marks the step and the job FAILED,
   re-raises, and the session rolls both marks back. (As a consequence no
   failure ever closes a job, which `ActiveJobRemains` records.)
2. `llm_cites`. `docs/ARCHITECTURE.md` says only an explicit arXiv id becomes a citation;
   the prompt asks the LLM for no `cites`, but the compatibility matrix
   (`ingestion/graph_extraction/ontology.py:150`) lets one through, and it becomes an edge to
   a paper without an arXiv id.

The next nine are found by TLC with a change to a configuration, given with each, and the property
named, which stands in its module, as the only one (without the symmetry).

- `StatusNeverMovesBack` (`ControlPlane.cfg`, `Op = {"INGEST", "PARSE", "CHUNK"}`, as a
  `PROPERTY`). A request that read the job before a concurrent one advanced it
  overwrites the later status with an earlier one; both return 200
  (`storage/postgres/repositories/ingestion.py:146`). `main.py:139` calls "a stale
  concurrent request" a conflict (409).
- `NoIllegalTransition` (the same with `Request = {r1}`). `_recreate_job_if_stale_parse`
  (`ingestion/parsing/service.py:211`) tests `== PARSED` where the later
  stages test "at or past": redoing the parse of a chunked job rewrites
  `parsed.json` and then raises on the last transition.
- `FinalNeverPartial` (`Pdf.cfg`, `StagesFollow = TRUE`). Two ingests of a job past DOWNLOADED
  write the same `paper.pdf.part`; one renames it while the other goes on writing.
  `ingestion/download/storage.py:62-66` says "a reader can never observe a partially
  written file at the final path".
- `SuccessLeavesOneGeneration` (`Index.cfg`, `Request = {r1}`). A reindex that failed between its verification and its
  delete is completed by a request that reuses the new generation and leaves
  the old one in place, searchable (`ingestion/vector_indexing/service.py:205`;
  `docs/ARCHITECTURE.md:806-811`).
- `OtherVersionsKept` (`Index.cfg`, `Request = {r1}`, `Key <- Edges`, `Keys <- EdgeKeys`,
  `ByCount = FALSE`). Indexing one version of a paper takes over the edges of
  another: relationship ids do not contain the version
  (`graph/neo4j_repository.py:146`; `docs/ARCHITECTURE.md:150-151`).
- `EdgesAreOfExtraction` (`Chain.cfg`). While one request indexes an extraction, another
  replaces it between the read and the hash: the old edges carry the new fingerprint. The
  next request, alone, finds the ids it expects, because ids hash neither chunks nor
  confidence, and reuses edges that cite the old chunks
  (`ingestion/graph_indexing/service.py:282-288`, after `176` and `199`).
- `LoneIndexVerifies` (`Chain.cfg`, as a `PROPERTY`). In the same situation the old extraction
  may have had relationships that the new one lacks. They carry the current stamp, so no
  verification succeeds, with "0 missing" in the message, and a retry finds the same until the
  extraction or the canonicalization changes (`ingestion/graph_indexing/service.py:463-469`).
- `ScoreIsSumOfRanks` (`Retrieval.cfg`, `Call <- Neighbours`, `Stores <- SelfCiting`,
  `MaxWrites = 0`). A paper that cites itself is found by both queries of its
  neighbourhood; its path is scored twice and reported with one rank
  (`retrieval/hybrid.py:84`; `docs/ARCHITECTURE.md:1310-1311`).
- `ChunkIsOneEvidence` (`Retrieval.cfg`, `Call <- Both`, `MaxWrites = 1`). A chunk that is
  re-indexed between the vector search and the bridge is two pieces of evidence, because
  the id contains the generation (`retrieval/evidence.py:223`). `domain/ids.py:174-176`
  says the same chunk is one piece of evidence whatever pass found it.

More, seen while modelling:

- With `Damage = {"corrupt"}` and `StagesFollow = FALSE` the instance of `pdf` violates
  `TruthfulResult`: the slower of two ingests that both found the file corrupt deletes,
  by name, the replacement the faster one has published
  (`ingestion/download/service.py:144`). `docs/ARCHITECTURE.md:396-401` promises that
  "the caller always gets a truthful, currently-valid result".
- `docs/ARCHITECTURE.md:1533-1534` says a retrieval without evidence returns
  `EMPTY_EVIDENCE`. That status is only an intermediate one: the critic then asks for a
  refinement or the workflow ends with `INSUFFICIENT_EVIDENCE`
  (`retrieval/workflow.py:594-603` and `1151-1164`).
- With `MAX_RETRIEVAL_ROUNDS` above 2, `RefinementIsFresh` fails: when the planner finds
  no valid refinement in round 2, the one of round 1 is still in the state,
  `_route_after_build_refinement` (`retrieval/workflow.py:1041-1044`) finds it and it is
  executed again. `docs/ARCHITECTURE.md:1513-1518` says the workflow terminates when "no
  valid refinement exists". The rounds stay bounded and, as `GivenUpIsFinal` shows, the
  repetition revives nothing; it costs a search.
- `_merge_evidence_by_id` (`retrieval/workflow.py:1178-1211`) tags evidence with the
  rounds 1 and 2 whatever the round is, which is right only at the default.
- `_pack_units` joins units by a space (`ingestion/chunking/section_chunker.py:224`, `:232`), and
  `split_reference_entries` finds the entries by the markers that begin a line
  (`ingestion/graph_extraction/citations.py:45-57`). A references section that is longer than
  a chunk therefore has one entry for each chunk, or few, and `extract_arxiv_id` takes the
  first arXiv id of an entry: the others become no citation. `docs/ARCHITECTURE.md:884-890`
  says that entries are segmented by markers and that every entry left over has no explicit
  arXiv id.
- `ingestion/graph_extraction/citations.py:75-76` leaves duplicates to the caller, who
  appends one CITES for each occurrence; only resolution merges them. Citations of the
  paper itself are not excluded.
- An `authored_by` that the LLM proposes passes the ontology and merges with the one
  from the metadata: `provenance_type` stays "metadata" while the chunk is the LLM's.
- `llm/openai_compatible_provider.py`: only `json.JSONDecodeError` and `ValidationError`
  of the answer's text are retried; a malformed envelope raises at once. Usage is
  counted of the last attempt only, and an old one again when the backend reports none,
  against lines 76-80.
- After a placeholder paper is discovered and indexed, its node has a title but keeps
  `is_placeholder` and the name "arxiv:...":
  `ingestion/graph_indexing/graph_mapping.py:38-43` says it is enriched in place.
- arXiv ids are matched in any case, but the paper id keeps the case; an old id with a
  subject class differs from the one discovery makes.
- A merged last chunk repeats its overlap words inside the text, and an overlap above a
  fifth of the size can push a chunk past the tolerance of
  `tests/chunking/test_section_chunker.py:210`.
- `citation_neighborhood` fills its limit with outgoing paths first; incoming ones can
  be left out entirely.
- No caller passes `expected_vector_generation_fingerprint`, so the check that
  `docs/ARCHITECTURE.md` describes near line 1272 is never made.
- A graph extraction that is stale after a rechunk is accepted by `graph-index` as long
  as it is valid in itself, against the comment at
  `ingestion/chunking/service.py:213-215`; `LoneAnswerIsCurrent` asks of a graph index
  only that the relationships are those of the extraction that is there.

## 5. Theorems

All are of the form `Spec => []P` or `Spec => [][A]_vars`, for any sets
of requests, job ids, inodes, versions, keys, and any bounds.

**`JobControlPlaneProofs`** assumes only that `None` is no other value and that
`Op` is a set of stages. `OneActiveJob` and `ActiveJobRemains` are about
committed rows, and nothing about committed rows alone is inductive: a commit
copies a transaction's view. `IInv` therefore says what transactions hold. Two
of them never write one row (`RowLocks`), never both hold an uncommitted active
status (`OneSlotWriter`), and each sees at most one active row
(`OneActiveInView`): committing a view leaves one active job. A transaction that
closed the committed active job is at a call from which it cannot commit until
it holds a successor (`ClosedHasSuccessor`): committing leaves no gap. And once a
row is committed FAILED nobody holds an active status for it (`FailedStays`),
because the successor takes the slot of the unique index; that, not the
validation in `transition_job_status`, keeps failed jobs failed.
Theorems: `TypeCorrect`, `OneActive`, `ActiveRemains`, `WinnerFound`, `FailedFinal`.

The same module proves `Spec => Ledger!Spec` (`Refinement`). It adds to `IInv`
which status a transaction holds at each call (`StageOK`): only its own job is
active in it, its snapshot of that job is what it wrote, and at the commit the
status is one a stage leaves behind. A commit is then one `Open`, `Move` or
`Replace` of the ledger, or changes nothing, and every other step stutters.

**`PdfAcquisitionProofs`** assumes `Damage = {}`: nothing but the service touches
the stored files. Then a committed job implies its file, so nobody ever closes a
job; whoever downloads has inserted the version's first job and holds the slot
until it ends; and `paper.pdf.part` is its own (`DownloadOK` says how much of it is
written at every step). Theorems: `NeverPartial`, `RecordedComplete`, `Truthful`,
for any number of requests, retries, restarts, and later stages. Without the
assumption they are false (section 4).

`TypeCorrect` needs no such assumption: whatever happens to the stored files, the rows
and handles stay what the code can deal with, and no download exceeds its attempts.

**`ArtifactChainProofs`** proves `Spec => ImplementsLineage`, the refinement of
`ArtifactLineage`, and `ProvenanceExact` and `LoneAnswerIsCurrent`, for any number of
requests, settings, LLM outcomes and disturbances. Neither is inductive: what a request
will leave depends on what it has read. `Place` says, call by call, what a request that
runs alone knows: the content it holds is that of the file, the checksum is the
content's, the document it writes is made from both. For the
graph index, what is written carries the request's stamp, and the verification compares
exactly what the answer promises; that a lone request's stamp is still the current one when it
answers follows from `Place`. `Held` says who has a handle on
which file, so that a rename by a lone request moves its own document and not one
another handle still writes to; `Undisturbed` that sequential callers only ever run
alone.

**`PaperDiscoveryProofs`** proves `DiscoveryIsReported`, `RowDescribesDefault` and the type
invariant for any pages, papers, versions, searches and errors. `news` is told at the commit and `papers`
written long before, in a transaction that may end otherwise. `Remembers` links them: a
search that wrote a row nobody has committed has the paper among its news, or is still
at that result and did not find the paper. `RemembersAlone` adds what a search without
company knows: its news are absent from the committed rows, so the commit makes the
count 1. A result is the least position left on the page; that a set of positions has a
least one (`Smallest`) is taken from the well-foundedness of the strict subset order on
finite sets, since induction over data is out of reach.

`RowsDescribe` needs a second invariant, `Fresh`. A row that is behind the recorded
versions is a legal intermediate state: within a search the rows are written result by
result, and the version is recorded after the row. `UpToDate` is therefore said of what a
transaction *sees*, committed or its own; `Lone` adds that a search without company
has loaded what it is about to overwrite, and that the results it has not stored yet are
not older than the row (`Ahead`). There `NewestAssumption` enters: deduplication
keeps the highest version of the page, which is the newest one at that moment.

**`KnowledgeExtractionProofs`** proves the type invariant, `GraphIsGrounded` and
`ChunksAreFaithful` for any documents, any chunk size, overlap and minimum, any answers of the
LLM, any aliases and identity keys, any segmentation of references, and any order in which
papers are discovered, extracted and indexed. It assumes that what the LLM returns and the
authors are lists, that documents are lists of pages of blocks, and that `None` is neither a
paper nor a chunk's id. Of blocks it assumes what the parser makes sure of: a block is a heading
or has text, and no sentence is blank (`_split_paragraphs` and `_split_sentences` drop blank
parts). That a document's words are distinct is no restriction: a word stands for one
occurrence of a word, so that a property can tell which one a chunk has.

- The lists come first. `GroupBy`, `Once` and `Picked` are defined by counting places, so
  what they hold is proved from `Cardinality` (`OnceList`, `PickedSet`, `GroupList`); of
  `FlattenSeq` and the packing of units, which recur over a list's length, what they
  compute (`Recursion`, `Places`, `Packing`), with the smallest counterexample in place of
  induction.
- `IInv` says what `GraphIsGrounded` does not: an artifact has one relationship for each
  author, each citation and each group of valid proposals, with their chunks (`ArtifactOK`),
  and its entities include every endpoint but a cited paper's; the running extraction keeps
  exactly what is valid of what it heard (`WorkOK`); chunks do not change once an artifact
  may rest on them (`TextOK`).
- Indexing is the step that matters. Resolution never merges two edges that a reader would
  keep apart, nor keeps apart two that an alias makes one: `Stored` gives each edge the
  union of the chunks and the maximum of the confidences of the relationships that resolve
  to it (`CanonicalRelationshipsList`), the endpoints of all of them are prepared
  (`PreparedList`), so nothing is skipped, the edges of the earlier artifact are deleted and
  those of other papers stay (`IndexedEdges`, `OthersStay`). That one confidence is the
  greatest of the greatest, of groups within the artifact and of aliases between them, is
  `GreatestOfAll`.
- A title: a placeholder has none, and the artifact's own paper is discovered (`NodesOK`).
- `ChunksFaithful` has a small invariant, `TextFollows`: the sections are the parser's of the
  PDF, the chunks the chunker's of the sections. The work is in what the algorithms compute.
  Each chunk is a part of the section's words, `low + 1` to `high`, that begins within the
  overlap before the end of the last one and ends after it (`Cut`); that packing keeps this
  unit by unit is proved with what is left to pack as well, the units from `c` on
  (`Packed`, `PackFull`, `PackOn`), and the size bound comes with it, since the tail that is
  carried over is no longer than the overlap and a unit no longer than a chunk. Merging joins
  two such parts, whose words are then in two runs (`MergedFaithful`). Of the document, each step keeps
  a subsequence: a page loses at most its first and last line (`CleanedIs`, `KeptBlocks`), a section is
  the blocks between two headings (`Recovered`), and a line is lost only if it begins or ends
  three pages (`RepeatedRun`), or nothing of its kind opens a section before it (`WordsKept`).

**`HybridRetrievalProofs`** proves all the invariants that the run `retrieval` checks, for any
graph, chunks, limits, RRF constant, digests, and any interleaving with store calls. It assumes
of the constants that facts name chunks of their own version (an extraction reads the
chunks of one version, and a chunk id is hashed from it), that the branch limits fit
`MaxRank`, and that `Scale` is a common multiple of the denominators.

- `TypeCorrect`: nodes are never deleted and `MERGE` replaces the one edge with its id.
- `PathsStored` and `BridgeTells` are about a retrieval that no write disturbed (`quiet`),
  but the last reads come long after the first: `Gathered` says of each list of `req` what it
  is, *always* relative to the facts that extractions ever gave rise to, and relative to
  the stores as they are as long as `quiet` holds. That every one of the fourteen queries
  returns walks from its start over stored edges (`Walks`) is proved query by query, with
  the endpoints the caller of each query fills in; a sort, a limit and the removal of
  repetitions keep that (`OrderedList`, `SortedList`, `OnceList`).
- `BridgeAgrees`: a chunk is checked against the version of the *last* relationship that names
  it; by the assumption on facts every relationship that names it has its version, so the check
  cannot fail, and the whole request with it, even while two versions are reindexed.
- `FusionKeepsRanks`: where the graph list repeats no id (section 4 has the case where it
  does; that the vector list never does is proved), a score is the sum of at most two
  weights; weights fall strictly with the rank, because `Scale` is divisible by
  `RrfK + rank`. Evidence that a branch ranks higher and none lower has a higher score, and
  the sort key then decides before any tie-break. A score is a fold over a set of ranks;
  that it is this sum is proved from the fold's definition, with the minimal
  counterexample in place of induction (`SumIsFold`).

**`IndexGenerationsProofs`.** Any number of requests may overlap anywhere. `TypeCorrect`
needs no assumption. The other three need `DisjointKeys`: entries lie under keys of their
own version (`OwnerOK`), so an upsert cannot touch another's (`OthersKept`). `NonEmpty` and
`Exact` rest on what `lone` says: such a request has its version to itself (`LoneOK`), so
what it has written stays written until it ends (`WorkOK`); after the verification the
version's current generation is exactly what was expected, and the delete removes all the
rest, leftovers of overlapping requests included, and leaves that. Whoever works on a
clean version is lone (`CleanOK`), so nobody else deletes there.
That the count Qdrant returns can stand for the set of ids is part of the proof:
after the upsert the expected points are among those found, so between finite
sets an equal count means the same set. Before the upsert it means no such thing,
which is why `WorkOK` says of a reuse only that something was found. Of edges, whose keys
versions share, only `TypeCorrect` is proved.

**`RetrievalWorkflowProofs`** holds for any evidence, round limit and budgets. `IInv`
says, node by node, what a question that reaches the node looks like. In the loop
each round took one search (`Counted`). A question given up is past the nodes that
set SUCCESS, with one exception: a stale refinement may still be executed, with
the status already INSUFFICIENT_EVIDENCE, and then ends (`Hopeful`). From the evaluation on,
the assessment is of the evidence and the pool as they are (`Grounded`), and what a
critic's branch implies about the types of evidence is stated with it; a semantic question
collects text only (`TextOnly`). Theorems: `TypeCorrect`, `Bounded`, `Grounding`,
`Coverage`, `SuccessAnswers`, `GivenUpForGood`; and `Fresh` under `MaxRounds <= 2`,
without which it is false.

## 6. Limits

*Only model-checked*:

- liveness (`EveryRequestEnds`, `EverySearchEnds`, `EveryQuestionEnds`): fairness and
  `ENABLED` are outside the prover;
- `pdf` and `pdf_repair` when files are lost or corrupted, since the theorems assume
  they are not.

Every other property that the passing runs check is stated by a theorem: three of them for
undamaged files (section 5), one for at most two rounds, three of the indexes for keys
that no two versions share.

*What the bounds leave open.* `extraction` and `retrieval` check operators on chosen
inputs. They are small, chosen so that each case named in section 3 happens; a longer
document or a deeper graph repeats these cases. Scores are exact in the model and floats
in the code; equal scores are broken by the same keys, and rounding could only reorder
scores that are closer than a float can tell.

*Not modelled*, with the reason, in `components` of `PROJECT.json`. In short: the text
processing below the level of words (characters, patterns of headings, JSON cleaning),
prompts, embeddings, the query text of arXiv, rows of `ingestion_steps` (nothing is
decided on them), routes and error mapping, configuration, the evaluation harness, the
frontend, scripts and migrations. PostgreSQL is modelled as the code uses it at its
default isolation level; SQLAlchemy's identity map holds rows weakly, so a repository
call reads again and only domain objects are stale.

Seven hazards have no property, each with its note in `hazards`. Five do go wrong, so there
is only a narrower promise to check: a source replaced between its read and its hash, a corrupt file deleted by name
after a replacement, a reuse that leaves an old generation, a chunk re-indexed during a retrieval, and a graph
index of an extraction whose chunks are gone. Two are not modelled: a default version that
changes between two stages, and the numbers of step attempts.

## 7. Plan

Written in this order, the most important behaviour first:

1. `IngestionStateMachine`, `JobLedger`, `JobControlPlane`: what every stage relies on.
   Proofs and refinement.
2. `PdfAcquisition`: the stage with the most file-system behaviour. Proofs.
3. `IndexGenerations`: the two stages with a second database. Proofs.
4. `RetrievalWorkflow`: the question workflow with the critic, the refinement loop and
   the gates of the answer. Proofs.
5. `ArtifactLineage`, `ArtifactChain`: the files of parsing, chunking and extraction.
   Proofs and refinement.
6. `PaperDiscovery`: the other transaction of the service. Proofs.
7. `PaperParser`, `SectionChunker`, `CanonicalGraph`, `KnowledgeExtraction`: the content
   of the pipeline. Proofs, but for the chunker's.
8. `GraphSearch`, `EvidenceFusion`, `HybridRetrieval`: the searches behind a question.
   Proofs.

Left, should the code move there: two versions of one paper in `ArtifactChain` (the moving default
version), step rows, and the parsing of planner and LLM answers.
