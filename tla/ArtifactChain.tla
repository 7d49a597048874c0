---------------------------- MODULE ArtifactChain ----------------------------
(***************************************************************************)
(* The chain of artifacts of one paper version under PAPER_STORAGE_PATH and *)
(* the requests that keep it: parse, chunk, extract-graph write a file      *)
(* each, graph-index reads the last one and publishes it to Neo4j.          *)
(*                                                                         *)
(* An artifact is a record that contains what it was made from, so the      *)
(* record stands for its own SHA-256 and the checksum an artifact stores is *)
(* the record of its source.  Parser and chunker are functions of source    *)
(* and configuration; only the extraction has variants (the language        *)
(* model's answers).  A file is a record too: its content, the handles open *)
(* on it, and the documents that went through them, because all writers of  *)
(* a stage share one .part name and write_text truncates it.                *)
(*                                                                         *)
(* A request may raise at any call and the process may be restarted, with   *)
(* other settings, at any moment; no rollback takes a file back.  The rows  *)
(* of the job (JobControlPlane), the diagnostic columns of the version row  *)
(* and the edges of other versions (IndexGenerations) are not here.         *)
(* The job's row lock orders some requests of one stage; not all, so none   *)
(* is assumed: callers either wait for each other's answers or they do not. *)
(***************************************************************************)
EXTENDS Naturals, FiniteSets

CONSTANTS Request,   \* the request threads
          Config,    \* the configurations a stage can run under
          Settings,  \* the combinations of them that occur
          Variant,   \* the answers a language model can give for one source
          Pdf,       \* the PDF, acquired elsewhere, and its checksum
          None,      \* no file
          Torn,      \* a file that does not parse
          Relationship, \* ids of edges in Neo4j
          Ids,       \* [Config -> [Variant -> the ids of an extraction's relationships]]
          MaxDisturbances  \* bound on what disturbs the requests of one behaviour

Stage == {"PARSE", "CHUNK", "EXTRACT_GRAPH"}
Operation == Stage \cup {"GRAPH_INDEX"}

ASSUME SettingsAssumption == Settings \subseteq [Operation -> Config]
ASSUME MaxDisturbancesAssumption == MaxDisturbances \in Nat
ASSUME VariantAssumption == Variant # {}

\* An id is hashed from the canonical endpoints and the type, never from the chunks
\* or the confidence: extractions from different chunks may share all of them.
ASSUME IdsAssumption == Ids \in [Config -> [Variant -> SUBSET Relationship]]

VARIABLES
    final,      \* [Stage -> the file at the final path, or NoFile]
    part,       \* [Stage -> the file at the .part path, or NoFile]
    config,     \* [Operation -> the configuration in force]
    published,  \* [Relationship -> the version's edge in Neo4j, or None]
    req,        \* [Request -> local state of the request]
    sequential, \* the callers wait for each other's answers
    disturbances      \* restarts, raises and overlapping requests so far

vars == <<final, part, config, published, req, sequential, disturbances>>

SourceOf == [PARSE |-> "PDF", CHUNK |-> "PARSE", EXTRACT_GRAPH |-> "CHUNK",
             GRAPH_INDEX |-> "EXTRACT_GRAPH"]

Made(from, sum, c, v) == [from |-> from, sum |-> sum, config |-> c, variant |-> v]

Whole(x) == x \notin {None, Torn}

NoFile == [data |-> None, writers |-> {}, docs |-> {}]

\* What try_read and sha256_file find at the final path.
Content(s) == IF s = "PDF" THEN Pdf ELSE final[s].data

Idle == [pc |-> "idle", stage |-> None, content |-> None, sum |-> None, doc |-> None,
         todo |-> {}, lone |-> FALSE]

Active(r) == req[r].pc # "idle"
Alone == \A r \in Request : ~Active(r)

\* A request that goes on to its next call.
Goto(r, pc) == req' = [req EXCEPT ![r].pc = pc]

-----------------------------------------------------------------------------
(* Types. The checksum an artifact carries may be that of a torn file. *)

Unreadable == {None, Torn}
ParsedDoc == [from : {Pdf}, sum : {Pdf} \cup Unreadable, config : Config, variant : Variant]
ChunkDoc == [from : ParsedDoc, sum : ParsedDoc \cup Unreadable, config : Config,
             variant : Variant]
ExtractionDoc == [from : ChunkDoc, sum : ChunkDoc \cup Unreadable, config : Config,
                  variant : Variant]
Doc == {Pdf} \cup ParsedDoc \cup ChunkDoc \cup ExtractionDoc

\* An edge: the extraction its chunks and confidence come from, and its stamp, the
\* generation fingerprint, which hashes a checksum and the canonicalization settings.
Edge == [from : ExtractionDoc, sum : ExtractionDoc \cup Unreadable, config : Config]

ASSUME DocAssumption ==
    /\ \A x \in Unreadable : x # Pdf /\ x \notin ParsedDoc /\ x \notin ChunkDoc
                            /\ x \notin ExtractionDoc
    /\ None \notin Operation \cup Edge

DocOf == [PDF |-> {Pdf}, PARSE |-> ParsedDoc, CHUNK |-> ChunkDoc,
          EXTRACT_GRAPH |-> ExtractionDoc]

File == [data : Doc \cup Unreadable, writers : SUBSET Request, docs : SUBSET Doc]
HoldsOwn(f, s) == f.data \in DocOf[s] \cup Unreadable /\ f.docs \subseteq DocOf[s]

PC == {"idle", "read", "hash", "reconcile", "open", "close", "replace", "compare", "upsert",
       "delete", "commit"}
RequestState ==
    [pc : PC, stage : Operation \cup {None}, content : Doc \cup Unreadable,
     sum : Doc \cup Unreadable, doc : Doc \cup Unreadable,
     todo : SUBSET Relationship, lone : BOOLEAN]

\* What a request has read and made belongs to its stage.
Working(q) ==
    /\ q.pc # "idle" => q.stage \in Operation
    /\ q.pc \in {"reconcile", "open", "close", "replace"} => q.stage \in Stage
    /\ q.pc \in {"compare", "upsert", "delete"} => q.stage = "GRAPH_INDEX"
    /\ q.pc \notin {"idle", "read"} => q.content \in DocOf[SourceOf[q.stage]]
    /\ q.pc \notin {"idle", "read", "hash"} => q.sum \in DocOf[SourceOf[q.stage]] \cup Unreadable
    /\ q.pc \in {"open", "close", "replace"} => q.doc \in DocOf[q.stage]

-----------------------------------------------------------------------------
(* Reading. *)

Init ==
    /\ final = [s \in Stage |-> NoFile]
    /\ part = [s \in Stage |-> NoFile]
    /\ config \in Settings
    /\ published = [e \in Relationship |-> None]
    /\ req = [r \in Request |-> Idle]
    /\ sequential \in BOOLEAN
    /\ disturbances = 0

\* A request arrives; the others that are running have company from now on.
Start(r, s) ==
    /\ ~Active(r)
    /\ disturbances' = disturbances + IF Alone THEN 0 ELSE 1
    /\ Alone \/ (~sequential /\ disturbances < MaxDisturbances)
    /\ req' = [q \in Request |->
                 IF q = r THEN [Idle EXCEPT !.pc = "read", !.stage = s,
                                            !.lone = Alone]
                          ELSE [req[q] EXCEPT !.lone = FALSE]]
    /\ UNCHANGED <<final, part, config, published, sequential>>

\* Mutant: what try_read returned is not looked at.
ReadSourceUnchecked(r) ==
    /\ req[r].pc = "read"
    /\ req' = [req EXCEPT ![r].pc = "hash", ![r].content = Content(SourceOf[req[r].stage])]
    /\ UNCHANGED <<final, part, config, published, sequential, disturbances>>

\* _validate_ready_for_*: the source is read and parsed ...
ReadSource(r) ==
    /\ req[r].pc = "read"
    /\ LET c == Content(SourceOf[req[r].stage]) IN
         req' = [req EXCEPT ![r] = IF Whole(c) THEN [@ EXCEPT !.pc = "hash", !.content = c]
                                               ELSE Idle]
    /\ UNCHANGED <<final, part, config, published, sequential, disturbances>>

\* Mutant: the checksum recorded is the PDF's instead of the source artifact's.
HashThePdf(r) ==
    /\ req[r].pc = "hash"
    /\ req' = [req EXCEPT ![r].sum = Pdf, ![r].pc = "reconcile"]
    /\ UNCHANGED <<final, part, config, published, sequential, disturbances>>

\* ... and then opened again by name for its checksum: what is hashed need not
\* be what was read.
HashSource(r) ==
    /\ req[r].pc = "hash"
    /\ req' = [req EXCEPT ![r].sum = Content(SourceOf[req[r].stage]),
                          ![r].pc = IF req[r].stage = "GRAPH_INDEX" THEN "compare"
                                                                     ELSE "reconcile"]
    /\ UNCHANGED <<final, part, config, published, sequential, disturbances>>

-----------------------------------------------------------------------------
(* Deciding. *)

\* _staleness_reason, or the extraction fingerprint, which hashes both.
Stale(r, x) ==
    \/ x.sum # req[r].sum
    \/ x.config # config[req[r].stage]

\* A valid current artifact is reused, any other is made again from the content
\* read before, with one of the given answers.
Decide(r, answers) ==
    /\ req[r].pc = "reconcile"
    /\ LET s == req[r].stage
           x == Content(s)
       IN  IF Whole(x) /\ ~Stale(r, x)
           THEN Goto(r, "commit")
           ELSE \E v \in answers :
                  req' = [req EXCEPT ![r].pc = "open",
                                     ![r].doc = Made(req[r].content, req[r].sum, config[s], v)]
    /\ UNCHANGED <<final, part, config, published, sequential, disturbances>>

\* Parser and chunker are functions of their input, the model is not.
OnlyAnswer == {CHOOSE v \in Variant : TRUE}

ReconcileExistingParse(r) == req[r].stage = "PARSE" /\ Decide(r, OnlyAnswer)
ReconcileExistingChunks(r) == req[r].stage = "CHUNK" /\ Decide(r, OnlyAnswer)
ReconcileExistingExtraction(r) == req[r].stage = "EXTRACT_GRAPH" /\ Decide(r, Variant)

-----------------------------------------------------------------------------
(* Writing: storage.write. *)

\* Mutant: write_text on the final path itself.
WriteInPlace(r) ==
    /\ req[r].pc = "open"
    /\ final' = [final EXCEPT ![req[r].stage] =
                   [data |-> Torn, writers |-> {r}, docs |-> {req[r].doc}]]
    /\ Goto(r, "close")
    /\ UNCHANGED <<part, config, published, sequential, disturbances>>

\* write_text opens the shared name and truncates it.
OpenPart(r) ==
    /\ req[r].pc = "open"
    /\ LET s == req[r].stage
           others == part[s].writers
       IN  part' = [part EXCEPT ![s] =
                      [data |-> Torn, writers |-> others \cup {r},
                       docs |-> IF others = {} THEN {req[r].doc}
                                               ELSE part[s].docs \cup {req[r].doc}]]
    /\ Goto(r, "close")
    /\ UNCHANGED <<final, config, published, sequential, disturbances>>

\* What a file holds when r has written its document and closed it: that
\* document, unless another handle wrote or still writes other bytes over it.
Settled(r, f) ==
    {req[r].doc} \cup (IF f.writers = {r} /\ f.docs = {req[r].doc} THEN {} ELSE {Torn})

\* A file without some of its handles; without any, only its content matters.
Released(f, gone) ==
    [data |-> f.data, writers |-> f.writers \ gone,
     docs |-> IF f.writers \subseteq gone THEN {} ELSE f.docs]

Written(r, f) == {[Released(f, {r}) EXCEPT !.data = d] : d \in Settled(r, f)}

\* The handle follows the file: a concurrent rename may have moved it to the
\* final path, and a second one may have replaced it there.
ClosePart(r) ==
    /\ req[r].pc = "close"
    /\ LET s == req[r].stage
       IN  \/ /\ r \in part[s].writers
              /\ \E f \in Written(r, part[s]) : part' = [part EXCEPT ![s] = f]
              /\ UNCHANGED final
           \/ /\ r \in final[s].writers
              /\ \E f \in Written(r, final[s]) : final' = [final EXCEPT ![s] = f]
              /\ UNCHANGED part
           \/ /\ r \notin part[s].writers \cup final[s].writers
              /\ UNCHANGED <<part, final>>
    /\ Goto(r, "replace")
    /\ UNCHANGED <<config, published, sequential, disturbances>>

\* Path.replace: whatever has the .part name gets the final name; no such file
\* is an error like any other.
Replace(r) ==
    /\ req[r].pc = "replace"
    /\ LET s == req[r].stage IN
         IF part[s].data = None
         THEN req' = [req EXCEPT ![r] = Idle] /\ UNCHANGED <<final, part>>
         ELSE /\ final' = [final EXCEPT ![s] = part[s]]
              /\ part' = [part EXCEPT ![s] = NoFile]
              /\ Goto(r, "commit")
    /\ UNCHANGED <<config, published, sequential, disturbances>>

-----------------------------------------------------------------------------
(* Publishing: the graph index. *)

\* The ids of the extraction that was read, under the settings in force.
Expected(r) == Ids[config["GRAPH_INDEX"]][req[r].content.variant]

EdgeOf(r) == [from |-> req[r].content, sum |-> req[r].sum, config |-> config["GRAPH_INDEX"]]

\* get_relationship_ids_for_generation.
Stamped(sum, c) ==
    {e \in Relationship : published[e] # None /\ published[e].sum = sum /\ published[e].config = c}

Found(r) == Stamped(req[r].sum, config["GRAPH_INDEX"])

\* Mutant: whatever has the current stamp will do.
CompareByPresence(r) ==
    /\ req[r].pc = "compare"
    /\ IF Found(r) # {}
       THEN Goto(r, "commit")
       ELSE req' = [req EXCEPT ![r].pc = "upsert", ![r].todo = Expected(r)]
    /\ UNCHANGED <<final, part, config, published, sequential, disturbances>>

\* _reconcile_existing_index: the ids under the current fingerprint decide, and are
\* reused with whatever they were made from.  Without an edge of the version its
\* paper node may be missing, which forces the other branch.
ReconcileExistingIndex(r) ==
    /\ req[r].pc = "compare"
    /\ \/ /\ Found(r) = Expected(r)
          /\ Goto(r, "commit")
       \/ /\ Found(r) # Expected(r) \/ \A e \in Relationship : published[e] = None
          /\ req' = [req EXCEPT ![r].pc = "upsert", ![r].todo = Expected(r)]
    /\ UNCHANGED <<final, part, config, published, sequential, disturbances>>

\* upsert_relationships, a batch for each type: the extraction is checked against
\* itself only; that its chunks are still the current ones is not asked.
UpsertEdge(r) ==
    /\ req[r].pc = "upsert"
    /\ \E e \in req[r].todo :
         /\ published' = [published EXCEPT ![e] = EdgeOf(r)]
         /\ req' = [req EXCEPT ![r].todo = req[r].todo \ {e}]
    /\ UNCHANGED <<final, part, config, sequential, disturbances>>

\* The verification; ids that should not be there fail it like missing ones.
VerifyIndex(r) ==
    /\ req[r].pc = "upsert" /\ req[r].todo = {}
    /\ req' = [req EXCEPT ![r] = IF Found(r) = Expected(r) THEN [@ EXCEPT !.pc = "delete"]
                                                         ELSE Idle]
    /\ UNCHANGED <<final, part, config, published, sequential, disturbances>>

\* delete_generation.
DeleteGeneration(r) ==
    /\ req[r].pc = "delete"
    /\ published' = [e \in Relationship |-> IF e \in Found(r) THEN published[e] ELSE None]
    /\ Goto(r, "commit")
    /\ UNCHANGED <<final, part, config, sequential, disturbances>>

-----------------------------------------------------------------------------
(* Ending. *)

\* The session commits and the endpoint answers.
Answer(r) ==
    /\ req[r].pc = "commit"
    /\ req' = [req EXCEPT ![r] = Idle]
    /\ UNCHANGED <<final, part, config, published, sequential, disturbances>>

\* Any call may raise: the parser, the chunker, the model, the disk, a store,
\* the database.  Nothing unlinks the .part file.
Raise(r) ==
    /\ Active(r)
    /\ disturbances < MaxDisturbances
    /\ disturbances' = disturbances + 1
    /\ req' = [req EXCEPT ![r] = Idle]
    /\ final' = [s \in Stage |-> Released(final[s], {r})]
    /\ part' = [s \in Stage |-> Released(part[s], {r})]
    /\ UNCHANGED <<config, published, sequential>>

\* The process ends, with every request in it, and starts with the settings of
\* the day: parser version, chunk sizes, model and prompt are read once.
Restart ==
    /\ disturbances < MaxDisturbances
    /\ disturbances' = disturbances + 1
    /\ req' = [r \in Request |-> Idle]
    /\ final' = [s \in Stage |-> Released(final[s], Request)]
    /\ part' = [s \in Stage |-> Released(part[s], Request)]
    /\ config' \in Settings
    /\ UNCHANGED <<published, sequential>>

Step(r) ==
    \/ ReadSource(r) \/ HashSource(r)
    \/ ReconcileExistingParse(r) \/ ReconcileExistingChunks(r) \/ ReconcileExistingExtraction(r)
    \/ OpenPart(r) \/ ClosePart(r) \/ Replace(r)
    \/ ReconcileExistingIndex(r) \/ UpsertEdge(r) \/ VerifyIndex(r) \/ DeleteGeneration(r)
    \/ Answer(r)

Next ==
    \/ \E r \in Request : \/ \E s \in Operation : Start(r, s)
                          \/ Step(r)
                          \/ Raise(r)
    \/ Restart

Spec == Init /\ [][Next]_vars

-----------------------------------------------------------------------------
(* Properties. *)

\* Which document may stand where: no request works on a missing or unreadable
\* source, and no file holds another stage's artifact.
TypeOK ==
    /\ final \in [Stage -> File] /\ part \in [Stage -> File]
    /\ \A s \in Stage : HoldsOwn(final[s], s) /\ HoldsOwn(part[s], s)
    /\ config \in [Operation -> Config]
    /\ sequential \in BOOLEAN
    /\ disturbances \in 0..MaxDisturbances
    /\ published \in [Relationship -> Edge \cup {None}]
    /\ req \in [Request -> RequestState]
    /\ \A r \in Request : Working(req[r])

\* When callers wait for each other, every artifact and every edge in the graph
\* is made from exactly the file whose checksum it carries, through raises,
\* restarts and changes of settings at any call, so the checksums can be trusted
\* for the decision to reuse.
ProvenanceExact ==
    sequential =>
        /\ \A s \in Stage : Whole(Content(s)) => Content(s).from = Content(s).sum
        /\ \A e \in Relationship : published[e] # None => published[e].from = published[e].sum

\* A request that ran alone and is about to answer leaves an artifact that is
\* complete and current by its own record, whatever overlapping requests,
\* crashes and leftover .part files there were before it; the graph index leaves
\* exactly the relationships of the current extraction under the current stamp,
\* whoever stamped them.
LoneAnswerIsCurrent ==
    \A r \in Request :
        req[r].pc = "commit" /\ req[r].lone =>
            LET s == req[r].stage
                given == Content(SourceOf[s])
            IN  IF s = "GRAPH_INDEX"
                THEN Stamped(given, config[s]) = Ids[config[s]][given.variant]
                ELSE /\ Whole(Content(s))
                     /\ Content(s).sum = given
                     /\ Content(s).config = config[s]

\* Not so: the edges a lone graph index leaves come from the current extraction. Edges
\* that an overlapping request made from another one under this stamp are reused.
EdgesAreOfExtraction ==
    \A r \in Request :
        req[r].pc = "commit" /\ req[r].lone /\ req[r].stage = "GRAPH_INDEX" =>
            \A e \in Found(r) : published[e].from = Content("EXTRACT_GRAPH")

\* Not so: the verification of a lone graph index succeeds. Edges under its stamp that
\* are not of the extraction fail it, and repeating the request does not remove them.
LoneIndexVerifies ==
    [][\A r \in Request : req[r].lone /\ VerifyIndex(r) => req'[r].pc = "delete"]_vars

-----------------------------------------------------------------------------
(* The promise of the artifacts. *)

Promise == INSTANCE ArtifactLineage
             WITH have <- [s \in Stage |-> Content(s)], config <- [s \in Stage |-> config[s]],
                  sequential <- sequential

\* One step changes one artifact at most; callers that wait for each other only
\* ever see one replaced that was missing or stale, by one made from the source
\* and under the settings of that moment, and never a half-written one.
ImplementsLineage == Promise!Lineage
=============================================================================
