--------------------------- MODULE IndexGenerations ---------------------------
(***************************************************************************)
(* VectorIndexingService and GraphIndexingService against the store they   *)
(* write: Qdrant holds points, Neo4j holds edges, and both services follow *)
(* one protocol.  Every entry is stamped with the paper version it was     *)
(* written for and with the fingerprint of the generation, that is, of the *)
(* artifact it was derived from.  An index request compares the entries of *)
(* the current generation with those it expects, reuses them if they are   *)
(* all there, and otherwise upserts the new generation, verifies it, and   *)
(* only then deletes the entries of other generations.                     *)
(*                                                                         *)
(* A key is what an upsert merges on.  A point's key (chunk_id) is hashed  *)
(* from the paper version; an edge's key (relationship_id) is hashed from  *)
(* the two entities and the type alone, so two versions of one paper share *)
(* edges.  A fingerprint is the generation itself.                         *)
(*                                                                         *)
(* The job protocol is in JobControlPlane; here a request may get to every *)
(* store call at any time.  Entity nodes are left out: nothing ever deletes*)
(* one.  Each mutant stands before the definition it is a broken form of;  *)
(* none is used by the specification.                                      *)
(***************************************************************************)
EXTENDS Naturals, FiniteSets

CONSTANTS Request,        \* the request threads
          Version,        \* paper versions
          Generation,     \* contents an upstream artifact can have
          Key,            \* point ids, or relationship ids
          Keys,           \* [Version -> [Generation -> the keys derived]]
          ByCount,        \* Qdrant is asked for a count, Neo4j for the ids
          MaxCompany,     \* bound on the requests that begin while others are at work
          None

\* An artifact without chunks is refused before indexing.
ASSUME KeysAssumption ==
    /\ IsFiniteSet(Key)
    /\ Keys \in [Version -> [Generation -> (SUBSET Key) \ {{}}]]
ASSUME SwitchAssumption == ByCount \in BOOLEAN
ASSUME BoundAssumption == MaxCompany \in Nat
ASSUME NoneAssumption == None \notin Version \cup Generation \cup [version : Version, gen : Generation]

VARIABLES
    entry,     \* [Key -> the stamp of the point or edge stored there, or None]
    artifact,  \* [Version -> the content of chunks.json / graph_extraction.json]
    indexed,   \* the versions with a fingerprint recorded in paper_versions
    req,       \* [Request -> local state of the request's thread]
    clean,     \* history: the versions at which no two requests have overlapped
               \* since a request that ran alone succeeded
    company    \* requests so far that began while another was at work on the version

vars == <<entry, artifact, indexed, req, clean, company>>

Stamp == [version : Version, gen : Generation]

\* pc names the next step: fingerprint, check, upsert (and verify), delete,
\* then reuse or finish, which record the result.
PC == {"idle", "fingerprint", "check", "upsert", "delete", "reuse", "finish"}

Idle == [pc |-> "idle", version |-> None, doc |-> None, gen |-> None, todo |-> {},
         lone |-> FALSE]

Init ==
    /\ entry = [k \in Key |-> None]
    /\ artifact \in [Version -> Generation]
    /\ indexed = {}
    /\ req = [r \in Request |-> Idle]
    /\ clean = Version
    /\ company = 0

-----------------------------------------------------------------------------
Goto(r, pc) == req' = [req EXCEPT ![r].pc = pc]

StampOf(r) == [version |-> req[r].version, gen |-> req[r].gen]

\* The ids of the chunks, or of the relationships, in the artifact that was read.
Expected(r) == Keys[req[r].version][req[r].doc]

\* The current-generation entries of the version.
Found(r) == {k \in Key : entry[k] = StampOf(r)}

Owned(v) == {k \in Key : entry[k] # None /\ entry[k].version = v}

\* Qdrant: the exact count.  Neo4j: the exact set of ids.
Complete(r) ==
    \/ ByCount /\ Cardinality(Found(r)) = Cardinality(Expected(r))
    \/ ~ByCount /\ Found(r) = Expected(r)

\* An upstream stage replaced the artifact, whatever index requests are doing.
Replace(v) ==
    /\ \E g \in Generation \ {artifact[v]} : artifact' = [artifact EXCEPT ![v] = g]
    /\ UNCHANGED <<entry, indexed, req, clean, company>>

\* The requests at work on a version.
At(v) == {r \in Request : req[r].version = v}

\* _validate_ready_for_indexing: try_read.  Nothing keeps two requests apart: the job's
\* row is locked late, or never.  Those at work on the version have company from now on.
Begin(r) ==
    /\ req[r].pc = "idle"
    /\ \E v \in Version :
        /\ req' = [s \in Request |->
                     IF s = r THEN [Idle EXCEPT !.pc = "fingerprint", !.version = v,
                                                !.doc = artifact[v], !.lone = At(v) = {}]
                     ELSE IF s \in At(v) THEN [req[s] EXCEPT !.lone = FALSE] ELSE req[s]]
        /\ IF At(v) = {}
           THEN UNCHANGED <<clean, company>>
           ELSE /\ company < MaxCompany
                /\ company' = company + 1
                /\ clean' = clean \ {v}
    /\ UNCHANGED <<entry, artifact, indexed>>

\* The artifact's checksum is taken from the file in a second read.
Fingerprint(r) ==
    /\ req[r].pc = "fingerprint"
    /\ req' = [req EXCEPT ![r] = [@ EXCEPT !.pc = "check", !.gen = artifact[req[r].version]]]
    /\ UNCHANGED <<entry, artifact, indexed, clean, company>>

\* _reconcile_existing_index: the store decides, never the row.
Check(r) ==
    /\ req[r].pc = "check"
    /\ \/ Complete(r) /\ Goto(r, "reuse")
       \/ ~Complete(r)
          /\ req' = [req EXCEPT ![r] = [@ EXCEPT !.pc = "upsert", !.todo = Expected(r)]]
    /\ UNCHANGED <<entry, artifact, indexed, clean, company>>

\* Mutant: the payload lacks the paper version.
UpsertUnstamped(r) ==
    /\ req[r].pc = "upsert"
    /\ \E k \in req[r].todo :
        /\ entry' = [entry EXCEPT ![k] = [version |-> None, gen |-> req[r].gen]]
        /\ req' = [req EXCEPT ![r].todo = req[r].todo \ {k}]
    /\ UNCHANGED <<artifact, indexed, clean, company>>

\* upsert_chunks, upsert_relationships: an entry merges on its key and takes this
\* request's stamp.  A failure leaves the entries written so far.
Upsert(r) ==
    /\ req[r].pc = "upsert"
    /\ \E k \in req[r].todo :
        /\ entry' = [entry EXCEPT ![k] = StampOf(r)]
        /\ req' = [req EXCEPT ![r].todo = req[r].todo \ {k}]
    /\ UNCHANGED <<artifact, indexed, clean, company>>

\* Mutant: the result of the count is not compared.
VerifyUnchecked(r) ==
    /\ req[r].pc = "upsert" /\ req[r].todo = {}
    /\ Goto(r, "delete")
    /\ UNCHANGED <<entry, artifact, indexed, clean, company>>

\* The verification after the upsert; if it fails the request raises.
Verify(r) ==
    /\ req[r].pc = "upsert" /\ req[r].todo = {}
    /\ Complete(r)
    /\ Goto(r, "delete")
    /\ UNCHANGED <<entry, artifact, indexed, clean, company>>

\* Mutant: delete-then-keep, the generation is not excluded.
StaleIsEveryGeneration(r, k) == entry[k] # None /\ entry[k].version = req[r].version

\* Mutant: the delete is not scoped to the paper version.
StaleInAnyVersion(r, k) == entry[k] # None /\ entry[k].gen # req[r].gen

\* An entry of this paper version and of another generation.
Stale(r, k) ==
    entry[k] # None /\ entry[k].version = req[r].version /\ entry[k].gen # req[r].gen

\* delete_paper_version, delete_generation.
Delete(r) ==
    /\ req[r].pc = "delete"
    /\ entry' = [k \in Key |-> IF Stale(r, k) THEN None ELSE entry[k]]
    /\ Goto(r, "finish")
    /\ UNCHANGED <<artifact, indexed, clean, company>>

\* update_version_*_result, the last transition and the commit.
Commit(r) ==
    /\ req[r].pc \in {"reuse", "finish"}
    /\ indexed' = indexed \cup {req[r].version}
    /\ clean' = IF req[r].lone THEN clean \cup {req[r].version} ELSE clean
    /\ req' = [req EXCEPT ![r] = Idle]
    /\ UNCHANGED <<entry, artifact, company>>

\* A call to the store or to the database failed, a transition was rejected, the
\* verification failed, or the process died: PostgreSQL rolls back, the store
\* keeps what it has.
Abort(r) ==
    /\ req[r].pc # "idle"
    /\ req' = [req EXCEPT ![r] = Idle]
    /\ UNCHANGED <<entry, artifact, indexed, clean, company>>

Step(r) ==
    \/ Begin(r) \/ Fingerprint(r) \/ Check(r) \/ Upsert(r) \/ Verify(r) \/ Delete(r)
    \/ Commit(r) \/ Abort(r)

Next == (\E r \in Request : Step(r)) \/ (\E v \in Version : Replace(v))

Spec == Init /\ [][Next]_vars

-----------------------------------------------------------------------------
LocalState ==
    [pc : PC, version : Version \cup {None}, doc : Generation \cup {None},
     gen : Generation \cup {None}, todo : SUBSET Key, lone : BOOLEAN]

\* Every entry carries a full stamp, and a request is in a legal state.
TypeOK ==
    /\ entry \in [Key -> Stamp \cup {None}]
    /\ artifact \in [Version -> Generation]
    /\ indexed \subseteq Version
    /\ req \in [Request -> LocalState]
    /\ clean \subseteq Version
    /\ company \in 0..MaxCompany

\* ARCHITECTURE.md, stale-generation deletion policy: once a version is indexed its
\* entries are never briefly zero, also when a reindex fails partway.  Overlapping
\* requests of one version can delete each other's entries; from the next success
\* of a request that ran alone the promise holds again.
NeverEmptied == \A v \in indexed \cap clean : Owned(v) # {}

\* A request that had no company at its version and wrote the index reports success
\* only over exactly the entries of the artifact it read: none missing, none left of
\* any other generation, whatever overlapping or failed requests left there before
\* and whatever the artifact became meanwhile.
WorkIsExact ==
    [][\A r \in Request :
         req[r].lone /\ req[r].pc = "finish" /\ Commit(r)
           => Owned(req[r].version) = Expected(r) /\ Found(r) = Expected(r)]_vars

\* The entries of a paper version change only through a request for that version:
\* "re-parsing a new revision must not silently overwrite or blend content from a
\* prior one" (ARCHITECTURE.md).
OtherVersionsKept ==
    [][\A k \in Key :
         entry[k] # None /\ entry'[k] # entry[k]
           => \E r \in Request : req[r].version = entry[k].version]_vars

\* Whoever reports success leaves one generation: "after a new generation is
\* verified complete, old relationships for that paper version are deleted"
\* (ARCHITECTURE.md).
SuccessLeavesOneGeneration ==
    [][\A r \in Request :
         Commit(r) => \A k \in Owned(req[r].version) : entry[k].gen = req[r].gen]_vars
==============================================================================
