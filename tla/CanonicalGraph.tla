---------------------------- MODULE CanonicalGraph ----------------------------
(***************************************************************************)
(* From what the LLM proposes to what the graph store is given: the        *)
(* ontology's validation of candidates, their deduplication within a       *)
(* paper, and CanonicalEntityResolver's resolution of entities, which      *)
(* merges the relationships that collide.                                  *)
(*                                                                         *)
(* A name is a surface form; Key folds it as normalize_identity_key does.  *)
(* An id is what it is hashed from, except a paper's own.  Warnings,       *)
(* evidence quotes and aliases decide nothing below and are left out.      *)
(***************************************************************************)
EXTENDS SequencesExt, Ordering

CONSTANTS Key,      \* [surface form -> identity key]
          Blank,    \* the key of a name without text
          Aliases,  \* [<<type, key>> -> surface form]: the reviewed registry
          One,      \* confidence 1.0
          None

ASSUME OneAssumption == One \in Nat

EntityType == {"paper", "author", "method", "dataset", "task"}

\* RELATIONSHIP_COMPATIBILITY
Compatible == [authored_by  |-> <<"paper", "author">>,
               cites        |-> <<"paper", "paper">>,
               uses_method  |-> <<"paper", "method">>,
               evaluated_on |-> <<"paper", "dataset">>,
               addresses    |-> <<"paper", "task">>]

UsageSensitive == {"uses_method", "evaluated_on"}

PaperId(paper) == [type |-> "paper", of |-> "arxiv_id", name |-> paper]
EntityId(type, name) == [type |-> type, of |-> "name", name |-> Key[name]]

-----------------------------------------------------------------------------
(* graph_extraction: candidates *)

InRange(confidence) == confidence \in 0..One

ValidEntity(raw) == raw.type \in EntityType /\ Key[raw.name] # Blank /\ InRange(raw.confidence)

\* Mutant: the reported usage is not looked at.
ValidWhateverUsage(raw) ==
    /\ raw.type \in DOMAIN Compatible
    /\ <<raw.source, raw.target>> = Compatible[raw.type]
    /\ Key[raw.name] # Blank /\ InRange(raw.confidence)

\* A method or a dataset that is merely mentioned is not used.
ValidRelationship(raw) ==
    /\ raw.type \in DOMAIN Compatible
    /\ <<raw.source, raw.target>> = Compatible[raw.type]
    /\ Key[raw.name] # Blank /\ InRange(raw.confidence)
    /\ raw.type \in UsageSensitive => raw.usage = "used_by_this_paper"

\* Insertion-ordered grouping: the elements of each key, in the order the keys come up.
GroupBy(list, keys) ==
    LET first == Once(keys)
    IN  [g \in DOMAIN first |-> At(list, {i \in DOMAIN list : keys[i] = first[g]})]

\* The first surface form of each entity; a name in a relationship alone makes one too.
DedupeEntities(entities) ==
    LET groups == GroupBy(entities, [i \in DOMAIN entities |-> entities[i].id])
    IN  [g \in DOMAIN groups |-> Head(groups[g])]

\* Those that are not known by their id.
Unknown(entities, known) ==
    Picked(entities, {e \in Range(entities) : \A k \in Range(known) : k.id # e.id})

Entity(type, name) == [id |-> EntityId(type, name), name |-> name, placeholder |-> FALSE]

EntitiesOf(candidates) ==
    DedupeEntities([i \in DOMAIN candidates |-> Entity(candidates[i].type, candidates[i].name)])

ImplicitEntities(entities, candidates) ==
    LET targets == [i \in DOMAIN candidates |-> Entity(candidates[i].target, candidates[i].name)]
    IN  Unknown(DedupeEntities(targets), entities)

Endpoints(r) == <<r.source, r.type, r.target>>

MaxConfidence(group) == Max({r.confidence : r \in Range(group)})

\* Chunk ids are hashes: which of them sorts first is arbitrary.
RelationshipsOf(paper, candidates) ==
    LET Target(c) == EntityId(c.target, c.name)
        groups == GroupBy(candidates, [i \in DOMAIN candidates |->
                                          <<candidates[i].type, Target(candidates[i])>>])
        Chunks(group) == {c.chunk : c \in Range(group)}
        Merge(group) == [source |-> PaperId(paper), type |-> Head(group).type,
                         target |-> Target(Head(group)),
                         chunk |-> CHOOSE c \in Chunks(group) : TRUE,
                         supporting |-> Chunks(group),
                         confidence |-> MaxConfidence(group)]
    IN  [i \in DOMAIN groups |-> Merge(groups[i])]

\* Facts that rest on metadata, or on an arXiv id in the references.
Fact(source, type, target, chunk) ==
    [source |-> source, type |-> type, target |-> target, chunk |-> chunk,
     supporting |-> {}, confidence |-> One]

-----------------------------------------------------------------------------
(* canonical_resolution *)

\* One lookup: an alias of an alias is not followed.
ResolveEntity(e) ==
    LET alias == <<e.id.type, e.id.name>>
    IN  IF e.id.type # "paper" /\ alias \in DOMAIN Aliases
        THEN Entity(e.id.type, Aliases[alias]) ELSE e

CanonicalEntities(entities) == DedupeEntities([i \in DOMAIN entities |-> ResolveEntity(entities[i])])

\* Mutant: the provenance of the first relationship of a group, and no other.
FirstOf(group) ==
    [Head(group) EXCEPT !.supporting = @ \cup ({Head(group).chunk} \ {None})]

\* _remap_and_dedupe_relationships, for one group of relationships that collide.
Merged(group) ==
    LET first == Picked(group, {r \in Range(group) : r.chunk # None})
    IN  [Head(group) EXCEPT
            !.chunk = IF first = <<>> THEN None ELSE Head(first).chunk,
            !.supporting = UNION {r.supporting \cup ({r.chunk} \ {None}) : r \in Range(group)},
            !.confidence = MaxConfidence(group)]

CanonicalRelationships(entities, relationships) ==
    LET ids == {e.id : e \in Range(entities)}
        remap == [id \in ids |-> ResolveEntity(CHOOSE e \in Range(entities) : e.id = id).id]
        Remap(id) == IF id \in ids THEN remap[id] ELSE id
        Remapped(r) == [r EXCEPT !.source = Remap(@), !.target = Remap(@)]
        groups == GroupBy(relationships, [i \in DOMAIN relationships |->
                                             Endpoints(Remapped(relationships[i]))])
    IN  [i \in DOMAIN groups |-> Remapped(Merged(groups[i]))]
=============================================================================
