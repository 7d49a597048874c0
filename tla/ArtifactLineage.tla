--------------------------- MODULE ArtifactLineage ---------------------------
(***************************************************************************)
(* What the artifact files of one paper version promise, whatever the       *)
(* services do to keep the promise: parsed.json is made from the PDF,       *)
(* chunks.json from parsed.json, graph_extraction.json from chunks.json,    *)
(* each remembers what it was made from and under which configuration, and  *)
(* an artifact that is still current is left alone.                         *)
(***************************************************************************)
EXTENDS Naturals

CONSTANTS Config,    \* the configurations a stage can run under
          Variant,   \* the outcomes one stage can have for one source
          Pdf,       \* the PDF: acquired elsewhere, it does not change here
          None,      \* no artifact
          Torn       \* a file that no reader accepts

VARIABLES have,      \* [Stage -> the artifact at the final path]
          config,    \* [Stage -> the configuration in force]
          sequential \* callers wait for each other

lineageVars == <<have, config, sequential>>

Stage == {"PARSE", "CHUNK", "EXTRACT_GRAPH"}

SourceOf == [PARSE |-> "PDF", CHUNK |-> "PARSE", EXTRACT_GRAPH |-> "CHUNK"]

\* The artifact a stage makes: what it worked on, whose checksum it recorded,
\* the configuration, and what a language model may answer differently.
Made(from, sum, c, v) == [from |-> from, sum |-> sum, config |-> c, variant |-> v]

Whole(x) == x \notin {None, Torn}

\* The source of a stage.
Given(s) == IF SourceOf[s] = "PDF" THEN Pdf ELSE have[SourceOf[s]]

\* By its own record, s is up to date.
UpToDate(s) == Whole(have[s]) /\ have[s].sum = Given(s) /\ have[s].config = config[s]

LineageInit ==
    /\ have = [s \in Stage |-> None]
    /\ config \in [Stage -> Config]
    /\ sequential \in BOOLEAN

Rebuild(s) ==
    /\ ~UpToDate(s)
    /\ Whole(Given(s))
    /\ \E v \in Variant : have' = [have EXCEPT ![s] = Made(Given(s), Given(s), config[s], v)]
    /\ UNCHANGED <<config, sequential>>

Reconfigure ==
    /\ config' \in [Stage -> Config]
    /\ UNCHANGED <<have, sequential>>

\* Callers that do not wait for each other may leave anything at one path.
Disturb(s) ==
    /\ ~sequential
    /\ \A t \in Stage \ {s} : have'[t] = have[t]
    /\ DOMAIN have' = Stage
    /\ UNCHANGED <<config, sequential>>

LineageNext == Reconfigure \/ \E s \in Stage : Rebuild(s) \/ Disturb(s)

Lineage == LineageInit /\ [][LineageNext]_lineageVars
=============================================================================
