------------------------- MODULE RetrievalWorkflow -------------------------
(***************************************************************************)
(* The question-answering workflow: the LangGraph of                       *)
(* src/app/retrieval/workflow.py, with the planner, the evidence critic,   *)
(* the refinement planner, the citation validator and the grounding gate   *)
(* its nodes call.  One question runs through the graph; `node` is the     *)
(* node that runs next and every other variable is a key of the state      *)
(* dictionary the nodes hand on.                                           *)
(*                                                                         *)
(* What is left to chance is what the language model, the vector store and *)
(* the graph store answer, and whether a call to them raises.  Each mutant *)
(* stands before the definition it is a broken form of; none is used by    *)
(* the specification.                                                      *)
(***************************************************************************)
EXTENDS Naturals, FiniteSets

CONSTANTS
    Item,       \* evidence the two stores can return, by evidence_id
    Text,       \* the items that are text; the others are graph evidence
    MaxRounds,  \* MAX_RETRIEVAL_ROUNDS
    Room,       \* the budgets whose default is below their maximum
    None        \* a key the state dictionary does not hold

ASSUME WorkflowAssumption ==
    /\ Text \subseteq Item
    /\ MaxRounds \in Nat \ {0}
    /\ Room \subseteq {"vector", "graph"}

VARIABLES
    answering,   \* the workflow was built with answer generation
    node,        \* the node to run, "done", or "raised" (invoke() raised)
    status,      \* RetrievalWorkflowStatus, None until a node sets it
    errors,      \* the list of errors is not empty
    intent,      \* the analysis of the question
    resolution,  \* what became of the entities the question names
    strategy,    \* the strategy of the retrieval plan
    evidence,    \* evidence collected so far
    found,       \* refinement_evidence: what the last refinement returned
    pool,        \* the evidence pool, built from the evidence
    assessment,  \* the critic's last assessment and the evidence it is of;
                 \* before the first, one that finds nothing sufficient
    refinement,  \* the last refinement the planner built
    round,       \* retrieval_round
    context,     \* the pool items shown to the generator, empty if none was built
    markers,     \* the evidence labels the generated answer cites
    cited,       \* the citations that passed validation
    final,       \* FinalAnswerStatus
    calls        \* history: calls of HybridRetrievalService.retrieve

vars == <<answering, node, status, errors, intent, resolution, strategy,
          evidence, found, pool, assessment, refinement, round, context,
          markers, cited, final, calls>>

planning   == <<intent, resolution, strategy>>
retrieving == <<evidence, found, pool, refinement, round, calls>>
writing    == <<context, markers, cited, final>>

Kind == {"vector", "graph", "hybrid"}

\* strategy_for_intent; no strategy for an unknown intent.  "citation" is the
\* one structural intent whose graph search has a default refinement.
StrategyFor == [semantic |-> "vector", structural |-> "graph",
                citation |-> "graph", mixed |-> "hybrid"]

Intent == {"semantic", "structural", "citation", "mixed", "unknown"}

Structural == {"structural", "citation"}

\* The statuses with which the workflow has given the question up.
GivenUp == {"PLANNING_FAILED", "REQUIRES_DISAMBIGUATION", "ENTITY_NOT_FOUND",
            "UNSUPPORTED_OPERATION", "RETRIEVAL_FAILED", "REFINEMENT_FAILED",
            "CRITIC_FAILED", "INSUFFICIENT_EVIDENCE",
            "ANSWER_GENERATION_FAILED", "CITATION_VALIDATION_FAILED"}

Status == GivenUp \union {"SUCCESS", "EMPTY_EVIDENCE"}

FinalAnswer == {"ANSWERED", "ABSTAINED", "REQUIRES_DISAMBIGUATION"}

\* A key that is not there is no status.
ASSUME NoneIsNoStatus == None \notin Status \union FinalAnswer

Node == {"analyze", "resolve", "plan", "retrieve", "pool", "evaluate",
         "buildRefinement", "refine", "merge", "context", "generate",
         "validate", "finalize", "done", "raised"}

Assessment == [sufficient : BOOLEAN, recommend : Kind \union {"none"},
               of : SUBSET Item]

Refinement == [kind : Kind, round : Nat]

Init ==
    /\ answering \in BOOLEAN
    /\ node = "analyze"
    /\ status = None /\ errors = FALSE
    /\ intent = None /\ resolution = None /\ strategy = None
    /\ evidence = {} /\ found = {} /\ pool = {}
    /\ assessment = [sufficient |-> FALSE, recommend |-> "none", of |-> {}]
    /\ refinement = None
    /\ round = 0 /\ calls = 0
    /\ context = {} /\ markers = {} /\ cited = {} /\ final = None

\* Where a route function sends a question that goes no further.
Finish == IF answering THEN "finalize" ELSE "done"

\* A node that catches an exception, or that rejects the question.
Fail(reason) ==
    /\ status' = reason
    /\ errors' = TRUE
    /\ node' = Finish

----------------------------------------------------------------------------
(* Planning *)

\* invoke() answers a blank question itself, before the graph runs.
RejectBlank ==
    /\ node = "analyze"
    /\ status' = "PLANNING_FAILED"
    /\ errors' = TRUE
    /\ node' = "done"
    /\ UNCHANGED <<answering, planning, assessment, retrieving, writing>>

Analyze ==
    /\ node = "analyze"
    /\ \/ /\ intent' \in Intent
          /\ node' = "resolve"
          /\ UNCHANGED <<status, errors>>
       \/ /\ Fail("PLANNING_FAILED")
          /\ UNCHANGED intent
    /\ UNCHANGED <<answering, resolution, strategy, assessment, retrieving,
                   writing>>

\* A semantic question needs no entity, so none of its entities is missing;
\* an unknown one is not resolved.
Resolutions ==
    {outcome \in {"resolved", "ambiguous", "missing"} :
        /\ intent = "unknown" => outcome = "resolved"
        /\ intent = "semantic" => outcome # "missing"}

\* The node has no exception handler: an error of the graph store leaves
\* invoke().
Resolve ==
    /\ node = "resolve"
    /\ \/ /\ resolution' \in Resolutions
          /\ node' = "plan"
       \/ /\ intent # "unknown"
          /\ node' = "raised"
          /\ UNCHANGED resolution
    /\ UNCHANGED <<answering, status, errors, intent, strategy, assessment,
                   retrieving, writing>>

\* Why RetrievalPlanner.build_plan may return no plan.  Any intent but
\* "unknown" may still come with several graph operations requested, which
\* the planner rejects before it looks at the entities.
Rejection(reason) ==
    \/ reason = "UNSUPPORTED_OPERATION"
    \/ /\ intent # "unknown"
       /\ \/ reason = "REQUIRES_DISAMBIGUATION" /\ resolution = "ambiguous"
          \/ reason = "ENTITY_NOT_FOUND" /\ resolution = "missing"

BuildPlan ==
    /\ node = "plan"
    /\ \/ /\ \E reason \in GivenUp : Rejection(reason) /\ Fail(reason)
          /\ UNCHANGED strategy
       \/ /\ intent # "unknown" /\ resolution = "resolved"
          /\ strategy' = StrategyFor[intent]
          /\ node' = "retrieve"
          /\ UNCHANGED <<status, errors>>
    /\ UNCHANGED <<answering, intent, resolution, assessment, retrieving,
                   writing>>

----------------------------------------------------------------------------
(* Retrieval *)

\* What HybridRetrievalService.retrieve can return.  The graph branch adds
\* text only in support of a graph item, and ranks it below that item.
Results(kind) ==
    {items \in SUBSET Item :
        /\ kind = "vector" => items \subseteq Text
        /\ kind = "graph" /\ items # {} => items \ Text # {}}

Retrieve ==
    /\ node = "retrieve"
    /\ calls' = calls + 1
    /\ \/ /\ evidence' \in Results(strategy)
          /\ round' = 1
          /\ node' = "pool"
          /\ UNCHANGED <<status, errors>>
       \/ /\ Fail("RETRIEVAL_FAILED")
          /\ UNCHANGED <<evidence, round>>
    /\ UNCHANGED <<answering, planning, found, pool, assessment, refinement,
                   writing>>

BuildPool ==
    /\ node = "pool"
    /\ pool' = evidence
    /\ status' =
          IF status \in {"REFINEMENT_FAILED", "RETRIEVAL_FAILED",
                         "CRITIC_FAILED"} THEN status
          ELSE IF evidence # {} THEN "SUCCESS"
          ELSE "EMPTY_EVIDENCE"
    /\ node' = "evaluate"
    /\ UNCHANGED <<answering, errors, planning, evidence, found, assessment,
                   refinement, round, calls, writing>>

----------------------------------------------------------------------------
(* The critic *)

HasText  == evidence \intersect Text # {}
HasGraph == evidence \ Text # {}

\* _default_refinement_for_plan: for a plan that returned nothing.
DefaultRefinement ==
    CASE strategy \in {"vector", "hybrid"} -> "vector"
      [] intent = "citation"               -> "graph"
      [] OTHER                             -> "none"

\* _can_expand_graph for a plan with a graph operation: its limit starts at
\* the default, and a plan that can succeed already has its full depth.
ExpandGraph == IF "graph" \in Room THEN "graph" ELSE "none"

\* Mutant: one more round than configured.
StatusAfterAssessmentLate(sufficient) ==
    CASE sufficient                        -> "SUCCESS"
      [] ~sufficient /\ round > MaxRounds  -> "INSUFFICIENT_EVIDENCE"
      [] ~sufficient /\ round <= MaxRounds -> "EMPTY_EVIDENCE"

\* _status_after_assessment
StatusAfterAssessment(sufficient) ==
    CASE sufficient                         -> "SUCCESS"
      [] ~sufficient /\ round >= MaxRounds  -> "INSUFFICIENT_EVIDENCE"
      [] ~sufficient /\ round < MaxRounds   -> "EMPTY_EVIDENCE"

\* _route_after_evaluation
RouteAfterEvaluation(outcome) ==
    CASE outcome \in {"CRITIC_FAILED", "INSUFFICIENT_EVIDENCE"} -> Finish
      [] outcome = "SUCCESS" -> IF answering THEN "context" ELSE "done"
      [] OTHER -> "buildRefinement"

Judge(sufficient, recommend) ==
    /\ assessment' = [sufficient |-> sufficient, recommend |-> recommend,
                      of |-> evidence]
    /\ status' = StatusAfterAssessment(sufficient)
    /\ node' = RouteAfterEvaluation(status')
    /\ UNCHANGED <<answering, errors, planning, retrieving, writing>>

EvaluateNothing ==
    /\ node = "evaluate"
    /\ evidence = {}
    /\ Judge(FALSE, DefaultRefinement)

EvaluateStructural ==
    /\ node = "evaluate"
    /\ evidence # {}
    /\ intent \in Structural
    /\ Judge(HasGraph, ExpandGraph)

\* Mutant: one component is enough.
MixedGateEither == HasGraph \/ HasText

\* The gate of a mixed question: without both components the model is not
\* asked.
MixedGate == HasGraph /\ HasText

EvaluateMixedGate ==
    /\ node = "evaluate"
    /\ evidence # {}
    /\ intent = "mixed"
    /\ ~MixedGate
    /\ Judge(FALSE, IF HasText THEN ExpandGraph ELSE "vector")

AsksModel ==
    /\ node = "evaluate"
    /\ evidence # {}
    /\ intent \notin Structural
    /\ intent = "mixed" => MixedGate

EvaluateByModel ==
    /\ AsksModel
    /\ \E sufficient \in BOOLEAN, recommend \in Kind \union {"none"} :
          Judge(sufficient, recommend)

\* Mutant: a failed call of the model is made again, for ever.
CriticRetried ==
    /\ AsksModel
    /\ node' = "pool"
    /\ UNCHANGED <<answering, status, errors, planning, retrieving, assessment,
                   writing>>

CriticFails ==
    /\ AsksModel
    /\ Fail("CRITIC_FAILED")
    /\ UNCHANGED <<answering, planning, retrieving, assessment, writing>>

----------------------------------------------------------------------------
(* Refinement *)

\* _vector_expansion, _hybrid_expansion and _graph_depth_expansion
Expandable(kind) ==
    CASE kind = "vector" -> strategy \in {"vector", "hybrid"}
                            /\ "vector" \in Room
      [] kind = "hybrid" -> strategy = "hybrid" /\ Room # {}
      [] kind = "graph"  -> strategy \in {"graph", "hybrid"}
                            /\ "graph" \in Room
      [] OTHER           -> FALSE

\* Mutant: the round is counted twice.
NextRoundTwice(r) == r + 2

NextRound(r) == r + 1

Granted ==
    /\ ~assessment.sufficient
    /\ round < MaxRounds
    /\ Expandable(assessment.recommend)

GrantRefinement ==
    /\ node = "buildRefinement"
    /\ Granted
    /\ refinement' = [kind |-> assessment.recommend,
                      round |-> NextRound(round)]
    /\ node' = "refine"
    /\ UNCHANGED <<answering, status, errors, planning, evidence, found, pool,
                   assessment, round, calls, writing>>

\* The refinement of an earlier round stays in the state, and it is the
\* presence of one, not the outcome of this node, that the route looks at.
RefuseRefinement ==
    /\ node = "buildRefinement"
    /\ ~Granted
    /\ status' = "INSUFFICIENT_EVIDENCE"
    /\ node' = IF refinement # None THEN "refine" ELSE Finish
    /\ UNCHANGED <<answering, errors, planning, retrieving, assessment,
                   writing>>

\* Mutant: a refinement without new evidence goes on like a useful one.
RouteAfterRefinementFutile(outcome) ==
    IF outcome = "REFINEMENT_FAILED" THEN Finish ELSE "merge"

\* _route_after_refinement
RouteAfterRefinement(outcome) ==
    IF outcome \in {"REFINEMENT_FAILED", "INSUFFICIENT_EVIDENCE"} THEN Finish
    ELSE "merge"

\* Mutant: retrieval_round is not moved on.
RefineInPlace ==
    /\ node = "refine"
    /\ calls' = calls + 1
    /\ found' \in Results(refinement.kind)
    /\ status' = IF found' \subseteq evidence
                 THEN "INSUFFICIENT_EVIDENCE" ELSE status
    /\ node' = RouteAfterRefinement(status')
    /\ UNCHANGED <<answering, errors, planning, evidence, pool, assessment,
                   refinement, round, writing>>

Refine ==
    /\ node = "refine"
    /\ calls' = calls + 1
    /\ \/ /\ found' \in Results(refinement.kind)
          /\ round' = refinement.round
          /\ status' = IF found' \subseteq evidence
                       THEN "INSUFFICIENT_EVIDENCE" ELSE status
          /\ UNCHANGED errors
       \/ /\ status' = "REFINEMENT_FAILED"
          /\ errors' = TRUE
          /\ UNCHANGED <<found, round>>
    /\ node' = RouteAfterRefinement(status')
    /\ UNCHANGED <<answering, planning, evidence, pool, assessment,
                   refinement, writing>>

Merge ==
    /\ node = "merge"
    /\ evidence' = evidence \union found
    /\ node' = "pool"
    /\ UNCHANGED <<answering, status, errors, planning, found, pool,
                   assessment, refinement, round, calls, writing>>

----------------------------------------------------------------------------
(* The answer *)

\* _can_generate_answer
CanGenerate ==
    /\ status = "SUCCESS"
    /\ assessment.sufficient
    /\ pool # {}
    /\ ~errors

\* The context builder takes pool items in rank order until one of its two
\* budgets is spent, which leaves some of them and at least one.
Contexts == (SUBSET pool) \ {{}}

PrepareContext ==
    /\ node = "context"
    /\ \/ /\ context' \in IF CanGenerate THEN Contexts ELSE {{}}
          /\ node' = IF context' # {} THEN "generate" ELSE "finalize"
          /\ UNCHANGED <<status, errors>>
       \/ /\ CanGenerate
          /\ Fail("ANSWER_GENERATION_FAILED")
          /\ UNCHANGED context
    /\ UNCHANGED <<answering, planning, retrieving, assessment, markers,
                   cited, final>>

\* What the language model may cite: labels the context shows, labels it left
\* out, labels the pool does not have.
Citable == SUBSET Item

Generate ==
    /\ node = "generate"
    /\ CanGenerate
    /\ \/ /\ markers' \in Citable
          /\ node' = "validate"
          /\ UNCHANGED <<status, errors>>
       \/ /\ Fail("ANSWER_GENERATION_FAILED")
          /\ UNCHANGED markers
    /\ UNCHANGED <<answering, planning, retrieving, assessment, context,
                   cited, final>>

\* Mutant: any label of the pool is trusted.
TrustedByPool == markers \intersect pool

\* The markers CitationValidator.validate turns into citations.
Trusted == markers \intersect context \intersect pool

\* Mutant: an answer that cites nothing is let through.
ValidateUncited ==
    /\ node = "validate"
    /\ cited' = Trusted
    /\ status' = IF cited' = {} /\ markers # {}
                 THEN "CITATION_VALIDATION_FAILED" ELSE status
    /\ node' = "finalize"
    /\ UNCHANGED <<answering, errors, planning, retrieving, assessment, context,
                   markers, final>>

\* The answer without its invalid markers may be blank, which raises.
Validate ==
    /\ node = "validate"
    /\ cited' = Trusted
    /\ \/ /\ cited' # {}
          /\ UNCHANGED <<status, errors>>
       \/ /\ cited' = {}
          /\ status' = "CITATION_VALIDATION_FAILED"
          /\ errors' \in {errors, errors \/ markers # {}}
    /\ node' = "finalize"
    /\ UNCHANGED <<answering, planning, retrieving, assessment, context,
                   markers, final>>

\* _hard_gate_reason
HardGate ==
    \/ status # "SUCCESS"
    \/ ~assessment.sufficient
    \/ evidence = {}
    \/ cited = {}

FinalStatus ==
    CASE status = "REQUIRES_DISAMBIGUATION" -> "REQUIRES_DISAMBIGUATION"
      [] status # "REQUIRES_DISAMBIGUATION" /\ HardGate  -> "ABSTAINED"
      [] status # "REQUIRES_DISAMBIGUATION" /\ ~HardGate -> "ANSWERED"

Finalize ==
    /\ node = "finalize"
    /\ final' = FinalStatus
    /\ node' = "done"
    /\ UNCHANGED <<answering, status, errors, planning, retrieving, assessment,
                   context, markers, cited>>

Plan     == RejectBlank \/ Analyze \/ Resolve \/ BuildPlan
Evaluate == \/ EvaluateNothing \/ EvaluateStructural \/ EvaluateMixedGate
            \/ EvaluateByModel \/ CriticFails
Search   == \/ Retrieve \/ BuildPool \/ Evaluate
            \/ GrantRefinement \/ RefuseRefinement \/ Refine \/ Merge
Answer   == PrepareContext \/ Generate \/ Validate \/ Finalize

Next == Plan \/ Search \/ Answer

\* invoke() runs node after node in the caller's thread; every call a node
\* makes returns or raises within its client's timeout.
Spec == Init /\ [][Next]_vars /\ WF_vars(Next)

----------------------------------------------------------------------------
(* Properties *)

\* Every variable keeps its range; the round counter stays within the limit.
TypeOK ==
    /\ answering \in BOOLEAN
    /\ node \in Node
    /\ status \in Status \union {None}
    /\ errors \in BOOLEAN
    /\ intent \in Intent \union {None}
    /\ resolution \in {"resolved", "ambiguous", "missing", None}
    /\ strategy \in Kind \union {None}
    /\ evidence \in SUBSET Item /\ found \in SUBSET Item
    /\ pool \in SUBSET Item
    /\ assessment \in Assessment
    /\ refinement \in [kind : Kind, round : 1 .. MaxRounds] \union {None}
    /\ round \in 0 .. MaxRounds
    /\ context \in SUBSET Item /\ markers \in SUBSET Item
    /\ cited \in SUBSET Item
    /\ final \in FinalAnswer \union {None}
    /\ calls \in Nat

\* The two stores are searched at most MAX_RETRIEVAL_ROUNDS times for one
\* question, failed searches included (docs/ARCHITECTURE.md, section on the
\* bounded refinement loop).
RetrievalsBounded == calls <= MaxRounds

\* A refinement is executed only in the round it was built for: what
\* execute_refinement runs answers the assessment just made, and is never one
\* left in the state by an earlier round.
RefinementIsFresh ==
    node = "refine" =>
        /\ refinement.round = round + 1
        /\ refinement.kind = assessment.recommend

\* An answer goes out only if the critic found the very evidence it was
\* written from sufficient, and every citation in it is an item the
\* generator was shown, out of the pool of that evidence.
AnsweredIsGrounded ==
    final = "ANSWERED" =>
        /\ assessment.sufficient
        /\ assessment.of = evidence
        /\ pool = evidence
        /\ cited # {}
        /\ cited \subseteq context
        /\ context \subseteq pool

\* Whatever the critic's model said, an answer to a structural or a mixed
\* question rests on graph evidence, and one to a mixed or a semantic
\* question on text.
AnswerHasCoverage ==
    final = "ANSWERED" =>
        /\ intent \in Structural \union {"mixed"} => HasGraph
        /\ intent \in {"semantic", "mixed"} => HasText

\* With answer generation on, a workflow that reports SUCCESS has answered:
\* no node is skipped, and no citation failure is swallowed, on the way.
SuccessIsAnswered ==
    node = "done" /\ answering /\ status = "SUCCESS" => final = "ANSWERED"

\* A question given up stays given up: no later round, merge or
\* re-evaluation turns a failure into a success.
GivenUpIsFinal == [][(status \in GivenUp) => (status' \in GivenUp)]_vars

\* Every question ends, through the refinement loop too.
EveryQuestionEnds == <>(node \in {"done", "raised"})
=============================================================================
