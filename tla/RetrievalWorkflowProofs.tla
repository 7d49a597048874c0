---------------------- MODULE RetrievalWorkflowProofs ----------------------
(***************************************************************************)
(* Proofs about RetrievalWorkflow, for any evidence, any round limit and   *)
(* any budgets.  The inductive invariant says, node by node, what the      *)
(* state of a question that reaches it may be; its five parts are proved   *)
(* one after the other, each from those before it.                         *)
(***************************************************************************)
EXTENDS RetrievalWorkflow, TLAPS

\* Before the first retrieval there is no evidence and no refinement.
Untouched ==
    node \in {"analyze", "resolve", "plan", "retrieve"} =>
        evidence = {} /\ found = {} /\ refinement = None

\* The question is analyzed before it is planned, and a refinement is there
\* when one is executed.
Equipped ==
    /\ node \in {"resolve", "plan"} => intent \in Intent
    /\ node = "refine" => refinement \in [kind : Kind, round : 1 .. MaxRounds]

Typed == TypeOK /\ Equipped

\* Counting: in the refinement loop every round took one retrieval.
Counted ==
    /\ calls <= MaxRounds
    /\ node \in {"analyze", "resolve", "plan", "retrieve"} =>
          calls = 0 /\ round = 0
    /\ node \in {"pool", "evaluate", "buildRefinement", "refine", "merge"} =>
          calls = round /\ round >= 1
    /\ node \in {"buildRefinement", "refine"} => round < MaxRounds
    /\ node = "refine" =>
          refinement.round = round + 1 \/ status = "INSUFFICIENT_EVIDENCE"

\* A question given up has left the nodes that could revive it.
Hopeful ==
    /\ node \notin {"refine", "finalize", "done", "raised"} =>
          status \notin GivenUp /\ ~errors
    /\ node = "refine" =>
          status \notin GivenUp \ {"INSUFFICIENT_EVIDENCE"} /\ ~errors

Searching == {"retrieve", "pool", "evaluate", "buildRefinement", "refine", "merge"}

\* A semantic question collects nothing but text.
TextOnly ==
    intent = "semantic" =>
        /\ node \in Searching => strategy = "vector"
        /\ evidence \subseteq Text /\ found \subseteq Text
        /\ refinement = None \/ refinement.kind = "vector"
        /\ node = "refine" => refinement.kind = "vector"

\* The critic's word for the evidence as it is now, and what that implies.
Judged ==
    /\ assessment.sufficient
    /\ assessment.of = evidence
    /\ pool = evidence
    /\ evidence # {}
    /\ intent \in Structural \union {"mixed"} => HasGraph
    /\ intent \in {"semantic", "mixed"} => HasText

\* What an answer rests on, from the evaluation to the decision.
Grounded ==
    /\ node = "evaluate" => pool = evidence
    /\ node \in {"context", "generate", "validate"} =>
          status = "SUCCESS" /\ Judged
    /\ node = "finalize" /\ status = "SUCCESS" => Judged /\ cited # {}
    /\ node \notin {"generate", "validate", "finalize", "done"} => context = {}
    /\ node \notin {"finalize", "done"} => cited = {}
    /\ node # "done" => final = None
    /\ context \subseteq pool /\ cited \subseteq context
    /\ node = "done" /\ answering /\ status = "SUCCESS" => final = "ANSWERED"
    /\ final = "ANSWERED" => node = "done" /\ Judged /\ cited # {}

\* With at most one refinement there is none to be stale.
Single ==
    /\ node \in {"pool", "evaluate", "buildRefinement", "merge"} /\ round < 2 =>
          refinement = None
    /\ RefinementIsFresh

----------------------------------------------------------------------------
(* Initial states and steps, part by part *)

\* Every part holds of a question that has just been asked.
LEMMA Start == Init => /\ Untouched /\ Typed /\ Counted /\ Hopeful /\ TextOnly
                       /\ Grounded /\ Single
<1> SUFFICES ASSUME Init
             PROVE  /\ Untouched /\ Typed /\ Counted /\ Hopeful /\ TextOnly
                    /\ Grounded /\ Single
    OBVIOUS
<1> USE WorkflowAssumption DEF Init
<1>1. Untouched
    BY DEF Untouched
<1>2. Typed
  <2>1. assessment \in Assessment /\ node \in Node
    BY DEF Assessment, Node
  <2>2. round \in 0 .. MaxRounds /\ calls \in Nat
    OBVIOUS
  <2>3. final \in FinalAnswer \union {None} /\ status \in Status \union {None}
    OBVIOUS
  <2>4. refinement \in [kind : Kind, round : 1 .. MaxRounds] \union {None}
    OBVIOUS
  <2>5. Equipped
    BY DEF Equipped
  <2> QED
    BY <2>1, <2>2, <2>3, <2>4, <2>5 DEF Typed, TypeOK
<1>3. Counted
    BY DEF Counted
<1>4. Hopeful
  <2>1. status \notin GivenUp
    BY NoneIsNoStatus DEF Status
  <2> QED
    BY <2>1 DEF Hopeful
<1>5. TextOnly
    BY DEF TextOnly, Searching
<1>6. Grounded
    BY NoneIsNoStatus DEF Grounded, Status, FinalAnswer
<1>7. Single
    BY DEF Single, RefinementIsFresh
<1> QED
    BY <1>1, <1>2, <1>3, <1>4, <1>5, <1>6, <1>7

\* Nothing is collected before the first retrieval.
LEMMA UntouchedStep ==
    ASSUME Untouched, Next
    PROVE  Untouched'
<1> USE WorkflowAssumption DEF Untouched, planning, retrieving, writing
<1>1. CASE RejectBlank
    BY <1>1 DEF RejectBlank
<1>2. CASE Analyze
    BY <1>2 DEF Analyze, Fail, Finish
<1>3. CASE Resolve
    BY <1>3 DEF Resolve, Resolutions
<1>4. CASE BuildPlan
    BY <1>4 DEF BuildPlan, Rejection, Fail, Finish, StrategyFor
<1>5. CASE Retrieve
    BY <1>5 DEF Retrieve, Results, Fail, Finish
<1>6. CASE BuildPool
    BY <1>6 DEF BuildPool
<1>7. CASE EvaluateNothing
    BY <1>7 DEF EvaluateNothing, Judge, StatusAfterAssessment, RouteAfterEvaluation, Finish, DefaultRefinement
<1>8. CASE EvaluateStructural
    BY <1>8 DEF EvaluateStructural, Judge, StatusAfterAssessment, RouteAfterEvaluation, Finish, HasGraph, ExpandGraph
<1>9. CASE EvaluateMixedGate
    BY <1>9 DEF EvaluateMixedGate, Judge, StatusAfterAssessment, RouteAfterEvaluation, Finish, HasText, ExpandGraph
<1>10. CASE EvaluateByModel
    BY <1>10 DEF EvaluateByModel, AsksModel, MixedGate, Judge, StatusAfterAssessment, RouteAfterEvaluation, Finish
<1>11. CASE CriticFails
    BY <1>11 DEF CriticFails, AsksModel, Fail, Finish
<1>12. CASE GrantRefinement
    BY <1>12 DEF GrantRefinement, Granted, Expandable, NextRound
<1>13. CASE RefuseRefinement
    BY <1>13 DEF RefuseRefinement, Finish
<1>14. CASE Refine
    BY <1>14 DEF Refine, Results, RouteAfterRefinement, Finish
<1>15. CASE Merge
    BY <1>15 DEF Merge
<1>16. CASE PrepareContext
    BY <1>16 DEF PrepareContext, Contexts, CanGenerate, Fail, Finish
<1>17. CASE Generate
    BY <1>17 DEF Generate, Citable, Fail, Finish
<1>18. CASE Validate
    BY <1>18 DEF Validate, Trusted
<1>19. CASE Finalize
    BY <1>19 DEF Finalize, FinalStatus, HardGate
<1> QED
    BY <1>1, <1>2, <1>3, <1>4, <1>5, <1>6, <1>7, <1>8, <1>9, <1>10, <1>11, <1>12, <1>13, <1>14, <1>15, <1>16, <1>17, <1>18, <1>19 DEF Next, Plan, Evaluate, Search, Answer

\* Every step keeps the variables in their ranges.
LEMMA TypedStep ==
    ASSUME Typed, Next
    PROVE  Typed'
<1> USE WorkflowAssumption DEF Typed, TypeOK, Equipped, planning, retrieving, writing
<1>1. CASE RejectBlank
    BY <1>1 DEF RejectBlank, Node, Status, GivenUp, Kind, Intent, Assessment, FinalAnswer
<1>2. CASE Analyze
  <2>1. intent' \in Intent \union {None} /\ (node' = "resolve" => intent' \in Intent)
    BY <1>2 DEF Analyze, Fail, Finish
  <2>2. node' \in Node /\ node' \notin {"refine", "plan"}
    BY <1>2 DEF Analyze, Fail, Finish, Node
  <2>3. status' \in Status \union {None} /\ errors' \in BOOLEAN
    BY <1>2 DEF Analyze, Fail, Status, GivenUp
  <2> QED
    BY <1>2, <2>1, <2>2, <2>3 DEF Analyze
<1>3. CASE Resolve
    BY <1>3 DEF Resolve, Resolutions, Node, Status, GivenUp, Kind, Intent, Assessment, FinalAnswer
<1>4. CASE BuildPlan
  <2>1. strategy' \in Kind \union {None}
    BY <1>4 DEF BuildPlan, StrategyFor, Intent, Kind
  <2>2. node' \in Node /\ node' \notin {"refine", "resolve", "plan"}
    BY <1>4 DEF BuildPlan, Fail, Finish, Node
  <2>3. status' \in Status \union {None} /\ errors' \in BOOLEAN
    BY <1>4 DEF BuildPlan, Fail, Status, GivenUp
  <2> QED
    BY <1>4, <2>1, <2>2, <2>3 DEF BuildPlan
<1>5. CASE Retrieve
  <2>1. evidence' \in SUBSET Item
    BY <1>5 DEF Retrieve, Results
  <2>2. round' \in 0 .. MaxRounds /\ calls' \in Nat
    BY <1>5 DEF Retrieve
  <2>3. node' \in Node /\ node' \notin {"refine", "resolve", "plan"}
    BY <1>5 DEF Retrieve, Fail, Finish, Node
  <2>4. status' \in Status \union {None} /\ errors' \in BOOLEAN
    BY <1>5 DEF Retrieve, Fail, Status, GivenUp
  <2> QED
    BY <1>5, <2>1, <2>2, <2>3, <2>4 DEF Retrieve
<1>6. CASE BuildPool
    BY <1>6 DEF BuildPool, Node, Status, GivenUp, Kind, Intent, Assessment, FinalAnswer
<1>7. CASE EvaluateNothing
    BY <1>7 DEF EvaluateNothing, Judge, StatusAfterAssessment, RouteAfterEvaluation, Finish, DefaultRefinement, Node, Status, GivenUp, Kind, Intent, Assessment, FinalAnswer
<1>8. CASE EvaluateStructural
    BY <1>8 DEF EvaluateStructural, Judge, StatusAfterAssessment, RouteAfterEvaluation, Finish, HasGraph, ExpandGraph, Node, Status, GivenUp, Kind, Intent, Assessment, FinalAnswer
<1>9. CASE EvaluateMixedGate
    BY <1>9 DEF EvaluateMixedGate, Judge, StatusAfterAssessment, RouteAfterEvaluation, Finish, HasText, ExpandGraph, Node, Status, GivenUp, Kind, Intent, Assessment, FinalAnswer
<1>10. CASE EvaluateByModel
    BY <1>10 DEF EvaluateByModel, AsksModel, MixedGate, Judge, StatusAfterAssessment, RouteAfterEvaluation, Finish, Node, Status, GivenUp, Kind, Intent, Assessment, FinalAnswer
<1>11. CASE CriticFails
    BY <1>11 DEF CriticFails, AsksModel, Fail, Finish, Node, Status, GivenUp, Kind, Intent, Assessment, FinalAnswer
<1>12. CASE GrantRefinement
    BY <1>12 DEF GrantRefinement, Granted, Expandable, NextRound, Node, Status, GivenUp, Kind, Intent, Assessment, FinalAnswer
<1>13. CASE RefuseRefinement
    BY <1>13 DEF RefuseRefinement, Finish, Node, Status, GivenUp, Kind, Intent, Assessment, FinalAnswer
<1>14. CASE Refine
  <2>1. found' \in SUBSET Item
    BY <1>14 DEF Refine, Results
  <2>2. round' \in 0 .. MaxRounds /\ calls' \in Nat
    BY <1>14 DEF Refine
  <2>3. node' \in Node /\ node' \notin {"refine", "resolve", "plan"}
    BY <1>14 DEF Refine, RouteAfterRefinement, Finish, Node
  <2>4. status' \in Status \union {None} /\ errors' \in BOOLEAN
    BY <1>14 DEF Refine, Status, GivenUp
  <2> QED
    BY <1>14, <2>1, <2>2, <2>3, <2>4 DEF Refine
<1>15. CASE Merge
    BY <1>15 DEF Merge, Node, Status, GivenUp, Kind, Intent, Assessment, FinalAnswer
<1>16. CASE PrepareContext
  <2>1. context' \in SUBSET Item
    BY <1>16 DEF PrepareContext, Contexts
  <2>2. node' \in Node /\ node' \notin {"refine", "resolve", "plan"}
    BY <1>16 DEF PrepareContext, Fail, Finish, Node
  <2>3. status' \in Status \union {None} /\ errors' \in BOOLEAN
    BY <1>16 DEF PrepareContext, Fail, Status, GivenUp
  <2> QED
    BY <1>16, <2>1, <2>2, <2>3 DEF PrepareContext
<1>17. CASE Generate
  <2>1. markers' \in SUBSET Item
    BY <1>17 DEF Generate, Citable
  <2>2. node' \in Node /\ node' \notin {"refine", "resolve", "plan"}
    BY <1>17 DEF Generate, Fail, Finish, Node
  <2>3. status' \in Status \union {None} /\ errors' \in BOOLEAN
    BY <1>17 DEF Generate, Fail, Status, GivenUp
  <2> QED
    BY <1>17, <2>1, <2>2, <2>3 DEF Generate
<1>18. CASE Validate
  <2>1. cited' \in SUBSET Item
    BY <1>18 DEF Validate, Trusted
  <2>2. node' \in Node /\ node' \notin {"refine", "resolve", "plan"}
    BY <1>18 DEF Validate, Node
  <2>3. status' \in Status \union {None} /\ errors' \in BOOLEAN
    BY <1>18 DEF Validate, Status, GivenUp
  <2> QED
    BY <1>18, <2>1, <2>2, <2>3 DEF Validate
<1>19. CASE Finalize
    BY <1>19 DEF Finalize, FinalStatus, HardGate, Node, Status, GivenUp, Kind, Intent, Assessment, FinalAnswer
<1> QED
    BY <1>1, <1>2, <1>3, <1>4, <1>5, <1>6, <1>7, <1>8, <1>9, <1>10, <1>11, <1>12, <1>13, <1>14, <1>15, <1>16, <1>17, <1>18, <1>19 DEF Next, Plan, Evaluate, Search, Answer

\* Every search counts a round, and none starts at the limit.
LEMMA CountedStep ==
    ASSUME Typed, Counted, Next
    PROVE  Counted'
<1> USE WorkflowAssumption DEF Typed, TypeOK, Equipped, Counted, planning, retrieving, writing
<1>1. CASE RejectBlank
    BY <1>1 DEF RejectBlank
<1>2. CASE Analyze
    BY <1>2 DEF Analyze, Fail, Finish
<1>3. CASE Resolve
    BY <1>3 DEF Resolve, Resolutions
<1>4. CASE BuildPlan
    BY <1>4 DEF BuildPlan, Rejection, Fail, Finish, StrategyFor
<1>5. CASE Retrieve
    BY <1>5 DEF Retrieve, Results, Fail, Finish
<1>6. CASE BuildPool
    BY <1>6 DEF BuildPool
<1>7. CASE EvaluateNothing
    BY <1>7 DEF EvaluateNothing, Judge, StatusAfterAssessment, RouteAfterEvaluation, Finish, DefaultRefinement
<1>8. CASE EvaluateStructural
    BY <1>8 DEF EvaluateStructural, Judge, StatusAfterAssessment, RouteAfterEvaluation, Finish, HasGraph, ExpandGraph
<1>9. CASE EvaluateMixedGate
    BY <1>9 DEF EvaluateMixedGate, Judge, StatusAfterAssessment, RouteAfterEvaluation, Finish, HasText, ExpandGraph
<1>10. CASE EvaluateByModel
    BY <1>10 DEF EvaluateByModel, AsksModel, MixedGate, Judge, StatusAfterAssessment, RouteAfterEvaluation, Finish
<1>11. CASE CriticFails
    BY <1>11 DEF CriticFails, AsksModel, Fail, Finish
<1>12. CASE GrantRefinement
    BY <1>12 DEF GrantRefinement, Granted, Expandable, NextRound
<1>13. CASE RefuseRefinement
    BY <1>13 DEF RefuseRefinement, Finish
<1>14. CASE Refine
    BY <1>14 DEF Refine, Results, RouteAfterRefinement, Finish
<1>15. CASE Merge
    BY <1>15 DEF Merge
<1>16. CASE PrepareContext
    BY <1>16 DEF PrepareContext, Contexts, CanGenerate, Fail, Finish
<1>17. CASE Generate
    BY <1>17 DEF Generate, Citable, Fail, Finish
<1>18. CASE Validate
    BY <1>18 DEF Validate, Trusted
<1>19. CASE Finalize
    BY <1>19 DEF Finalize, FinalStatus, HardGate
<1> QED
    BY <1>1, <1>2, <1>3, <1>4, <1>5, <1>6, <1>7, <1>8, <1>9, <1>10, <1>11, <1>12, <1>13, <1>14, <1>15, <1>16, <1>17, <1>18, <1>19 DEF Next, Plan, Evaluate, Search, Answer

\* A node that gives the question up leads out of the graph.
LEMMA HopefulStep ==
    ASSUME Typed, Hopeful, Next
    PROVE  Hopeful'
<1> USE WorkflowAssumption DEF Typed, TypeOK, Hopeful, GivenUp, planning, retrieving, writing
<1>1. CASE RejectBlank
    BY <1>1 DEF RejectBlank
<1>2. CASE Analyze
    BY <1>2 DEF Analyze, Fail, Finish
<1>3. CASE Resolve
    BY <1>3 DEF Resolve, Resolutions
<1>4. CASE BuildPlan
    BY <1>4 DEF BuildPlan, Rejection, Fail, Finish, StrategyFor
<1>5. CASE Retrieve
    BY <1>5 DEF Retrieve, Results, Fail, Finish
<1>6. CASE BuildPool
    BY <1>6 DEF BuildPool
<1>7. CASE EvaluateNothing
    BY <1>7 DEF EvaluateNothing, Judge, StatusAfterAssessment, RouteAfterEvaluation, Finish, DefaultRefinement
<1>8. CASE EvaluateStructural
    BY <1>8 DEF EvaluateStructural, Judge, StatusAfterAssessment, RouteAfterEvaluation, Finish, HasGraph, ExpandGraph
<1>9. CASE EvaluateMixedGate
    BY <1>9 DEF EvaluateMixedGate, Judge, StatusAfterAssessment, RouteAfterEvaluation, Finish, HasText, ExpandGraph
<1>10. CASE EvaluateByModel
    BY <1>10 DEF EvaluateByModel, AsksModel, MixedGate, Judge, StatusAfterAssessment, RouteAfterEvaluation, Finish
<1>11. CASE CriticFails
    BY <1>11 DEF CriticFails, AsksModel, Fail, Finish
<1>12. CASE GrantRefinement
    BY <1>12 DEF GrantRefinement, Granted, Expandable, NextRound
<1>13. CASE RefuseRefinement
    BY <1>13 DEF RefuseRefinement, Finish
<1>14. CASE Refine
    BY <1>14 DEF Refine, Results, RouteAfterRefinement, Finish
<1>15. CASE Merge
    BY <1>15 DEF Merge
<1>16. CASE PrepareContext
    BY <1>16 DEF PrepareContext, Contexts, CanGenerate, Fail, Finish
<1>17. CASE Generate
    BY <1>17 DEF Generate, Citable, Fail, Finish
<1>18. CASE Validate
    BY <1>18 DEF Validate, Trusted
<1>19. CASE Finalize
    BY <1>19 DEF Finalize, FinalStatus, HardGate
<1> QED
    BY <1>1, <1>2, <1>3, <1>4, <1>5, <1>6, <1>7, <1>8, <1>9, <1>10, <1>11, <1>12, <1>13, <1>14, <1>15, <1>16, <1>17, <1>18, <1>19 DEF Next, Plan, Evaluate, Search, Answer

\* Only the vector store is searched for a semantic question.
LEMMA TextOnlyStep ==
    ASSUME Untouched, Typed, TextOnly, Next
    PROVE  TextOnly'
<1> USE WorkflowAssumption DEF Untouched, Typed, TypeOK, TextOnly, Searching, Kind, planning, retrieving, writing
<1>1. CASE RejectBlank
    BY <1>1 DEF RejectBlank
<1>2. CASE Analyze
    BY <1>2 DEF Analyze, Fail, Finish
<1>3. CASE Resolve
    BY <1>3 DEF Resolve, Resolutions
<1>4. CASE BuildPlan
    BY <1>4 DEF BuildPlan, Rejection, Fail, Finish, StrategyFor
<1>5. CASE Retrieve
    BY <1>5 DEF Retrieve, Results, Fail, Finish
<1>6. CASE BuildPool
    BY <1>6 DEF BuildPool
<1>7. CASE EvaluateNothing
    BY <1>7 DEF EvaluateNothing, Judge, StatusAfterAssessment, RouteAfterEvaluation, Finish, DefaultRefinement
<1>8. CASE EvaluateStructural
    BY <1>8 DEF EvaluateStructural, Judge, StatusAfterAssessment, RouteAfterEvaluation, Finish, HasGraph, ExpandGraph
<1>9. CASE EvaluateMixedGate
    BY <1>9 DEF EvaluateMixedGate, Judge, StatusAfterAssessment, RouteAfterEvaluation, Finish, HasText, ExpandGraph
<1>10. CASE EvaluateByModel
    BY <1>10 DEF EvaluateByModel, AsksModel, MixedGate, Judge, StatusAfterAssessment, RouteAfterEvaluation, Finish
<1>11. CASE CriticFails
    BY <1>11 DEF CriticFails, AsksModel, Fail, Finish
<1>12. CASE GrantRefinement
    BY <1>12 DEF GrantRefinement, Granted, Expandable, NextRound
<1>13. CASE RefuseRefinement
    BY <1>13 DEF RefuseRefinement, Finish
<1>14. CASE Refine
    BY <1>14 DEF Refine, Results, RouteAfterRefinement, Finish
<1>15. CASE Merge
    BY <1>15 DEF Merge
<1>16. CASE PrepareContext
    BY <1>16 DEF PrepareContext, Contexts, CanGenerate, Fail, Finish
<1>17. CASE Generate
    BY <1>17 DEF Generate, Citable, Fail, Finish
<1>18. CASE Validate
    BY <1>18 DEF Validate, Trusted
<1>19. CASE Finalize
    BY <1>19 DEF Finalize, FinalStatus, HardGate
<1> QED
    BY <1>1, <1>2, <1>3, <1>4, <1>5, <1>6, <1>7, <1>8, <1>9, <1>10, <1>11, <1>12, <1>13, <1>14, <1>15, <1>16, <1>17, <1>18, <1>19 DEF Next, Plan, Evaluate, Search, Answer

\* The evidence is judged before the answer, and changes no more after it.
LEMMA GroundedStep ==
    ASSUME Typed, Hopeful, TextOnly, Grounded, Next
    PROVE  Grounded'
<1> USE WorkflowAssumption DEF Typed, TypeOK, Hopeful, Grounded, Judged, GivenUp, HasGraph, HasText, Structural, planning, retrieving, writing
<1>1. CASE RejectBlank
    BY <1>1 DEF RejectBlank
<1>2. CASE Analyze
    BY <1>2 DEF Analyze, Fail, Finish
<1>3. CASE Resolve
    BY <1>3 DEF Resolve, Resolutions
<1>4. CASE BuildPlan
    BY <1>4 DEF BuildPlan, Rejection, Fail, Finish, StrategyFor
<1>5. CASE Retrieve
    BY <1>5 DEF Retrieve, Results, Fail, Finish
<1>6. CASE BuildPool
    BY <1>6 DEF BuildPool
<1>7. CASE EvaluateNothing
    BY <1>7 DEF EvaluateNothing, Judge, StatusAfterAssessment, RouteAfterEvaluation, Finish, DefaultRefinement
<1>8. CASE EvaluateStructural
    BY <1>8 DEF EvaluateStructural, Judge, StatusAfterAssessment, RouteAfterEvaluation, Finish, HasGraph, ExpandGraph
<1>9. CASE EvaluateMixedGate
    BY <1>9 DEF EvaluateMixedGate, Judge, StatusAfterAssessment, RouteAfterEvaluation, Finish, HasText, ExpandGraph
<1>10. CASE EvaluateByModel
  <2>1. PICK sufficient \in BOOLEAN, recommend \in Kind \union {"none"} :
             Judge(sufficient, recommend)
    BY <1>10 DEF EvaluateByModel
  <2>2. evidence # {} /\ pool = evidence /\ intent \notin Structural
    BY <1>10 DEF EvaluateByModel, AsksModel
  <2>3. /\ intent = "mixed" => HasGraph /\ HasText
        /\ intent = "semantic" => HasText
    <3>1. intent = "mixed" => HasGraph /\ HasText
      BY <1>10 DEF EvaluateByModel, AsksModel, MixedGate
    <3>2. intent = "semantic" => evidence \intersect Text = evidence
      BY DEF TextOnly
    <3> QED
      BY <2>2, <3>1, <3>2
  <2>4. UNCHANGED <<answering, evidence, pool, intent, context, cited, final>>
    BY <2>1 DEF Judge
  <2>5. assessment' = [sufficient |-> sufficient, recommend |-> recommend,
                       of |-> evidence]
    BY <2>1 DEF Judge
  <2>6. CASE sufficient
    <3>1. status' = "SUCCESS" /\ node' \in {"context", "done"}
          /\ (answering => node' = "context")
      BY <2>1, <2>6 DEF Judge, StatusAfterAssessment, RouteAfterEvaluation
    <3> QED
      BY <1>10, <2>2, <2>3, <2>4, <2>5, <2>6, <3>1
         DEF EvaluateByModel, AsksModel
  <2>7. CASE ~sufficient
    <3>1. status' \in {"INSUFFICIENT_EVIDENCE", "EMPTY_EVIDENCE"}
          /\ node' \in {"buildRefinement", "finalize", "done"}
      BY <2>1, <2>7
         DEF Judge, StatusAfterAssessment, RouteAfterEvaluation, Finish
    <3> QED
      BY <1>10, <2>4, <3>1 DEF EvaluateByModel, AsksModel
  <2> QED
    BY <2>6, <2>7
<1>11. CASE CriticFails
    BY <1>11 DEF CriticFails, AsksModel, Fail, Finish
<1>12. CASE GrantRefinement
    BY <1>12 DEF GrantRefinement, Granted, Expandable, NextRound
<1>13. CASE RefuseRefinement
    BY <1>13 DEF RefuseRefinement, Finish
<1>14. CASE Refine
    BY <1>14 DEF Refine, Results, RouteAfterRefinement, Finish
<1>15. CASE Merge
    BY <1>15 DEF Merge
<1>16. CASE PrepareContext
  <2>1. status = "SUCCESS" /\ Judged /\ CanGenerate
    BY <1>16 DEF PrepareContext, CanGenerate
  <2>2. UNCHANGED <<evidence, pool, assessment, intent, cited, final, answering>>
    BY <1>16 DEF PrepareContext
  <2>3. CASE context' # {} /\ context' \subseteq pool /\ node' = "generate" /\ status' = status
    BY <1>16, <2>1, <2>2, <2>3 DEF PrepareContext
  <2>4. CASE status' = "ANSWER_GENERATION_FAILED" /\ context' = context /\ node' \in {"finalize", "done"}
    BY <1>16, <2>1, <2>2, <2>4 DEF PrepareContext
  <2>5. CASE Fail("ANSWER_GENERATION_FAILED") /\ UNCHANGED context
    BY <2>4, <2>5 DEF Fail, Finish
  <2>6. CASE /\ context' \in IF CanGenerate THEN Contexts ELSE {{}}
             /\ node' = IF context' # {} THEN "generate" ELSE "finalize"
             /\ UNCHANGED <<status, errors>>
    <3>1. context' \in (SUBSET pool) \ {{}}
      BY <2>1, <2>6 DEF Contexts
    <3>2. context' # {} /\ context' \subseteq pool
      BY <3>1
    <3>3. node' = "generate" /\ status' = status
      BY <3>2, <2>6
    <3> QED
      BY <3>2, <3>3, <2>3
  <2> QED
    BY <1>16, <2>5, <2>6 DEF PrepareContext
<1>17. CASE Generate
    BY <1>17 DEF Generate, Citable, Fail, Finish
<1>18. CASE Validate
    BY <1>18 DEF Validate, Trusted
<1>19. CASE Finalize
    BY <1>19 DEF Finalize, FinalStatus, HardGate
<1> QED
    BY <1>1, <1>2, <1>3, <1>4, <1>5, <1>6, <1>7, <1>8, <1>9, <1>10, <1>11, <1>12, <1>13, <1>14, <1>15, <1>16, <1>17, <1>18, <1>19 DEF Next, Plan, Evaluate, Search, Answer

\* The one refinement is executed in the round it was built for.
LEMMA SingleStep ==
    ASSUME MaxRounds <= 2, Untouched, Typed, Counted, Single, Next
    PROVE  Single'
<1> USE WorkflowAssumption DEF Untouched, Typed, TypeOK, Equipped, Counted, Single, RefinementIsFresh, Kind, planning, retrieving, writing
<1>1. CASE RejectBlank
    BY <1>1 DEF RejectBlank
<1>2. CASE Analyze
    BY <1>2 DEF Analyze, Fail, Finish
<1>3. CASE Resolve
    BY <1>3 DEF Resolve, Resolutions
<1>4. CASE BuildPlan
    BY <1>4 DEF BuildPlan, Rejection, Fail, Finish, StrategyFor
<1>5. CASE Retrieve
    BY <1>5 DEF Retrieve, Results, Fail, Finish
<1>6. CASE BuildPool
    BY <1>6 DEF BuildPool
<1>7. CASE EvaluateNothing
    BY <1>7 DEF EvaluateNothing, Judge, StatusAfterAssessment, RouteAfterEvaluation, Finish, DefaultRefinement
<1>8. CASE EvaluateStructural
    BY <1>8 DEF EvaluateStructural, Judge, StatusAfterAssessment, RouteAfterEvaluation, Finish, HasGraph, ExpandGraph
<1>9. CASE EvaluateMixedGate
    BY <1>9 DEF EvaluateMixedGate, Judge, StatusAfterAssessment, RouteAfterEvaluation, Finish, HasText, ExpandGraph
<1>10. CASE EvaluateByModel
    BY <1>10 DEF EvaluateByModel, AsksModel, MixedGate, Judge, StatusAfterAssessment, RouteAfterEvaluation, Finish
<1>11. CASE CriticFails
    BY <1>11 DEF CriticFails, AsksModel, Fail, Finish
<1>12. CASE GrantRefinement
    BY <1>12 DEF GrantRefinement, Granted, Expandable, NextRound
<1>13. CASE RefuseRefinement
    BY <1>13 DEF RefuseRefinement, Finish
<1>14. CASE Refine
    BY <1>14 DEF Refine, Results, RouteAfterRefinement, Finish
<1>15. CASE Merge
    BY <1>15 DEF Merge
<1>16. CASE PrepareContext
    BY <1>16 DEF PrepareContext, Contexts, CanGenerate, Fail, Finish
<1>17. CASE Generate
    BY <1>17 DEF Generate, Citable, Fail, Finish
<1>18. CASE Validate
    BY <1>18 DEF Validate, Trusted
<1>19. CASE Finalize
    BY <1>19 DEF Finalize, FinalStatus, HardGate
<1> QED
    BY <1>1, <1>2, <1>3, <1>4, <1>5, <1>6, <1>7, <1>8, <1>9, <1>10, <1>11, <1>12, <1>13, <1>14, <1>15, <1>16, <1>17, <1>18, <1>19 DEF Next, Plan, Evaluate, Search, Answer

\* A step that leaves every variable unchanged.
LEMMA Stutter ==
    ASSUME UNCHANGED vars
    PROVE  /\ Untouched => Untouched'
           /\ Typed => Typed'
           /\ Counted => Counted'
           /\ Hopeful => Hopeful'
           /\ TextOnly => TextOnly'
           /\ Grounded => Grounded'
           /\ Single => Single'
<1> USE DEF vars
<1>1. Untouched => Untouched'
    BY DEF Untouched
<1>2. Typed => Typed'
    BY DEF Typed, TypeOK, Equipped
<1>3. Counted => Counted'
    BY DEF Counted
<1>4. Hopeful => Hopeful'
    BY DEF Hopeful
<1>5. TextOnly => TextOnly'
    BY DEF TextOnly
<1>6. Grounded => Grounded'
    BY DEF Grounded, Judged, HasGraph, HasText
<1>7. Single => Single'
    BY DEF Single, RefinementIsFresh
<1> QED
    BY <1>1, <1>2, <1>3, <1>4, <1>5, <1>6, <1>7

----------------------------------------------------------------------------
(* Theorems *)

\* The inductive invariant of the workflow.
IInv == Untouched /\ Typed /\ Counted /\ Hopeful /\ TextOnly /\ Grounded

\* Every reachable state is one the invariant describes.
LEMMA Inductive == Spec => []IInv
<1>1. Init => IInv
    BY Start DEF IInv
<1>2. IInv /\ [Next]_vars => IInv'
    BY UntouchedStep, TypedStep, CountedStep, HopefulStep, TextOnlyStep,
       GroundedStep, Stutter
       DEF IInv
<1> QED
    BY <1>1, <1>2, PTL DEF Spec

\* Every variable keeps its range, the round counter the configured limit.
THEOREM TypeCorrect == Spec => []TypeOK
<1>1. IInv => TypeOK
    BY DEF IInv, Typed
<1> QED
    BY <1>1, Inductive, PTL

\* The bounded loop: whatever the limit, the critic and the stores say, one
\* question searches the stores no more often than MAX_RETRIEVAL_ROUNDS,
\* although a refused refinement may run an earlier one again.
THEOREM Bounded == Spec => []RetrievalsBounded
<1>1. IInv => RetrievalsBounded
    BY DEF IInv, Counted, RetrievalsBounded
<1> QED
    BY <1>1, Inductive, PTL

\* With the default limit of two rounds, or one, no refinement of an earlier
\* round is ever executed; the assumption is what the route after
\* build_refinement relies on.
THEOREM Fresh == ASSUME MaxRounds <= 2 PROVE Spec => []RefinementIsFresh
<1> DEFINE Inv == IInv /\ Single
<1>1. Init => Inv
    BY Start DEF IInv
<1>2. Inv /\ [Next]_vars => Inv'
    BY UntouchedStep, TypedStep, CountedStep, HopefulStep, TextOnlyStep,
       GroundedStep, SingleStep, Stutter
       DEF IInv
<1>3. Inv => RefinementIsFresh
    BY DEF Single
<1> QED
    BY <1>1, <1>2, <1>3, PTL DEF Spec

\* An answer rests on evidence the critic accepted as it stands, and cites
\* nothing the generator was not shown.
THEOREM Grounding == Spec => []AnsweredIsGrounded
<1>1. IInv => AnsweredIsGrounded
    BY DEF IInv, Grounded, Judged, AnsweredIsGrounded
<1> QED
    BY <1>1, Inductive, PTL

\* No verdict of the critic's model lets an answer out without the type of
\* evidence its question needs.
THEOREM Coverage == Spec => []AnswerHasCoverage
<1>1. IInv => AnswerHasCoverage
    BY DEF IInv, Grounded, Judged, AnswerHasCoverage
<1> QED
    BY <1>1, Inductive, PTL

\* SUCCESS at the end of the answer endpoint means there is an answer.
THEOREM SuccessAnswers == Spec => []SuccessIsAnswered
<1>1. IInv => SuccessIsAnswered
    BY DEF IInv, Grounded, SuccessIsAnswered
<1> QED
    BY <1>1, Inductive, PTL

\* No step revives a question that was given up.
THEOREM GivenUpForGood == Spec => GivenUpIsFinal
<1>1. IInv /\ Next /\ status \in GivenUp => status' \in GivenUp
  <2> SUFFICES ASSUME IInv, Next, status \in GivenUp
               PROVE  status' \in GivenUp
    OBVIOUS
  <2>1. node \in {"refine", "finalize", "done", "raised"}
    BY DEF IInv, Hopeful
  <2>2. CASE RejectBlank \/ Refine
    BY <2>2 DEF RejectBlank, Refine, GivenUp
  <2>3. CASE Finalize
    BY <2>3 DEF Finalize
  <2>4. RejectBlank \/ Refine \/ Finalize
    BY <2>1
       DEF Next, Plan, Search, Evaluate, Answer, Analyze, Resolve, BuildPlan,
           Retrieve, BuildPool, EvaluateNothing, EvaluateStructural,
           EvaluateMixedGate, EvaluateByModel, AsksModel, CriticFails,
           GrantRefinement, RefuseRefinement, Merge, PrepareContext, Generate,
           Validate
  <2> QED
    BY <2>2, <2>3, <2>4
<1>2. IInv /\ [Next]_vars => [(status \in GivenUp) => (status' \in GivenUp)]_vars
    BY <1>1 DEF vars
<1> QED
    BY <1>2, Inductive, PTL DEF Spec, GivenUpIsFinal

=============================================================================
