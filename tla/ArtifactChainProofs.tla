------------------------- MODULE ArtifactChainProofs -------------------------
(***************************************************************************)
(* The artifact files keep their lineage for any number of requests,        *)
(* configurations and outcomes.  The argument: a request that runs alone    *)
(* sees one source from its first read to its rename, is the only writer of *)
(* its .part file, and renames its own document; callers that wait for each *)
(* other only ever run alone.                                              *)
(***************************************************************************)
EXTENDS ArtifactChain, TLAPS

Readers == {"reconcile", "open", "close", "replace", "compare", "upsert", "delete"}

\* Only the requests that are between open and close hold a handle, one each.
Held ==
    \A s \in Stage :
        /\ part[s].writers \subseteq {r \in Request : req[r].pc = "close" /\ req[r].stage = s}
        /\ final[s].writers \subseteq {r \in Request : req[r].pc = "close" /\ req[r].stage = s}
        /\ part[s].writers \cap final[s].writers = {}

\* A request without company has none, and waiting callers have none.
Undisturbed ==
    /\ sequential => \A r \in Request : Active(r) => req[r].lone
    /\ \A r, q \in Request : Active(r) /\ req[r].lone /\ Active(q) => q = r

Current(s, c) == Whole(Content(s)) /\ Content(s).sum = c /\ Content(s).config = config[s]

Answered(r) ==
    LET s == req[r].stage
        given == Content(SourceOf[s])
    IN  IF s = "GRAPH_INDEX" THEN Stamped(given, config[s]) = Ids[config[s]][given.variant]
                             ELSE Current(s, given)

\* What a request that runs alone knows at each call.
Place(r) ==
    LET q == req[r] IN
    /\ q.pc \in Readers \cup {"hash"} => q.content = Content(SourceOf[q.stage])
    /\ q.pc \in Readers => q.sum = q.content
    /\ q.pc \in {"open", "close", "replace"} =>
         /\ ~Current(q.stage, q.content)
         /\ \E v \in Variant : q.doc = Made(q.content, q.content, config[q.stage], v)
    /\ q.pc = "close" => part[q.stage].writers = {r} /\ part[q.stage].docs = {q.doc}
    /\ q.pc = "replace" => part[q.stage].data = q.doc
    /\ q.pc = "delete" => Found(r) = Expected(r)
    /\ q.pc = "commit" => Answered(r)

Alones == \A r \in Request : Active(r) /\ req[r].lone => Place(r)

Inv == TypeOK /\ Held /\ Undisturbed /\ Alones /\ ProvenanceExact

-----------------------------------------------------------------------------
(* Types. *)

\* No stage reads its own artifact; the PDF is none.
LEMMA Sources ==
    /\ \A s \in Operation : SourceOf[s] \in Stage \cup {"PDF"}
    /\ \A s \in Stage : SourceOf[s] # s
    /\ Stage \subseteq Operation
    /\ "PDF" \notin Stage /\ "GRAPH_INDEX" \notin Stage
    /\ SourceOf["GRAPH_INDEX"] = "EXTRACT_GRAPH" /\ "EXTRACT_GRAPH" \in Stage
  BY DEF SourceOf, Stage, Operation

\* What a file of the chain may hold, when it can be read.
LEMMA Documents ==
    /\ \A s \in Stage \cup {"PDF"} : DocOf[s] \subseteq Doc
    /\ \A s \in Stage \cup {"PDF"} : DocOf[s] \cap Unreadable = {}
    /\ DocOf["EXTRACT_GRAPH"] = ExtractionDoc
  BY DocAssumption DEF DocOf, Doc, Stage, Unreadable

\* What a stage makes is a document of its own.
LEMMA MadeOf ==
  ASSUME NEW s \in Stage, NEW from \in DocOf[SourceOf[s]],
         NEW sum \in DocOf[SourceOf[s]] \cup Unreadable, NEW c \in Config, NEW v \in Variant
  PROVE  Made(from, sum, c, v) \in DocOf[s]
  <1>1. CASE s = "PARSE"
    <2>1. DocOf[SourceOf[s]] = {Pdf} /\ DocOf[s] = ParsedDoc  BY <1>1 DEF DocOf, SourceOf
    <2> QED  BY <2>1 DEF Made, ParsedDoc
  <1>2. CASE s = "CHUNK"
    <2>1. DocOf[SourceOf[s]] = ParsedDoc /\ DocOf[s] = ChunkDoc  BY <1>2 DEF DocOf, SourceOf
    <2> QED  BY <2>1 DEF Made, ChunkDoc
  <1>3. CASE s = "EXTRACT_GRAPH"
    <2>1. DocOf[SourceOf[s]] = ChunkDoc /\ DocOf[s] = ExtractionDoc  BY <1>3 DEF DocOf, SourceOf
    <2> QED  BY <2>1 DEF Made, ExtractionDoc
  <1> QED  BY <1>1, <1>2, <1>3 DEF Stage

\* A read returns a document of the stage, or that there is none.
LEMMA ContentType ==
  ASSUME TypeOK, NEW s \in Stage \cup {"PDF"}
  PROVE  Content(s) \in DocOf[s] \cup Unreadable
  <1>1. CASE s = "PDF"  BY <1>1 DEF Content, DocOf
  <1>2. CASE s # "PDF"  BY <1>2 DEF Content, TypeOK, HoldsOwn
  <1> QED  BY <1>1, <1>2

\* A file that some handles let go of keeps its document.
LEMMA ReleasedType ==
  ASSUME NEW f \in File, NEW gone, NEW s, HoldsOwn(f, s)
  PROVE  /\ Released(f, gone) \in File /\ HoldsOwn(Released(f, gone), s)
         /\ Released(f, gone).data = f.data
         /\ Released(f, gone).writers = f.writers \ gone
  BY DEF Released, File, HoldsOwn

\* Files released and every request idle or unchanged: Raise and Restart.
LEMMA ReleaseAll ==
  ASSUME TypeOK, NEW gone,
         final' = [s \in Stage |-> Released(final[s], gone)],
         part' = [s \in Stage |-> Released(part[s], gone)]
  PROVE  /\ final' \in [Stage -> File] /\ part' \in [Stage -> File]
         /\ \A s \in Stage : HoldsOwn(final'[s], s) /\ HoldsOwn(part'[s], s)
         /\ \A s \in Stage : /\ final'[s].data = final[s].data
                             /\ final'[s].writers = final[s].writers \ gone
                             /\ part'[s].writers = part[s].writers \ gone
  <1>1. \A s \in Stage : final[s] \in File /\ part[s] \in File
                         /\ HoldsOwn(final[s], s) /\ HoldsOwn(part[s], s)
    BY DEF TypeOK
  <1>2. \A s \in Stage : final'[s] = Released(final[s], gone) /\ part'[s] = Released(part[s], gone)
    OBVIOUS
  <1> QED  BY <1>1, <1>2, ReleasedType

\* A request that has ended is a legal state of one.
LEMMA IdleType == Idle \in RequestState /\ Working(Idle) /\ Idle.pc = "idle"
  BY DEF Idle, RequestState, PC, Unreadable, Working
-----------------------------------------------------------------------------
(* One request moves, the others stay. *)

\* Whoever moves has either no company or no claim to be alone, so only its own
\* place is left to show.
LEMMA OneMoves ==
  ASSUME Inv, NEW r \in Request, Active(r), NEW x \in RequestState, Working(x),
         x.pc # "idle" => x.lone = req[r].lone,
         req' = [req EXCEPT ![r] = x], sequential' = sequential,
         x.pc # "idle" /\ req[r].lone => Place(r)'
  PROVE  /\ req' \in [Request -> RequestState] /\ \A q \in Request : Working(req'[q])
         /\ Undisturbed' /\ Alones'
         /\ req'[r] = x /\ \A q \in Request \ {r} : req'[q] = req[q]
  <1>1. req \in [Request -> RequestState] /\ \A q \in Request : Working(req[q])
    BY DEF Inv, TypeOK
  <1>2. req'[r] = x /\ \A q \in Request \ {r} : req'[q] = req[q]
    BY <1>1
  <1>3. Undisturbed'
    BY <1>2 DEF Inv, Undisturbed, Active
  <1>4. ASSUME NEW q \in Request, Active(q)', req'[q].lone  PROVE Place(q)'
    <2>1. CASE q = r  BY <2>1, <1>2, <1>4 DEF Active
    <2>2. CASE q # r  BY <2>2, <1>2, <1>4 DEF Active, Inv, Undisturbed
    <2> QED  BY <2>1, <2>2
  <1>5. req' \in [Request -> RequestState]  BY <1>1
  <1> QED  BY <1>1, <1>2, <1>3, <1>4, <1>5 DEF Alones

\* The same when no file changes, whatever happens to the graph.
LEMMA GraphOnly ==
  ASSUME Inv, NEW r \in Request, Active(r), NEW x \in RequestState, Working(x),
         x.pc # "idle" => x.lone = req[r].lone,
         req' = [req EXCEPT ![r] = x], x.pc # "close", req[r].pc # "close",
         x.pc # "idle" /\ req[r].lone => Place(r)',
         UNCHANGED <<final, part, config, sequential, disturbances>>,
         published' \in [Relationship -> Edge \cup {None}],
         sequential => \A e \in Relationship :
                         published'[e] # None => published'[e].from = published'[e].sum
  PROVE  Inv'
  <1>1. /\ req' \in [Request -> RequestState] /\ \A q \in Request : Working(req'[q])
        /\ Undisturbed' /\ Alones'
        /\ req'[r] = x /\ \A q \in Request \ {r} : req'[q] = req[q]
    BY OneMoves
  <1>2. TypeOK'  BY <1>1 DEF Inv, TypeOK
  <1>3. Held'  BY <1>1 DEF Inv, Held
  <1>4. ProvenanceExact'  BY DEF Inv, ProvenanceExact, Content
  <1> QED  BY <1>1, <1>2, <1>3, <1>4 DEF Inv

\* And when nothing but the request changes.
LEMMA OnlyRequest ==
  ASSUME Inv, NEW r \in Request, Active(r), NEW x \in RequestState, Working(x),
         x.pc # "idle" => x.lone = req[r].lone,
         req' = [req EXCEPT ![r] = x], x.pc # "close", req[r].pc # "close",
         x.pc # "idle" /\ req[r].lone => Place(r)',
         UNCHANGED <<final, part, config, published, sequential, disturbances>>
  PROVE  Inv'
  <1>1. published' \in [Relationship -> Edge \cup {None}]
    BY DEF Inv, TypeOK
  <1>2. sequential => \A e \in Relationship :
                        published'[e] # None => published'[e].from = published'[e].sum
    BY DEF Inv, ProvenanceExact
  <1> QED  BY <1>1, <1>2, GraphOnly

\* What the invariant says of one request.
LEMMA Shape ==
  ASSUME Inv, NEW r \in Request
  PROVE  /\ req[r] \in RequestState /\ Working(req[r])
         /\ req[r].lone /\ Active(r) => Place(r)
  BY DEF Inv, TypeOK, Alones

\* Each action keeps the invariant: one lemma for each.
LEMMA ReadSourceKeeps ==
  ASSUME Inv, NEW r \in Request, ReadSource(r)  PROVE Inv'
  <1> DEFINE c == Content(SourceOf[req[r].stage])
             x == IF Whole(c) THEN [req[r] EXCEPT !.pc = "hash", !.content = c] ELSE Idle
  <1>1. req[r] \in RequestState /\ req[r].stage \in Operation /\ req[r].pc = "read" /\ Active(r)
    BY Shape DEF ReadSource, Working, Active
  <1>2. c \in DocOf[SourceOf[req[r].stage]] \cup Unreadable
    BY <1>1, Sources, ContentType DEF Inv
  <1>3. c \in Doc \cup Unreadable /\ (Whole(c) => c \in DocOf[SourceOf[req[r].stage]])
    BY <1>1, <1>2, Sources, Documents DEF Whole, Unreadable
  <1>4. CASE Whole(c)
    <2>1. /\ x \in RequestState /\ x.pc = "hash" /\ x.content = c /\ x.stage = req[r].stage
          /\ x.lone = req[r].lone
      BY <1>1, <1>3, <1>4 DEF RequestState, PC
    <2>2. Working(x)  BY <2>1, <1>1, <1>3, <1>4 DEF Working
    <2>3. req' = [req EXCEPT ![r] = x] /\ UNCHANGED <<final, part, config, published, sequential, disturbances>>
      BY DEF ReadSource
    <2>4. req'[r] = x  BY <2>3 DEF Inv, TypeOK
    <2>5. Place(r)'  BY <2>1, <2>3, <2>4 DEF Place, Content, Readers
    <2> HIDE DEF x
    <2> QED  BY <1>1, <2>1, <2>2, <2>3, <2>5, OnlyRequest
  <1>5. CASE ~Whole(c)
    <2>1. x = Idle  BY <1>5
    <2>2. req' = [req EXCEPT ![r] = x] /\ UNCHANGED <<final, part, config, published, sequential, disturbances>>
      BY DEF ReadSource
    <2> HIDE DEF x
    <2> QED  BY <1>1, <2>1, <2>2, IdleType, OnlyRequest
  <1> QED  BY <1>4, <1>5

LEMMA HashSourceKeeps ==
  ASSUME Inv, NEW r \in Request, HashSource(r)  PROVE Inv'
  <1> DEFINE c == Content(SourceOf[req[r].stage])
             next == IF req[r].stage = "GRAPH_INDEX" THEN "compare" ELSE "reconcile"
             x == [req[r] EXCEPT !.sum = c, !.pc = next]
  <1>1. /\ req[r] \in RequestState /\ req[r].stage \in Operation /\ req[r].pc = "hash" /\ Active(r)
        /\ req[r].content \in DocOf[SourceOf[req[r].stage]]
        /\ req[r].lone => Place(r)
    BY Shape DEF HashSource, Working, Active
  <1>2. c \in DocOf[SourceOf[req[r].stage]] \cup Unreadable /\ c \in Doc \cup Unreadable
    BY <1>1, Sources, ContentType, Documents DEF Inv
  <1>3. /\ x \in RequestState /\ x.pc = next /\ x.content = req[r].content /\ x.sum = c
        /\ x.stage = req[r].stage /\ x.lone = req[r].lone
    BY <1>1, <1>2 DEF RequestState, PC
  <1>4. next = "reconcile" => req[r].stage \in Stage
    BY <1>1 DEF Operation
  <1>5. Working(x)  BY <1>1, <1>2, <1>3, <1>4 DEF Working
  <1>6. req' = [req EXCEPT ![r] = x] /\ UNCHANGED <<final, part, config, published, sequential, disturbances>>
    BY DEF HashSource
  <1>7. req'[r] = x  BY <1>6 DEF Inv, TypeOK
  <1>8. req[r].lone => Place(r)'
    BY <1>1, <1>3, <1>6, <1>7 DEF Place, Content, Readers
  <1>9. x.pc \notin {"idle", "close"}  BY <1>3
  <1> HIDE DEF x
  <1> QED  BY <1>1, <1>3, <1>5, <1>6, <1>8, <1>9, OnlyRequest

LEMMA DecideKeeps ==
  ASSUME Inv, NEW r \in Request, req[r].stage \in Stage,
         NEW answers \in SUBSET Variant, Decide(r, answers)
  PROVE  Inv'
  <1> DEFINE s == req[r].stage
  <1>1. /\ req[r] \in RequestState /\ s \in Stage /\ req[r].pc = "reconcile" /\ Active(r)
        /\ req[r].content \in DocOf[SourceOf[s]]
        /\ req[r].sum \in DocOf[SourceOf[s]] \cup Unreadable
        /\ req[r].lone => Place(r)
    BY Shape DEF Decide, Working, Active
  <1>2. UNCHANGED <<final, part, config, published, sequential, disturbances>>
    BY DEF Decide
  <1>3. req[r].lone => /\ req[r].content = Content(SourceOf[s]) /\ req[r].sum = req[r].content
    BY <1>1 DEF Place, Readers
  <1>4. CASE Whole(Content(s)) /\ ~Stale(r, Content(s))
    <2> DEFINE x == [req[r] EXCEPT !.pc = "commit"]
    <2>1. /\ x \in RequestState /\ x.pc = "commit" /\ x.content = req[r].content
          /\ x.sum = req[r].sum /\ x.stage = s /\ x.lone = req[r].lone
      BY <1>1 DEF RequestState, PC
    <2>2. Working(x)  BY <1>1, <2>1, Sources DEF Working
    <2>3. req' = [req EXCEPT ![r] = x]  BY <1>4 DEF Decide, Goto
    <2>4. req'[r] = x  BY <2>3 DEF Inv, TypeOK
    <2>5. req[r].lone => Current(s, Content(SourceOf[s]))
      BY <1>3, <1>4 DEF Current, Stale
    <2>6. s # "GRAPH_INDEX"  BY <1>1, Sources
    <2>7. req[r].lone => Place(r)'
      BY <1>2, <2>1, <2>4, <2>5, <2>6 DEF Place, Readers, Answered, Current, Content
    <2> HIDE DEF x
    <2> QED  BY <1>1, <1>2, <2>1, <2>2, <2>3, <2>7, OnlyRequest
  <1>5. CASE ~(Whole(Content(s)) /\ ~Stale(r, Content(s)))
    <2>1. PICK v \in answers :
            req' = [req EXCEPT ![r].pc = "open",
                               ![r].doc = Made(req[r].content, req[r].sum, config[s], v)]
      BY <1>5 DEF Decide
    <2> v \in Variant  OBVIOUS
    <2> DEFINE d == Made(req[r].content, req[r].sum, config[s], v)
               x == [req[r] EXCEPT !.pc = "open", !.doc = d]
    <2> config[s] \in Config  BY <1>1, Sources DEF Inv, TypeOK
    <2>2. d \in DocOf[s]  BY <1>1, MadeOf
    <2>3. d \in Doc  BY <1>1, <2>2, Documents
    <2> HIDE DEF d
    <2>4. /\ x \in RequestState /\ x.pc = "open" /\ x.content = req[r].content /\ x.doc = d
          /\ x.sum = req[r].sum /\ x.stage = s /\ x.lone = req[r].lone
      BY <1>1, <2>3 DEF RequestState, PC
    <2>5. Working(x)  BY <1>1, <2>2, <2>4, Sources DEF Working
    <2>6. req' = [req EXCEPT ![r] = x]  BY <2>1 DEF d
    <2>7. req'[r] = x  BY <2>6 DEF Inv, TypeOK
    <2>8. req[r].lone => ~Current(s, req[r].content)
      BY <1>3, <1>5 DEF Current, Stale
    <2>9. req[r].lone => \E w \in Variant : d = Made(req[r].content, req[r].content, config[s], w)
      BY <1>3 DEF d
    <2>10. req[r].lone => Place(r)'
      BY <1>2, <1>3, <2>4, <2>7, <2>8, <2>9 DEF Place, Readers, Current, Content
    <2> HIDE DEF x
    <2> QED  BY <1>1, <1>2, <2>4, <2>5, <2>6, <2>10, OnlyRequest
  <1> QED  BY <1>4, <1>5

Reconciles(r) ==
    ReconcileExistingParse(r) \/ ReconcileExistingChunks(r) \/ ReconcileExistingExtraction(r)

LEMMA ReconcileKeeps ==
  ASSUME Inv, NEW r \in Request, Reconciles(r)  PROVE Inv'
  <1>1. req[r].stage \in Stage
    BY DEF Reconciles, ReconcileExistingParse, ReconcileExistingChunks,
           ReconcileExistingExtraction, Stage
  <1>2. OnlyAnswer \subseteq Variant  BY VariantAssumption DEF OnlyAnswer
  <1>3. Decide(r, OnlyAnswer) \/ Decide(r, Variant)
    BY DEF Reconciles, ReconcileExistingParse, ReconcileExistingChunks,
           ReconcileExistingExtraction
  <1> QED  BY <1>1, <1>2, <1>3, DecideKeeps

LEMMA AnswerKeeps ==
  ASSUME Inv, NEW r \in Request, Answer(r)  PROVE Inv'
  BY OnlyRequest, IdleType DEF Answer, Active

-----------------------------------------------------------------------------
(* The graph index. *)

\* What a request knows when it works on the graph.
LEMMA Indexing ==
  ASSUME Inv, NEW r \in Request, req[r].pc \in {"compare", "upsert", "delete"}
  PROVE  /\ req[r] \in RequestState /\ Working(req[r]) /\ Active(r)
         /\ req[r].stage = "GRAPH_INDEX"
         /\ EdgeOf(r) \in Edge /\ EdgeOf(r) # None
         /\ EdgeOf(r).from = req[r].content /\ EdgeOf(r).sum = req[r].sum
         /\ Expected(r) \subseteq Relationship
         /\ published \in [Relationship -> Edge \cup {None}]
         /\ req[r].lone => /\ Place(r)
                           /\ req[r].sum = req[r].content
                           /\ req[r].content = Content("EXTRACT_GRAPH")
         /\ sequential => req[r].lone
  <1>1. /\ req[r] \in RequestState /\ Working(req[r]) /\ Active(r)
        /\ req[r].stage = "GRAPH_INDEX"
        /\ req[r].lone => Place(r)
    BY Shape DEF Working, Active
  <1>2. req[r].content \in ExtractionDoc /\ req[r].sum \in ExtractionDoc \cup Unreadable
    BY <1>1, Sources, Documents DEF Working
  <1>3. config["GRAPH_INDEX"] \in Config  BY DEF Inv, TypeOK, Operation
  <1>4. EdgeOf(r) \in Edge  BY <1>2, <1>3 DEF EdgeOf, Edge
  <1>5. EdgeOf(r) # None  BY <1>4, DocAssumption
  <1>6. Expected(r) \subseteq Relationship
    <2>1. req[r].content.variant \in Variant  BY <1>2 DEF ExtractionDoc
    <2> QED  BY <2>1, <1>3, IdsAssumption DEF Expected
  <1>7. req[r].lone => /\ req[r].sum = req[r].content
                       /\ req[r].content = Content("EXTRACT_GRAPH")
    BY <1>1, Sources DEF Place, Readers
  <1>8. sequential => req[r].lone  BY <1>1 DEF Inv, Undisturbed
  <1>9. EdgeOf(r).from = req[r].content /\ EdgeOf(r).sum = req[r].sum  BY DEF EdgeOf
  <1>10. published \in [Relationship -> Edge \cup {None}]  BY DEF Inv, TypeOK
  <1> QED  BY <1>1, <1>4, <1>5, <1>6, <1>7, <1>8, <1>9, <1>10

\* A request that goes on to another step on the graph.
LEMMA IndexGoesOn ==
  ASSUME Inv, NEW r \in Request, req[r].pc \in {"compare", "upsert", "delete"},
         NEW x \in RequestState, x.pc \in {"upsert", "delete", "commit"},
         x.stage = "GRAPH_INDEX", x.content = req[r].content, x.sum = req[r].sum
  PROVE  Working(x)
  <1>1. Working(req[r]) /\ req[r].stage = "GRAPH_INDEX"  BY Indexing
  <1> QED  BY <1>1 DEF Working, Operation

\* The stamp of a lone request is that of the current extraction.
LEMMA AnsweredIndex ==
  ASSUME Inv, NEW r \in Request, req[r].pc \in {"compare", "upsert", "delete"}, req[r].lone,
         UNCHANGED <<final, config>>, req'[r].stage = "GRAPH_INDEX",
         Found(r)' = Expected(r), req'[r].sum = req[r].sum
  PROVE  Answered(r)'
  <1>1. req[r].sum = req[r].content /\ req[r].content = Content("EXTRACT_GRAPH")
    BY Indexing
  <1>2. Content("EXTRACT_GRAPH")' = Content("EXTRACT_GRAPH")  BY DEF Content
  <1>3. Found(r)' = Stamped(req[r].sum, config["GRAPH_INDEX"])'
    BY DEF Found, Stamped
  <1>4. Expected(r) = Ids[config["GRAPH_INDEX"]][Content("EXTRACT_GRAPH").variant]
    BY <1>1 DEF Expected
  <1> QED  BY <1>1, <1>2, <1>3, <1>4, Sources DEF Answered, Found, Stamped

\* Comparing the ids: reuse, or go on to write.
LEMMA CompareKeeps ==
  ASSUME Inv, NEW r \in Request, ReconcileExistingIndex(r)  PROVE Inv'
  <1>1. /\ req[r].pc = "compare" /\ req[r] \in RequestState /\ Active(r) /\ req[r].stage = "GRAPH_INDEX"
        /\ Expected(r) \subseteq Relationship
        /\ UNCHANGED <<final, part, config, published, sequential, disturbances>>
    BY Indexing DEF ReconcileExistingIndex
  <1>2. CASE Found(r) = Expected(r) /\ Goto(r, "commit")
    <2> DEFINE x == [req[r] EXCEPT !.pc = "commit", !.todo = req[r].todo]
    <2> x = [req[r] EXCEPT !.pc = "commit", !.todo = req[r].todo]  OBVIOUS
    <2> HIDE DEF x
    <2>1. req[r].todo \in SUBSET Relationship  BY <1>1 DEF RequestState
    <2>2. /\ x \in RequestState /\ Working(x)
          /\ x.pc = "commit" /\ x.stage = "GRAPH_INDEX" /\ x.content = req[r].content
          /\ x.sum = req[r].sum /\ x.lone = req[r].lone
      <3>1. x \in RequestState /\ x.pc = "commit" /\ x.stage = "GRAPH_INDEX" /\ x.content = req[r].content
            /\ x.sum = req[r].sum /\ x.lone = req[r].lone
        BY <1>1, <2>1 DEF RequestState, PC
      <3> QED  BY <1>1, <3>1, IndexGoesOn
    <2>3. x = [req[r] EXCEPT !.pc = "commit"]  BY <1>1 DEF RequestState
    <2>4. req' = [req EXCEPT ![r] = x]  BY <1>2, <2>3 DEF Goto
    <2>5. req'[r] = x  BY <2>4 DEF Inv, TypeOK
    <2>6. Found(r)' = Found(r)  BY <1>1, <2>2, <2>5 DEF Found, Stamped
    <2>7. req[r].lone => Answered(r)'
      BY <1>1, <1>2, <2>2, <2>5, <2>6, AnsweredIndex
    <2>8. req[r].lone => Place(r)'
      BY <2>2, <2>5, <2>7 DEF Place, Readers
    <2> QED  BY <1>1, <2>2, <2>4, <2>8, OnlyRequest
  <1>3. CASE req' = [req EXCEPT ![r].pc = "upsert", ![r].todo = Expected(r)]
    <2> DEFINE x == [req[r] EXCEPT !.pc = "upsert", !.todo = Expected(r)]
    <2> x = [req[r] EXCEPT !.pc = "upsert", !.todo = Expected(r)]  OBVIOUS
    <2> HIDE DEF x
    <2>1. /\ x \in RequestState /\ Working(x)
          /\ x.pc = "upsert" /\ x.stage = "GRAPH_INDEX" /\ x.content = req[r].content
          /\ x.sum = req[r].sum /\ x.lone = req[r].lone
      <3>1. x \in RequestState /\ x.pc = "upsert" /\ x.stage = "GRAPH_INDEX" /\ x.content = req[r].content
            /\ x.sum = req[r].sum /\ x.lone = req[r].lone
        BY <1>1 DEF RequestState, PC
      <3> QED  BY <1>1, <3>1, IndexGoesOn
    <2>2. req' = [req EXCEPT ![r] = x]  BY <1>3
    <2>3. req'[r] = x  BY <2>2 DEF Inv, TypeOK
    <2>4. req[r].lone => /\ Content("EXTRACT_GRAPH")' = Content("EXTRACT_GRAPH")
                         /\ req[r].sum = req[r].content
                         /\ req[r].content = Content("EXTRACT_GRAPH")
      BY <1>1, Indexing DEF Content
    <2>5. req[r].lone => Place(r)'
      BY <2>1, <2>3, <2>4, Sources DEF Place, Readers
    <2> QED  BY <1>1, <2>1, <2>2, <2>5, OnlyRequest
  <1> QED  BY <1>2, <1>3 DEF ReconcileExistingIndex

\* An edge made from what the request read, under the checksum it took.
LEMMA UpsertKeeps ==
  ASSUME Inv, NEW r \in Request, UpsertEdge(r)  PROVE Inv'
  <1>1. /\ req[r].pc = "upsert" /\ req[r] \in RequestState /\ Active(r) /\ req[r].stage = "GRAPH_INDEX"
        /\ EdgeOf(r) \in Edge /\ EdgeOf(r) # None
        /\ EdgeOf(r).from = req[r].content /\ EdgeOf(r).sum = req[r].sum
        /\ published \in [Relationship -> Edge \cup {None}]
        /\ UNCHANGED <<final, part, config, sequential, disturbances>>
    BY Indexing DEF UpsertEdge
  <1>2. PICK e \in req[r].todo :
          /\ published' = [published EXCEPT ![e] = EdgeOf(r)]
          /\ req' = [req EXCEPT ![r].todo = req[r].todo \ {e}]
    BY DEF UpsertEdge
  <1>3. req[r].todo \in SUBSET Relationship  BY <1>1 DEF RequestState
  <1> DEFINE x == [req[r] EXCEPT !.pc = "upsert", !.todo = req[r].todo \ {e}]
  <1> x = [req[r] EXCEPT !.pc = "upsert", !.todo = req[r].todo \ {e}]  OBVIOUS
  <1> HIDE DEF x
  <1>4. req[r].todo \ {e} \in SUBSET Relationship  BY <1>3
  <1>5. /\ x \in RequestState /\ Working(x)
        /\ x.pc = "upsert" /\ x.stage = "GRAPH_INDEX" /\ x.content = req[r].content
        /\ x.sum = req[r].sum /\ x.lone = req[r].lone
    <2>1. x \in RequestState /\ x.pc = "upsert" /\ x.stage = "GRAPH_INDEX" /\ x.content = req[r].content
          /\ x.sum = req[r].sum /\ x.lone = req[r].lone
      BY <1>1, <1>4 DEF RequestState, PC
    <2> QED  BY <1>1, <2>1, IndexGoesOn
  <1>6. x = [req[r] EXCEPT !.todo = req[r].todo \ {e}]  BY <1>1 DEF RequestState
  <1>7. req' = [req EXCEPT ![r] = x]  BY <1>2, <1>6
  <1>8. req'[r] = x  BY <1>7 DEF Inv, TypeOK
  <1>9. req[r].lone => /\ Content("EXTRACT_GRAPH")' = Content("EXTRACT_GRAPH")
                       /\ req[r].sum = req[r].content
                       /\ req[r].content = Content("EXTRACT_GRAPH")
    BY <1>1, Indexing DEF Content
  <1>10. req[r].lone => Place(r)'
    BY <1>5, <1>8, <1>9, Sources DEF Place, Readers
  <1>11. published' \in [Relationship -> Edge \cup {None}]  BY <1>1, <1>2
  <1>12. sequential => \A k \in Relationship :
                         published'[k] # None => published'[k].from = published'[k].sum
    <2> SUFFICES ASSUME sequential, NEW k \in Relationship, published'[k] # None
                 PROVE  published'[k].from = published'[k].sum
      OBVIOUS
    <2>1. EdgeOf(r).from = EdgeOf(r).sum  BY <1>1, Indexing
    <2>2. published[k] # None => published[k].from = published[k].sum
      BY DEF Inv, ProvenanceExact
    <2>3. published'[k] = IF k = e THEN EdgeOf(r) ELSE published[k]  BY <1>1, <1>2
    <2> QED  BY <2>1, <2>2, <2>3
  <1> QED  BY <1>1, <1>5, <1>7, <1>10, <1>11, <1>12, GraphOnly

\* The verification.
LEMMA VerifyKeeps ==
  ASSUME Inv, NEW r \in Request, VerifyIndex(r)  PROVE Inv'
  <1>1. /\ req[r].pc = "upsert" /\ req[r] \in RequestState /\ Active(r) /\ req[r].stage = "GRAPH_INDEX"
        /\ UNCHANGED <<final, part, config, published, sequential, disturbances>>
    BY Indexing DEF VerifyIndex
  <1>2. CASE Found(r) = Expected(r)
    <2> DEFINE x == [req[r] EXCEPT !.pc = "delete", !.todo = req[r].todo]
    <2> x = [req[r] EXCEPT !.pc = "delete", !.todo = req[r].todo]  OBVIOUS
    <2> HIDE DEF x
    <2>1. req[r].todo \in SUBSET Relationship  BY <1>1 DEF RequestState
    <2>2. /\ x \in RequestState /\ Working(x)
          /\ x.pc = "delete" /\ x.stage = "GRAPH_INDEX" /\ x.content = req[r].content
          /\ x.sum = req[r].sum /\ x.lone = req[r].lone
      <3>1. x \in RequestState /\ x.pc = "delete" /\ x.stage = "GRAPH_INDEX" /\ x.content = req[r].content
            /\ x.sum = req[r].sum /\ x.lone = req[r].lone
        BY <1>1, <2>1 DEF RequestState, PC
      <3> QED  BY <1>1, <3>1, IndexGoesOn
    <2>3. x = [req[r] EXCEPT !.pc = "delete"]  BY <1>1 DEF RequestState
    <2>4. req' = [req EXCEPT ![r] = x]  BY <1>2, <2>3 DEF VerifyIndex
    <2>5. req'[r] = x  BY <2>4 DEF Inv, TypeOK
    <2>6. Found(r)' = Found(r) /\ Expected(r)' = Expected(r)
      BY <1>1, <2>2, <2>5 DEF Found, Stamped, Expected
    <2>7. req[r].lone => /\ Content("EXTRACT_GRAPH")' = Content("EXTRACT_GRAPH")
                         /\ req[r].sum = req[r].content
                         /\ req[r].content = Content("EXTRACT_GRAPH")
      BY <1>1, Indexing DEF Content
    <2>8. req[r].lone => Place(r)'
      BY <1>2, <2>2, <2>5, <2>6, <2>7, Sources DEF Place, Readers
    <2> QED  BY <1>1, <2>2, <2>4, <2>8, OnlyRequest
  <1>3. CASE Found(r) # Expected(r)
    <2>1. req' = [req EXCEPT ![r] = Idle]  BY <1>3 DEF VerifyIndex
    <2> QED  BY <1>1, <2>1, IdleType, OnlyRequest
  <1> QED  BY <1>2, <1>3

\* The deletion keeps what has the current stamp.
LEMMA DeleteKeeps ==
  ASSUME Inv, NEW r \in Request, DeleteGeneration(r)  PROVE Inv'
  <1>1. /\ req[r].pc = "delete" /\ req[r] \in RequestState /\ Active(r) /\ req[r].stage = "GRAPH_INDEX"
        /\ published \in [Relationship -> Edge \cup {None}]
        /\ published' = [e \in Relationship |-> IF e \in Found(r) THEN published[e] ELSE None]
        /\ UNCHANGED <<final, part, config, sequential, disturbances>>
    BY Indexing DEF DeleteGeneration
  <1> DEFINE x == [req[r] EXCEPT !.pc = "commit", !.todo = req[r].todo]
  <1> x = [req[r] EXCEPT !.pc = "commit", !.todo = req[r].todo]  OBVIOUS
  <1> HIDE DEF x
  <1>2. req[r].todo \in SUBSET Relationship  BY <1>1 DEF RequestState
  <1>3. /\ x \in RequestState /\ Working(x)
        /\ x.pc = "commit" /\ x.stage = "GRAPH_INDEX" /\ x.content = req[r].content
        /\ x.sum = req[r].sum /\ x.lone = req[r].lone
    <2>1. x \in RequestState /\ x.pc = "commit" /\ x.stage = "GRAPH_INDEX" /\ x.content = req[r].content
          /\ x.sum = req[r].sum /\ x.lone = req[r].lone
      BY <1>1, <1>2 DEF RequestState, PC
    <2> QED  BY <1>1, <2>1, IndexGoesOn
  <1>4. x = [req[r] EXCEPT !.pc = "commit"]  BY <1>1 DEF RequestState
  <1>5. req' = [req EXCEPT ![r] = x]  BY <1>4 DEF DeleteGeneration, Goto
  <1>6. req'[r] = x  BY <1>5 DEF Inv, TypeOK
  <1>7. \A e \in Relationship : published'[e] = IF e \in Found(r) THEN published[e] ELSE None
    BY <1>1
  <1>8. Found(r)' = Found(r)
    BY <1>1, <1>3, <1>6, <1>7 DEF Found, Stamped
  <1>9. req[r].lone => Found(r) = Expected(r)
    BY <1>1, Indexing DEF Place
  <1>10. req[r].lone => Answered(r)'
    BY <1>1, <1>3, <1>6, <1>8, <1>9, AnsweredIndex
  <1>11. req[r].lone => Place(r)'
    BY <1>3, <1>6, <1>10 DEF Place, Readers
  <1>12. published' \in [Relationship -> Edge \cup {None}]  BY <1>1
  <1>13. sequential => \A e \in Relationship :
                         published'[e] # None => published'[e].from = published'[e].sum
    BY <1>7 DEF Inv, ProvenanceExact
  <1> QED  BY <1>1, <1>3, <1>5, <1>11, <1>12, <1>13, GraphOnly

-----------------------------------------------------------------------------
(* The steps that write. *)

LEMMA OpenPartKeeps ==
  ASSUME Inv, NEW r \in Request, OpenPart(r)  PROVE Inv'
  <1> DEFINE s == req[r].stage
             f == [data |-> Torn, writers |-> part[s].writers \cup {r},
                   docs |-> IF part[s].writers = {} THEN {req[r].doc}
                                                    ELSE part[s].docs \cup {req[r].doc}]
             x == [req[r] EXCEPT !.pc = "close"]
  <1>1. /\ req[r] \in RequestState /\ s \in Stage /\ req[r].pc = "open" /\ Active(r)
        /\ req[r].doc \in DocOf[s] /\ Working(req[r])
        /\ req[r].lone => Place(r)
    BY Shape DEF OpenPart, Working, Active
  <1>2. /\ part' = [part EXCEPT ![s] = f] /\ req' = [req EXCEPT ![r] = x]
        /\ UNCHANGED <<final, config, published, sequential, disturbances>>
    BY DEF OpenPart, Goto
  <1>3. /\ x \in RequestState /\ x.pc = "close" /\ x.content = req[r].content /\ x.doc = req[r].doc
        /\ x.sum = req[r].sum /\ x.stage = s /\ x.lone = req[r].lone
    BY <1>1 DEF RequestState, PC
  <1>4. Working(x)  BY <1>1, <1>3 DEF Working
  <1>5. part[s] \in File /\ HoldsOwn(part[s], s)  BY <1>1 DEF Inv, TypeOK
  <1>6. f \in File /\ HoldsOwn(f, s)
    BY <1>1, <1>5, Documents DEF File, HoldsOwn, Unreadable
  <1>7. part' \in [Stage -> File] /\ part'[s] = f /\ \A o \in Stage \ {s} : part'[o] = part[o]
    BY <1>1, <1>2, <1>6 DEF Inv, TypeOK
  <1>8. req'[r] = x  BY <1>2 DEF Inv, TypeOK
  <1>9. req[r].lone => part[s].writers = {}
    BY <1>1 DEF Inv, Held, Undisturbed, Active
  <1>10. req[r].lone => Place(r)'
    <2>1. req[r].lone => f.writers = {r} /\ f.docs = {req[r].doc}
      BY <1>9
    <2> HIDE DEF f, x
    <2> QED  BY <2>1, <1>1, <1>2, <1>3, <1>7, <1>8 DEF Place, Readers, Current, Content
  <1>11. /\ req' \in [Request -> RequestState] /\ \A q \in Request : Working(req'[q])
         /\ Undisturbed' /\ Alones'
         /\ req'[r] = x /\ \A q \in Request \ {r} : req'[q] = req[q]
    <2> HIDE DEF x
    <2> QED  BY <1>1, <1>2, <1>3, <1>4, <1>10, OneMoves
  <1>12. TypeOK'
    <2> HIDE DEF f, x
    <2> QED  BY <1>2, <1>6, <1>7, <1>11 DEF Inv, TypeOK
  <1>13. Held'
    <2>1. f.writers = part[s].writers \cup {r}  OBVIOUS
    <2>2. r \notin final[s].writers  BY <1>1 DEF Inv, Held
    <2> HIDE DEF f, x
    <2> QED  BY <2>1, <2>2, <1>1, <1>2, <1>3, <1>7, <1>11 DEF Inv, Held
  <1>14. ProvenanceExact'  BY <1>2 DEF Inv, ProvenanceExact, Content
  <1> QED  BY <1>11, <1>12, <1>13, <1>14 DEF Inv

\* What closing leaves in a file.
LEMMA WrittenType ==
  ASSUME NEW s \in Stage, NEW f \in File, HoldsOwn(f, s), NEW r \in Request,
         req[r].doc \in DocOf[s], NEW g \in Written(r, f)
  PROVE  /\ g \in File /\ HoldsOwn(g, s) /\ g.writers = f.writers \ {r}
         /\ f.writers = {r} /\ f.docs = {req[r].doc} => g.data = req[r].doc
  <1>1. PICK d \in Settled(r, f) : g = [Released(f, {r}) EXCEPT !.data = d]
    BY DEF Written
  <1>2. d \in DocOf[s] \cup Unreadable  BY <1>1 DEF Settled, Unreadable
  <1>3. d \in Doc \cup Unreadable  BY <1>2, Documents
  <1>4. Released(f, {r}) \in File /\ HoldsOwn(Released(f, {r}), s)
        /\ Released(f, {r}).writers = f.writers \ {r}
    BY ReleasedType
  <1>5. g \in File /\ g.data = d /\ g.writers = f.writers \ {r} /\ g.docs = Released(f, {r}).docs
    BY <1>1, <1>3, <1>4 DEF File
  <1>6. HoldsOwn(g, s)  BY <1>2, <1>4, <1>5 DEF HoldsOwn
  <1> QED  BY <1>1, <1>5, <1>6 DEF Settled

LEMMA ClosePartKeeps ==
  ASSUME Inv, NEW r \in Request, ClosePart(r)
  PROVE  /\ Inv'
         /\ \A o \in Stage \ {req[r].stage} : final'[o] = final[o]
         /\ req[r].lone => final' = final
  <1> DEFINE s == req[r].stage
             x == [req[r] EXCEPT !.pc = "replace"]
  <1>1. /\ req[r] \in RequestState /\ s \in Stage /\ req[r].pc = "close" /\ Active(r)
        /\ req[r].doc \in DocOf[s] /\ Working(req[r])
        /\ req[r].lone => Place(r)
    BY Shape DEF ClosePart, Working, Active
  <1>2. /\ req' = [req EXCEPT ![r] = x]
        /\ UNCHANGED <<config, published, sequential, disturbances>>
    BY DEF ClosePart, Goto
  <1>3. /\ x \in RequestState /\ x.pc = "replace" /\ x.content = req[r].content /\ x.doc = req[r].doc
        /\ x.sum = req[r].sum /\ x.stage = s /\ x.lone = req[r].lone
    BY <1>1 DEF RequestState, PC
  <1>4. Working(x)  BY <1>1, <1>3 DEF Working
  <1>5. /\ part[s] \in File /\ HoldsOwn(part[s], s) /\ final[s] \in File /\ HoldsOwn(final[s], s)
    BY <1>1 DEF Inv, TypeOK
  <1>6. req'[r] = x  BY <1>2 DEF Inv, TypeOK
  <1>7. req[r].lone => /\ part[s].writers = {r} /\ part[s].docs = {req[r].doc}
                       /\ r \notin final[s].writers
    BY <1>1 DEF Place, Inv, Held
  <1>8. /\ part' \in [Stage -> File] /\ final' \in [Stage -> File]
        /\ HoldsOwn(part'[s], s) /\ HoldsOwn(final'[s], s)
        /\ \A o \in Stage \ {s} : part'[o] = part[o] /\ final'[o] = final[o]
        /\ part'[s].writers = part[s].writers \ {r} /\ final'[s].writers = final[s].writers \ {r}
        /\ req[r].lone => final' = final /\ part'[s].data = req[r].doc
    <2>1. CASE r \in part[s].writers /\ \E f \in Written(r, part[s]) :
                 part' = [part EXCEPT ![s] = f] /\ final' = final
      <3>1. PICK f \in Written(r, part[s]) : part' = [part EXCEPT ![s] = f] /\ final' = final
        BY <2>1
      <3>2. /\ f \in File /\ HoldsOwn(f, s) /\ f.writers = part[s].writers \ {r}
            /\ part[s].writers = {r} /\ part[s].docs = {req[r].doc} => f.data = req[r].doc
        BY <3>1, <1>1, <1>5, WrittenType
      <3>3. r \notin final[s].writers  BY <1>1, <2>1 DEF Inv, Held
      <3> QED  BY <3>1, <3>2, <3>3, <1>1, <1>5, <1>7 DEF Inv, TypeOK
    <2>2. CASE r \in final[s].writers /\ \E f \in Written(r, final[s]) :
                 final' = [final EXCEPT ![s] = f] /\ part' = part
      <3>1. PICK f \in Written(r, final[s]) : final' = [final EXCEPT ![s] = f] /\ part' = part
        BY <2>2
      <3>2. f \in File /\ HoldsOwn(f, s) /\ f.writers = final[s].writers \ {r}
        BY <3>1, <1>1, <1>5, WrittenType
      <3>3. r \notin part[s].writers /\ ~req[r].lone  BY <1>1, <1>7, <2>2 DEF Inv, Held
      <3> QED  BY <3>1, <3>2, <3>3, <1>1, <1>5 DEF Inv, TypeOK
    <2>3. CASE r \notin part[s].writers \cup final[s].writers /\ part' = part /\ final' = final
      <3>1. ~req[r].lone  BY <1>7, <2>3
      <3> QED  BY <3>1, <2>3, <1>1, <1>5 DEF Inv, TypeOK
    <2> QED  BY <2>1, <2>2, <2>3 DEF ClosePart
  <1>9. req[r].lone => Place(r)'
    <2> HIDE DEF x
    <2> QED  BY <1>1, <1>2, <1>3, <1>6, <1>8 DEF Place, Readers, Current, Content
  <1>10. /\ req' \in [Request -> RequestState] /\ \A q \in Request : Working(req'[q])
         /\ Undisturbed' /\ Alones'
         /\ req'[r] = x /\ \A q \in Request \ {r} : req'[q] = req[q]
    <2> HIDE DEF x
    <2> QED  BY <1>1, <1>2, <1>3, <1>4, <1>9, OneMoves
  <1>11. TypeOK'
    <2> HIDE DEF x
    <2> QED  BY <1>1, <1>2, <1>8, <1>10 DEF Inv, TypeOK
  <1>12. Held'
    <2> HIDE DEF x
    <2> QED  BY <1>1, <1>8, <1>10 DEF Inv, Held
  <1>13. ProvenanceExact'
    <2>1. sequential => final' = final  BY <1>1, <1>8 DEF Inv, Undisturbed
    <2> QED  BY <2>1, <1>2 DEF Inv, ProvenanceExact, Content
  <1> QED  BY <1>8, <1>10, <1>11, <1>12, <1>13 DEF Inv

\* A file that is missing is held as it should be.
LEMMA NoFileType == NoFile \in File /\ \A s \in Stage : HoldsOwn(NoFile, s)
  BY DEF NoFile, File, HoldsOwn, Unreadable

LEMMA ReplaceKeeps ==
  ASSUME Inv, NEW r \in Request, Replace(r)
  PROVE  /\ Inv'
         /\ \A o \in Stage \ {req[r].stage} : final'[o] = final[o]
         /\ final' = final \/ (req[r].lone => final'[req[r].stage].data = req[r].doc)
  <1> DEFINE s == req[r].stage
             x == [req[r] EXCEPT !.pc = "commit"]
  <1>1. /\ req[r] \in RequestState /\ s \in Stage /\ req[r].pc = "replace" /\ Active(r)
        /\ req[r].doc \in DocOf[s] /\ Working(req[r])
        /\ req[r].lone => Place(r)
    BY Shape DEF Replace, Working, Active
  <1>2. CASE part[s].data = None
    <2>1. req' = [req EXCEPT ![r] = Idle] /\ UNCHANGED <<final, part, config, published, sequential, disturbances>>
      BY <1>2 DEF Replace
    <2> QED  BY <2>1, <1>1, IdleType, OnlyRequest
  <1>3. CASE part[s].data # None
    <2>1. /\ final' = [final EXCEPT ![s] = part[s]] /\ part' = [part EXCEPT ![s] = NoFile]
          /\ req' = [req EXCEPT ![r] = x]
          /\ UNCHANGED <<config, published, sequential, disturbances>>
      BY <1>3 DEF Replace, Goto
    <2>2. /\ x \in RequestState /\ x.pc = "commit" /\ x.content = req[r].content /\ x.doc = req[r].doc
          /\ x.sum = req[r].sum /\ x.stage = s /\ x.lone = req[r].lone
      BY <1>1 DEF RequestState, PC
    <2>3. Working(x)  BY <1>1, <2>2 DEF Working
    <2>4. part[s] \in File /\ HoldsOwn(part[s], s)  BY <1>1 DEF Inv, TypeOK
    <2>5. /\ part' \in [Stage -> File] /\ final' \in [Stage -> File]
          /\ part'[s] = NoFile /\ final'[s] = part[s]
          /\ \A o \in Stage \ {s} : part'[o] = part[o] /\ final'[o] = final[o]
      BY <2>1, <2>4, <1>1, NoFileType DEF Inv, TypeOK
    <2>6. req'[r] = x  BY <2>1 DEF Inv, TypeOK
    <2>7. ASSUME req[r].lone
          PROVE  /\ final'[s].data = req[r].doc
                 /\ final'[s].data.from = final'[s].data.sum
                 /\ Answered(r)'
      <3>1. /\ final'[s].data = req[r].doc /\ req[r].content = Content(SourceOf[s])
            /\ \E v \in Variant : req[r].doc = Made(req[r].content, req[r].content, config[s], v)
        BY <2>7, <1>1, <2>5 DEF Place, Readers
      <3>2. /\ req[r].doc.from = req[r].content /\ req[r].doc.sum = req[r].content
            /\ req[r].doc.config = config[s]
        BY <3>1 DEF Made
      <3>3. PICK o \in Stage : o = s  BY <1>1
      <3>4. Content(SourceOf[o])' = Content(SourceOf[o])
        BY <2>5, <3>3, Sources DEF Content
      <3>5. Whole(req[r].doc)  BY <1>1, Documents DEF Whole, Unreadable
      <3>6. Content(o)' = req[r].doc  BY <3>1, <3>3, Sources DEF Content
      <3>7. Current(o, Content(SourceOf[o]))'
        BY <3>1, <3>2, <3>3, <3>4, <3>5, <3>6, <2>1 DEF Current
      <3>8. o # "GRAPH_INDEX" /\ req'[r].stage = o
        BY <3>3, <2>2, <2>6, Sources
      <3>9. Answered(r)'
        <4> HIDE DEF s, x
        <4> QED  BY <3>7, <3>8 DEF Answered
      <3> QED  BY <3>1, <3>2, <3>9
    <2>8. req[r].lone => Place(r)'
      <3> HIDE DEF x
      <3> QED  BY <2>2, <2>6, <2>7 DEF Place, Readers
    <2>9. /\ req' \in [Request -> RequestState] /\ \A q \in Request : Working(req'[q])
          /\ Undisturbed' /\ Alones'
          /\ req'[r] = x /\ \A q \in Request \ {r} : req'[q] = req[q]
      <3> HIDE DEF x
      <3> QED  BY <1>1, <2>1, <2>2, <2>3, <2>8, OneMoves
    <2>10. TypeOK'
      <3> HIDE DEF x
      <3> QED  BY <1>1, <2>1, <2>4, <2>5, <2>9, NoFileType DEF Inv, TypeOK
    <2>11. Held'
      <3>1. NoFile.writers = {}  BY DEF NoFile
      <3> HIDE DEF x
      <3> QED  BY <3>1, <1>1, <2>5, <2>9 DEF Inv, Held
    <2>12. ProvenanceExact'
      <3>1. sequential => req[r].lone  BY <1>1 DEF Inv, Undisturbed
      <3>2. \A o \in Stage : Content(o)' = final'[o].data /\ Content(o) = final[o].data
        BY Sources DEF Content
      <3>3. \A o \in Stage \ {s} : Content(o)' = Content(o)
        BY <2>5, <3>2
      <3>4. req[r].lone => \A o \in Stage : o = s => Content(o)'.from = Content(o)'.sum
        BY <2>7, <3>2
      <3> HIDE DEF s
      <3> QED  BY <3>1, <3>3, <3>4, <2>1 DEF Inv, ProvenanceExact
    <2> QED  BY <2>5, <2>7, <2>9, <2>10, <2>11, <2>12 DEF Inv
  <1> QED  BY <1>2, <1>3

LEMMA RaiseKeeps ==
  ASSUME Inv, NEW r \in Request, Raise(r)
  PROVE  Inv' /\ \A s \in Stage : final'[s].data = final[s].data
  <1>1. /\ Active(r) /\ req' = [req EXCEPT ![r] = Idle]
        /\ final' = [s \in Stage |-> Released(final[s], {r})]
        /\ part' = [s \in Stage |-> Released(part[s], {r})]
        /\ disturbances < MaxDisturbances /\ disturbances' = disturbances + 1
        /\ UNCHANGED <<config, published, sequential>>
    BY DEF Raise
  <1>2. /\ final' \in [Stage -> File] /\ part' \in [Stage -> File]
        /\ \A s \in Stage : HoldsOwn(final'[s], s) /\ HoldsOwn(part'[s], s)
        /\ \A s \in Stage : /\ final'[s].data = final[s].data
                            /\ final'[s].writers = final[s].writers \ {r}
                            /\ part'[s].writers = part[s].writers \ {r}
    BY <1>1, ReleaseAll DEF Inv
  <1>3. /\ req' \in [Request -> RequestState] /\ \A q \in Request : Working(req'[q])
        /\ Undisturbed' /\ Alones'
        /\ req'[r] = Idle /\ \A q \in Request \ {r} : req'[q] = req[q]
    BY <1>1, IdleType, OneMoves
  <1>4. disturbances' \in 0..MaxDisturbances
    BY <1>1, MaxDisturbancesAssumption DEF Inv, TypeOK
  <1>5. TypeOK'  BY <1>1, <1>2, <1>3, <1>4 DEF Inv, TypeOK
  <1>6. Held'  BY <1>2, <1>3, IdleType DEF Inv, Held
  <1>7. ProvenanceExact'
    <2>1. \A s \in Stage : Content(s)' = Content(s)  BY <1>2, Sources DEF Content
    <2> QED  BY <2>1, <1>1 DEF Inv, ProvenanceExact
  <1> QED  BY <1>2, <1>3, <1>5, <1>6, <1>7 DEF Inv

LEMMA RestartKeeps ==
  ASSUME Inv, Restart
  PROVE  Inv' /\ \A s \in Stage : final'[s].data = final[s].data
  <1>1. /\ req' = [r \in Request |-> Idle]
        /\ final' = [s \in Stage |-> Released(final[s], Request)]
        /\ part' = [s \in Stage |-> Released(part[s], Request)]
        /\ disturbances < MaxDisturbances /\ disturbances' = disturbances + 1
        /\ config' \in Settings /\ UNCHANGED <<published, sequential>>
    BY DEF Restart
  <1>2. /\ final' \in [Stage -> File] /\ part' \in [Stage -> File]
        /\ \A s \in Stage : HoldsOwn(final'[s], s) /\ HoldsOwn(part'[s], s)
        /\ \A s \in Stage : /\ final'[s].data = final[s].data
                            /\ final'[s].writers = final[s].writers \ Request
                            /\ part'[s].writers = part[s].writers \ Request
    BY <1>1, ReleaseAll DEF Inv
  <1>3. \A r \in Request : req'[r] = Idle /\ ~Active(r)'
    BY <1>1, IdleType DEF Active
  <1>4. disturbances' \in 0..MaxDisturbances
    BY <1>1, MaxDisturbancesAssumption DEF Inv, TypeOK
  <1>5. TypeOK'
    <2>1. req' \in [Request -> RequestState] /\ \A r \in Request : Working(req'[r])
      BY <1>1, <1>3, IdleType
    <2> QED  BY <2>1, <1>1, <1>2, <1>4, SettingsAssumption DEF Inv, TypeOK
  <1>6. Held'
    <2>1. \A s \in Stage : part[s].writers \subseteq Request /\ final[s].writers \subseteq Request
      BY DEF Inv, Held
    <2> QED  BY <2>1, <1>2 DEF Held
  <1>7. Undisturbed' /\ Alones'  BY <1>3 DEF Undisturbed, Alones
  <1>8. ProvenanceExact'
    <2>1. \A s \in Stage : Content(s)' = Content(s)  BY <1>2, Sources DEF Content
    <2> QED  BY <2>1, <1>1 DEF Inv, ProvenanceExact
  <1> QED  BY <1>2, <1>5, <1>6, <1>7, <1>8 DEF Inv

LEMMA StartKeeps ==
  ASSUME Inv, NEW r \in Request, NEW s \in Operation, Start(r, s)  PROVE Inv'
  <1> DEFINE x == [Idle EXCEPT !.pc = "read", !.stage = s, !.lone = Alone]
  <1>1. /\ ~Active(r) /\ (Alone \/ (~sequential /\ disturbances < MaxDisturbances))
        /\ disturbances' = disturbances + IF Alone THEN 0 ELSE 1
        /\ req' = [q \in Request |-> IF q = r THEN x ELSE [req[q] EXCEPT !.lone = FALSE]]
        /\ UNCHANGED <<final, part, config, published, sequential>>
    BY DEF Start
  <1>2. req \in [Request -> RequestState] /\ \A q \in Request : Working(req[q])
    BY DEF Inv, TypeOK
  <1>3. /\ x \in RequestState /\ x.pc = "read" /\ x.stage = s /\ x.lone = Alone
    BY DEF Idle, RequestState, PC, Unreadable, Alone
  <1>4. Working(x)  BY <1>3 DEF Working
  <1>5. req'[r] = x /\ \A q \in Request \ {r} : req'[q] = [req[q] EXCEPT !.lone = FALSE]
    BY <1>1
  <1>6. \A q \in Request \ {r} :
          /\ req'[q] \in RequestState /\ ~req'[q].lone
          /\ req'[q].pc = req[q].pc /\ req'[q].stage = req[q].stage /\ req'[q].sum = req[q].sum
          /\ req'[q].content = req[q].content /\ req'[q].doc = req[q].doc
    <2> SUFFICES ASSUME NEW q \in Request \ {r}
                 PROVE  /\ req'[q] \in RequestState /\ ~req'[q].lone
                        /\ req'[q].pc = req[q].pc /\ req'[q].stage = req[q].stage
                        /\ req'[q].sum = req[q].sum
                        /\ req'[q].content = req[q].content /\ req'[q].doc = req[q].doc
      OBVIOUS
    <2>1. req[q] \in RequestState /\ req'[q] = [req[q] EXCEPT !.lone = FALSE]
      BY <1>2, <1>5
    <2> QED  BY <2>1 DEF RequestState
  <1> HIDE DEF x
  <1>7. req' \in [Request -> RequestState]
    BY <1>1, <1>3, <1>5, <1>6
  <1>8. \A q \in Request : Working(req'[q])
    BY <1>2, <1>4, <1>5, <1>6 DEF Working
  <1>9. disturbances' \in 0..MaxDisturbances
    <2>1. CASE Alone  BY <2>1, <1>1 DEF Inv, TypeOK
    <2>2. CASE ~Alone  BY <2>2, <1>1, MaxDisturbancesAssumption DEF Inv, TypeOK
    <2> QED  BY <2>1, <2>2
  <1>10. TypeOK'  BY <1>1, <1>7, <1>8, <1>9 DEF Inv, TypeOK
  <1>11. Held'
    <2>1. req[r].pc = "idle"  BY DEF Start, Active
    <2>2. \A o \in Stage :
             {q \in Request : req[q].pc = "close" /\ req[q].stage = o}
               \subseteq {q \in Request : req'[q].pc = "close" /\ req'[q].stage = o}
      BY <2>1, <1>6
    <2> QED  BY <2>2, <1>1 DEF Inv, Held
  <1>12. Alones'
    <2>1. Place(r)'  BY <1>3, <1>5 DEF Place, Readers
    <2> QED  BY <2>1, <1>6 DEF Alones
  <1>13. Undisturbed'
    <2>1. \A q \in Request \ {r} : Active(q)' <=> Active(q)  BY <1>6 DEF Active
    <2>2. Alone => \A q \in Request : ~Active(q)  BY DEF Alone
    <2>3. Alone \in BOOLEAN  BY DEF Alone
    <2> QED  BY <2>1, <2>2, <2>3, <1>1, <1>3, <1>5, <1>6 DEF Undisturbed
  <1>14. ProvenanceExact'  BY <1>1 DEF Inv, ProvenanceExact, Content
  <1> QED  BY <1>10, <1>11, <1>12, <1>13, <1>14 DEF Inv

-----------------------------------------------------------------------------
(* The theorems. *)

\* The invariant holds at first.
LEMMA InitOK == Init => Inv
  <1> SUFFICES ASSUME Init  PROVE Inv
    OBVIOUS
  <1>1. \A r \in Request : req[r] = Idle /\ ~Active(r)  BY IdleType DEF Init, Active
  <1>2. \A s \in Stage : final[s] = NoFile /\ part[s] = NoFile  BY DEF Init
  <1>3. TypeOK
    <2>1. req \in [Request -> RequestState] /\ \A r \in Request : Working(req[r])
      BY <1>1, IdleType DEF Init
    <2>2. /\ final \in [Stage -> File] /\ part \in [Stage -> File]
          /\ \A s \in Stage : HoldsOwn(final[s], s) /\ HoldsOwn(part[s], s)
      BY <1>2, NoFileType DEF Init
    <2> QED  BY <2>1, <2>2, SettingsAssumption, MaxDisturbancesAssumption DEF Init, TypeOK
  <1>4. Held  BY <1>2 DEF Held, NoFile
  <1>5. Undisturbed /\ Alones  BY <1>1 DEF Undisturbed, Alones
  <1>6. ProvenanceExact
    <2>1. \A s \in Stage : ~Whole(Content(s))  BY <1>2, Sources DEF Content, NoFile, Whole
    <2> QED  BY <2>1 DEF Init, ProvenanceExact
  <1> QED  BY <1>3, <1>4, <1>5, <1>6 DEF Inv

\* Every step keeps the invariant.
LEMMA NextOK == Inv /\ [Next]_vars => Inv'
  <1> SUFFICES ASSUME Inv, [Next]_vars  PROVE Inv'
    OBVIOUS
  <1>1. ASSUME NEW r \in Request, NEW s \in Operation, Start(r, s)  PROVE Inv'
    BY <1>1, StartKeeps
  <1>2. ASSUME NEW r \in Request, Step(r)  PROVE Inv'
    BY <1>2, ReadSourceKeeps, HashSourceKeeps, ReconcileKeeps, OpenPartKeeps, ClosePartKeeps,
       ReplaceKeeps, CompareKeeps, UpsertKeeps, VerifyKeeps, DeleteKeeps, AnswerKeeps
       DEF Step, Reconciles
  <1>3. ASSUME NEW r \in Request, Raise(r)  PROVE Inv'
    BY <1>3, RaiseKeeps
  <1>4. CASE Restart  BY <1>4, RestartKeeps
  <1>5. CASE UNCHANGED vars
    <2> USE <1>5 DEF vars
    <2>1. TypeOK'  BY DEF Inv, TypeOK
    <2>2. Held'  BY DEF Inv, Held
    <2>3. Undisturbed' BY DEF Inv, Undisturbed, Active
    <2>4. Alones'
      <3> SUFFICES ASSUME NEW r \in Request, Active(r)', req'[r].lone  PROVE Place(r)'
        BY DEF Alones
      <3>1. Place(r)  BY DEF Inv, Alones, Active
      <3>2. /\ Found(r)' = Found(r) /\ Expected(r)' = Expected(r)
            /\ \A s : Content(s)' = Content(s)
        BY DEF Found, Stamped, Expected, Content
      <3>4. Answered(r)' = Answered(r)
        BY DEF Answered, Current, Content, Stamped
      <3> QED  BY <3>1, <3>2, <3>4 DEF Place, Readers, Current
    <2>5. ProvenanceExact'  BY DEF Inv, ProvenanceExact, Content
    <2> QED  BY <2>1, <2>2, <2>3, <2>4, <2>5 DEF Inv
  <1> QED  BY <1>1, <1>2, <1>3, <1>4, <1>5 DEF Next

\* The inductive invariant: types, who holds a handle, who has company, and
\* what a request that runs alone knows of its source and its file.
THEOREM InvariantHolds == Spec => []Inv
  <1> QED  BY InitOK, NextOK, PTL DEF Spec

\* TypeOK: no request works on a missing or unreadable source, and no file
\* ever holds another stage's artifact, whoever overlaps with whom.
THEOREM TypeCorrect == Spec => []TypeOK
  <1>1. Inv => TypeOK  BY DEF Inv
  <1> QED  BY <1>1, InvariantHolds, PTL

\* ProvenanceExact: with callers that wait, an artifact and the published graph
\* are made from the very file whose checksum they carry.
THEOREM ProvenanceCorrect == Spec => []ProvenanceExact
  <1>1. Inv => ProvenanceExact  BY DEF Inv
  <1> QED  BY <1>1, InvariantHolds, PTL

\* LoneAnswerIsCurrent: whatever happened before, a request that ran alone
\* answers with a complete artifact that is current.
THEOREM LoneAnswerCorrect == Spec => []LoneAnswerIsCurrent
  <1>1. Inv => LoneAnswerIsCurrent
    <2> SUFFICES ASSUME Inv, NEW r \in Request, req[r].pc = "commit", req[r].lone
                 PROVE  Answered(r)
      BY DEF LoneAnswerIsCurrent, Answered, Current
    <2>1. Active(r)  BY DEF Active
    <2> QED  BY <2>1 DEF Inv, Alones, Place
  <1> QED  BY <1>1, InvariantHolds, PTL

\* ImplementsLineage: the services implement ArtifactLineage, with what is
\* readable at the final paths for its artifacts.
THEOREM LineageImplemented == Spec => ImplementsLineage
  <1> DEFINE have == [s \in Stage |-> Content(s)]
  <1>1. \A s \in Stage : Content(s) = final[s].data /\ Content(s)' = final'[s].data
    BY Sources DEF Content
  <1>2. Init => Promise!LineageInit
    <2> SUFFICES ASSUME Init  PROVE Promise!LineageInit
      OBVIOUS
    <2>1. \A s \in Stage : Content(s) = None  BY <1>1 DEF Init, NoFile
    <2>2. have = [s \in Stage |-> None]  BY <2>1
    <2>3. Promise!Stage = Stage  BY DEF Promise!Stage, Stage
    <2>4. config \in [Operation -> Config]  BY SettingsAssumption DEF Init
    <2>5. [s \in Stage |-> config[s]] \in [Stage -> Config]  BY <2>4, Sources
    <2> QED  BY <2>2, <2>3, <2>5 DEF Init, Promise!LineageInit
  <1>3. Inv /\ [Next]_vars => [Promise!LineageNext]_(Promise!lineageVars)
    <2> SUFFICES ASSUME Inv, [Next]_vars  PROVE [Promise!LineageNext]_(Promise!lineageVars)
      OBVIOUS
    <2>1. Promise!Stage = Stage  BY DEF Promise!Stage, Stage
    <2>2. ASSUME \A s \in Stage : final'[s].data = final[s].data, sequential' = sequential,
                 config' \in [Operation -> Config] \/ config' = config
          PROVE  [Promise!LineageNext]_(Promise!lineageVars)
      <3>1. have' = have  BY <2>2, <1>1
      <3>2. \/ [s \in Stage |-> config'[s]] \in [Stage -> Config]
            \/ [s \in Stage |-> config'[s]] = [s \in Stage |-> config[s]]
        BY <2>2, Sources
      <3> QED  BY <3>1, <3>2, <2>1, <2>2
               DEF Promise!LineageNext, Promise!lineageVars, Promise!Reconfigure
    <2>3. ASSUME NEW s \in Stage, ~sequential, UNCHANGED <<config, sequential>>,
                 \A o \in Stage \ {s} : final'[o] = final[o]
          PROVE  [Promise!LineageNext]_(Promise!lineageVars)
      <3>1. \A o \in Stage \ {s} : have'[o] = have[o]  BY <2>3, <1>1
      <3>2. DOMAIN have' = Stage  OBVIOUS
      <3> HIDE DEF have
      <3>3. Promise!Disturb(s)
        BY <3>1, <3>2, <2>1, <2>3 DEF Promise!Disturb, have
      <3> QED  BY <3>3, <2>1 DEF Promise!LineageNext
    <2> HIDE DEF have
    <2>4. ASSUME NEW r \in Request, NEW s \in Operation, Start(r, s)
          PROVE  [Promise!LineageNext]_(Promise!lineageVars)
      BY <2>2, <2>4 DEF Start
    <2>5. ASSUME NEW r \in Request, ClosePart(r)
          PROVE  [Promise!LineageNext]_(Promise!lineageVars)
      <3>1. UNCHANGED <<config, sequential>> /\ req[r].pc = "close"  BY <2>5 DEF ClosePart
      <3>2. Active(r) /\ req[r].stage \in Stage  BY <3>1, Shape DEF Working, Active
      <3>3. CASE req[r].lone  BY <3>1, <3>3, <2>2, <2>5, ClosePartKeeps
      <3>4. CASE ~req[r].lone
        <4>1. ~sequential  BY <3>2, <3>4 DEF Inv, Undisturbed
        <4>2. \A o \in Stage \ {req[r].stage} : final'[o] = final[o]  BY <2>5, ClosePartKeeps
        <4> QED  BY <4>1, <4>2, <3>1, <3>2, <2>3
      <3> QED  BY <3>3, <3>4
    <2>6. ASSUME NEW r \in Request, Replace(r)
          PROVE  [Promise!LineageNext]_(Promise!lineageVars)
      <3>1. UNCHANGED <<config, sequential>> /\ req[r].pc = "replace"  BY <2>6 DEF Replace
      <3>2. Active(r) /\ req[r].stage \in Stage /\ req[r].content \in DocOf[SourceOf[req[r].stage]]
        BY <3>1, Shape DEF Working, Active
      <3>3. /\ \A o \in Stage \ {req[r].stage} : final'[o] = final[o]
            /\ final' = final \/ (req[r].lone => final'[req[r].stage].data = req[r].doc)
        BY <2>6, ReplaceKeeps
      <3>4. CASE final' = final  BY <3>1, <3>4, <2>2
      <3>5. CASE ~req[r].lone
        <4>1. ~sequential  BY <3>2, <3>5 DEF Inv, Undisturbed
        <4> QED  BY <4>1, <3>1, <3>2, <3>3, <2>3
      <3>6. CASE req[r].lone /\ final'[req[r].stage].data = req[r].doc
        <4>1. PICK s \in Stage : s = req[r].stage  BY <3>2
        <4> DEFINE g == Content(SourceOf[s])
        <4>2. /\ ~Current(s, g)
              /\ \E v \in Variant : req[r].doc = Made(g, g, config[s], v)
          BY <3>1, <3>2, <3>6, <4>1, Shape DEF Place, Readers
        <4>3. Whole(g)
          <5>1. req[r].content = g  BY <3>1, <3>2, <3>6, <4>1, Shape DEF Place, Readers
          <5>2. SourceOf[s] \in Stage \cup {"PDF"}  BY Sources
          <5> QED  BY <5>1, <5>2, <3>2, <4>1, Documents DEF Whole, Unreadable
        <4>4. Promise!Given(s) = g
          <5>1. Promise!SourceOf[s] = SourceOf[s]  BY DEF Promise!SourceOf, SourceOf, Stage
          <5>2. SourceOf[s] # "PDF" => SourceOf[s] \in Stage  BY Sources
          <5> QED  BY <5>1, <5>2 DEF Promise!Given, Content
        <4>5. ~Promise!UpToDate(s)
          BY <4>2, <4>4 DEF Promise!UpToDate, Promise!Whole, Current, Whole
        <4>6. \E v \in Variant : have' = [have EXCEPT ![s] = Promise!Made(g, g, config[s], v)]
          <5>1. PICK v \in Variant : req[r].doc = Made(g, g, config[s], v)  BY <4>2
          <5>2. Promise!Made(g, g, config[s], v) = Made(g, g, config[s], v)
            BY DEF Promise!Made, Made
          <5>3. have' = [have EXCEPT ![s] = req[r].doc]
            BY <3>3, <3>6, <4>1, <1>1 DEF have
          <5> QED  BY <5>1, <5>2, <5>3
        <4>7. Promise!Rebuild(s)
          BY <3>1, <4>3, <4>4, <4>5, <4>6 DEF Promise!Rebuild, Promise!Whole, Whole, have
        <4> QED  BY <4>7, <2>1 DEF Promise!LineageNext
      <3> QED  BY <3>3, <3>4, <3>5, <3>6
    <2>7. ASSUME NEW r \in Request, Step(r)
          PROVE  [Promise!LineageNext]_(Promise!lineageVars)
      <3>1. CASE ReadSource(r)  BY <3>1, <2>2 DEF ReadSource
      <3>2. CASE HashSource(r)  BY <3>2, <2>2 DEF HashSource
      <3>3. CASE Reconciles(r)
        BY <3>3, <2>2 DEF Reconciles, ReconcileExistingParse, ReconcileExistingChunks,
                          ReconcileExistingExtraction, Decide
      <3>4. CASE OpenPart(r)  BY <3>4, <2>2 DEF OpenPart
      <3>5. CASE \/ ReconcileExistingIndex(r) \/ UpsertEdge(r) \/ VerifyIndex(r)
               \/ DeleteGeneration(r)
        BY <3>5, <2>2 DEF ReconcileExistingIndex, UpsertEdge, VerifyIndex, DeleteGeneration
      <3>6. CASE Answer(r)  BY <3>6, <2>2 DEF Answer
      <3> QED  BY <3>1, <3>2, <3>3, <3>4, <3>5, <3>6, <2>5, <2>6, <2>7 DEF Step, Reconciles
    <2>8. ASSUME NEW r \in Request, Raise(r)
          PROVE  [Promise!LineageNext]_(Promise!lineageVars)
      BY <2>8, <2>2, RaiseKeeps DEF Raise
    <2>9. CASE Restart
      BY <2>9, <2>2, RestartKeeps, SettingsAssumption DEF Restart
    <2>10. CASE UNCHANGED vars  BY <2>10, <2>2 DEF vars
    <2> QED  BY <2>4, <2>7, <2>8, <2>9, <2>10 DEF Next
  <1> QED  BY <1>2, <1>3, InvariantHolds, PTL DEF Spec, ImplementsLineage, Promise!Lineage
=============================================================================
