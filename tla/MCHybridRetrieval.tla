-------------------------- MODULE MCHybridRetrieval --------------------------
EXTENDS HybridRetrieval, FiniteSets

\* Papers 1 to 3, a method and a dataset of one name, an author, a task.
Types == <<"paper", "paper", "paper", "method", "dataset", "author", "task">>
Names == <<"first", "second", "third", "bert", "bert", "ada", "parsing">>
Aliases == [tn \in {<<"method", "BERT model">>} |-> "bert"]

\* Paper 1 has two versions, a and b.
Versions == <<"a", "a", "b", "c">>

Fact(s, t, o, conf, primary, supporting, v) ==
    [source |-> s, type |-> t, target |-> o, confidence |-> conf, primary |-> primary,
     supporting |-> supporting, version |-> v, gen |-> 1]

Cites12 == Fact(1, "cites", 2, 1, 2, {}, "a")
Cites21 == Fact(2, "cites", 1, 1, 4, {4}, "c")
Uses14a == Fact(1, "uses_method", 4, 1, 1, {1, 2}, "a")
Uses14b == Fact(1, "uses_method", 4, 0, 3, {3}, "b")
Uses24 == Fact(2, "uses_method", 4, 1, 4, {4}, "c")
Eval15 == Fact(1, "evaluated_on", 5, 1, 2, {2}, "a")
Eval25 == Fact(2, "evaluated_on", 5, 0, 4, {4}, "c")
Written == Fact(1, "authored_by", 6, 1, None, {}, "a")
Solves == Fact(1, "addresses", 7, 1, 1, {1}, "a")
Cites23 == Fact(2, "cites", 3, 1, 4, {}, "c")
CitesItself == Fact(1, "cites", 1, 1, 1, {}, "a")

AllFacts == {Cites12, Cites21, Cites23, Uses14a, Uses14b, Uses24, Eval15, Eval25, Written, Solves,
             CitesItself}

\* Everything indexed; and version a not, b and c being so.
AllStores ==
    {[point |-> <<1, 1, None, 1>>, nodes |-> 1..7, edges |-> AllFacts \ {Uses14b, CitesItself}],
     [point |-> <<None, 2, 1, 1>>, nodes |-> {1, 2, 4, 5}, edges |-> {Uses14b, Uses24, Eval25, Cites21}]}

Plain == [endpoint |-> "graph", strategy |-> "hybrid", top |-> None, vectorTop |-> None,
          op |-> None, entity |-> None, type |-> None, name |-> None, depth |-> None,
          limit |-> None, filter |-> None]

StartOf(op) ==
    CASE op = "papers_for_method" -> 4
      [] op \in {"papers_for_dataset", "methods_for_dataset"} -> 5
      [] op = "papers_for_task" -> 7
      [] OTHER -> 1

OnGraph(op, n) == [Plain EXCEPT !.op = op, !.entity = n]

Searches == {[OnGraph(op, StartOf(op)) EXCEPT !.limit = l, !.depth = d] :
               op \in Operation, l \in {1, None}, d \in {2, None}}

Named == {[Plain EXCEPT !.op = "papers_for_method", !.type = t, !.name = n] :
            t \in {None, "method"}, n \in {None, "bert", "BERT model", "ada"}}

Retrieving(op) == [OnGraph(op, StartOf(op)) EXCEPT !.endpoint = "retrieve"]

Retrievals ==
    {[Retrieving(op) EXCEPT !.strategy = s, !.top = k] :
       op \in {"paper_methods", "paper_authors", "datasets_from_citing_papers",
               "citation_neighborhood"}, s \in {"hybrid", "graph"}, k \in {2, None}}
    \cup {[Plain EXCEPT !.endpoint = e, !.strategy = "vector", !.filter = f, !.vectorTop = 1] :
            e \in {"vector", "retrieve"}, f \in {None, {2, 3}}}

Wrong == {[Retrieving("paper_methods") EXCEPT !.top = 0],
          [Retrieving("paper_methods") EXCEPT !.vectorTop = 9],
          [Retrieving("paper_methods") EXCEPT !.strategy = "graph", !.filter = {1}],
          [Plain EXCEPT !.endpoint = "retrieve"],
          [OnGraph("paper_methods", 1) EXCEPT !.limit = 0],
          [OnGraph("paper_methods", 9) EXCEPT !.limit = 1],
          [OnGraph("citation_neighborhood", 1) EXCEPT !.depth = 3]}

Calls == Searches \cup Named \cup Retrievals \cup Wrong

\* A paper that cites itself, and its neighbourhood.
SelfCiting == {[point |-> <<1, 1, None, 1>>, nodes |-> 1..7, edges |-> {Cites12, CitesItself}]}
Neighbours == {[Retrieving("citation_neighborhood") EXCEPT !.top = 4]}

\* One chunk found by both branches, while version a is indexed again.
Both == {[Retrieving("paper_methods") EXCEPT !.top = 4]}

\* Any numbers for the ids of the evidence of a request: its digits, in base 8.
TypeRank(t) == CASE t = "authored_by" -> 1 [] t = "cites" -> 2 [] t = "uses_method" -> 3
                 [] t = "evaluated_on" -> 4 [] t = "addresses" -> 5
Number(id) ==
    LET digits == IF id[1] = "text" THEN <<id[2], id[3]>>
                  ELSE <<1>> \o id[2] \o FlattenSeq([i \in DOMAIN id[3] |->
                                                     <<id[3][i][1], TypeRank(id[3][i][2]), id[3][i][3]>>])
    IN  FoldLeft(LAMBDA n, d : n * 8 + d, 0, digits)
=============================================================================
