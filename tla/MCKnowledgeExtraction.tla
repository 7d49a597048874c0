------------------------ MODULE MCKnowledgeExtraction ------------------------
EXTENDS KnowledgeExtraction

\* A block is given by the lengths of its sentences; its words are numbered through
\* the document, from base on.
Heading(type) == [heading |-> type, mark |-> type, lengths |-> <<>>]
Paragraph(lengths) == [heading |-> None, mark |-> None, lengths |-> lengths]
Running(mark) == [heading |-> None, mark |-> mark, lengths |-> <<1>>]

Sum(lengths) == FoldLeft(LAMBDA a, b : a + b, 0, lengths)

Numbered(pages, base) ==
    LET Words(blocks) == Sum([i \in DOMAIN blocks |-> Sum(blocks[i].lengths)])
        From(i, k) == base + Words(FlattenSeq(SubSeq(pages, 1, i - 1)))
                           + Words(SubSeq(pages[i], 1, k - 1))
        Sentence(from, lengths, n) ==
            [w \in 1..lengths[n] |-> from + Sum(SubSeq(lengths, 1, n - 1)) + w]
        Placed(i, k) == [heading |-> pages[i][k].heading,
                         mark |-> IF pages[i][k].mark = None THEN ToString(<<base, i, k>>)
                                  ELSE pages[i][k].mark,
                         sentences |-> [n \in DOMAIN pages[i][k].lengths |->
                                           Sentence(From(i, k), pages[i][k].lengths, n)]]
    IN  [i \in DOMAIN pages |-> [k \in DOMAIN pages[i] |-> Placed(i, k)]]

\* A title, a running header and footer, a section over two pages, a heading without
\* text, a section the LLM is not asked about, references.
Article ==
    << <<Running("title #"), Paragraph(<<2>>), Heading("introduction"), Paragraph(<<3>>), Running("#")>>,
       <<Running("title #"), Paragraph(<<2, 1>>), Heading("related_work"), Running("#")>>,
       <<Running("title #"), Heading("limitations"), Paragraph(<<1>>), Heading("references"),
         Paragraph(<<2, 2, 2>>), Paragraph(<<2>>), Running("#")>> >>

\* One page without headings.
Note == << <<Paragraph(<<2>>)>> >>

\* A page with no text at all; a document whose only heading has no text.
Scan == << <<>> >>
Bare == << <<Heading("limitations")>> >>

Lengths == {1, 2, 3, 6}
ParagraphShapes == {<<i>> : i \in Lengths} \cup (Lengths \X Lengths)
SectionShapes == {<<Paragraph(a)>> : a \in ParagraphShapes}
                 \cup {<<Paragraph(a), Paragraph(b)>> : a, b \in ParagraphShapes}

\* Two pages that share a line, which is no running header; references in one chunk.
Letter == << <<Running("letter #"), Heading("limitations"), Paragraph(<<1>>)>>,
             <<Running("letter #"), Paragraph(<<2>>), Heading("references"), Paragraph(<<2, 2>>)>> >>

\* A heading that begins some pages and not enough of them to be a running header.
Chapter == [heading |-> "limitations", mark |-> "limitations", lengths |-> <<>>]
Report == << <<Paragraph(<<2>>)>>, <<Chapter, Paragraph(<<1>>)>>, <<Paragraph(<<2>>)>>,
             <<Chapter, Paragraph(<<1, 1>>)>>, <<Chapter, Paragraph(<<2>>)>>, <<Paragraph(<<1>>)>> >>

Texts(first, second) == ("p1" :> Numbered(first, 0)) @@ ("p2" :> Numbered(second, 100))

PdfChoices ==
    {Texts(Article, Note), Texts(Letter, Bare), Texts(Report, Scan)}
    \cup {Texts(<< <<Heading("limitations")>> \o section >>, Scan) : section \in SectionShapes}

Blocks == UNION {Range(page) : page \in UNION {Range(f[p]) : f \in PdfChoices, p \in Paper}}
Words == 1..200

\* In Article: the second, fourth and sixth words of the references, and one of the
\* limitations.  In Letter: the second and fourth words of the references.
ArxivIds == (14 :> "p2") @@ (16 :> "p2") @@ (18 :> "p3") @@ (20 :> "p2")
            @@ (7 :> "p2") @@ (9 :> "p3")

\* The words of Letter that open an entry.  In Article none does: a chunk that is packed
\* of several units is one line.  With fewer than two of these a text is one entry.
Openings == {6, 8}

FirstIdsIn(text) ==
    LET opened == {i \in DOMAIN text : text[i] \in Openings}
        starts == IF Cardinality(opened) < 2 THEN {1} ELSE opened
        Entry(i) == {j \in DOMAIN text : j >= i /\ \A s \in starts : ~(i < s /\ s <= j)}
        Ids(i) == {j \in Entry(i) : text[j] \in DOMAIN ArxivIds}
    IN  {text[Min(Ids(i))] : i \in {s \in starts : Ids(s) # {}}}

Keys == [n \in {"GraphRAG", "graphrag", "Graph RAG", "SQuAD", "QA", "Ada", "ada", "A Survey", ""} |->
            CASE n \in {"GraphRAG", "graphrag"} -> "graphrag"
              [] n \in {"Ada", "ada"} -> "ada"
              [] OTHER -> n]

Registry == <<"method", "Graph RAG">> :> "GraphRAG"

AuthorNames == [p \in Paper |-> IF p = "p1" THEN <<"Ada", "ada">> ELSE <<>>]

Named(type, name, confidence) == [type |-> type, name |-> name, confidence |-> confidence]
Says(type, source, target, name, usage, confidence) ==
    [type |-> type, source |-> source, target |-> target, name |-> name, usage |-> usage,
     confidence |-> confidence]
Uses(name, confidence) == Says("uses_method", "paper", "method", name, "used_by_this_paper", confidence)

Nothing == [entities |-> <<>>, relationships |-> <<>>]
Plain == [entities |-> <<Named("method", "GraphRAG", 9)>>,
          relationships |-> <<Uses("graphrag", 6),
                              Says("evaluated_on", "paper", "dataset", "SQuAD", "mentioned_only", 9)>>]
Variant == [entities |-> <<Named("method", "Graph RAG", 7), Named("author", "Ada", 5)>>,
            relationships |-> <<Uses("Graph RAG", 8), Uses("graphrag", 3),
                                Says("addresses", "paper", "task", "QA", None, 10)>>]
Beyond == [entities |-> <<Named("gene", "QA", 5), Named("task", "", 5)>>,
           relationships |-> <<Says("cites", "paper", "paper", "A Survey", None, 7),
                               Says("authored_by", "paper", "author", "ada", None, 4),
                               Says("uses_method", "method", "paper", "GraphRAG", "used_by_this_paper", 5),
                               Says("addresses", "paper", "task", "", None, 5),
                               Uses("GraphRAG", 11)>>]

Answers == [t \in Semantic |-> IF t = "introduction" THEN {Nothing, Plain, Variant, Beyond}
                               ELSE {Variant}]
=============================================================================
