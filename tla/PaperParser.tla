----------------------------- MODULE PaperParser -----------------------------
(***************************************************************************)
(* What PyMuPDFParser makes of the text of a PDF: running headers and      *)
(* footers are removed, then the blocks that follow a heading become its   *)
(* section.                                                                *)
(*                                                                         *)
(* A page is a sequence of blocks.  A block is a heading, or a paragraph,  *)
(* which is a sequence of sentences, and a sentence a sequence of words.   *)
(* The mark of a block is its line folded for comparison, digits as "#":   *)
(* what two pages of a document can have in common.  How lines are cleaned *)
(* and how a heading is told from text is left out.                        *)
(***************************************************************************)
EXTENDS SequencesExt, Ordering

CONSTANTS Word,      \* what the text of papers is made of
          Block,     \* [heading, mark, sentences]: the blocks of their pages
          NoHeading  \* the heading of a paragraph

\* A heading has no text of its own; blank paragraphs and sentences are no text.
ASSUME BlockAssumption ==
    \A b \in Block : /\ b.sentences \in Seq(Seq(Word) \ {<<>>})
                     /\ b.heading = NoHeading <=> b.sentences # <<>>

WordsOf(blocks) == FlattenSeq([i \in DOMAIN blocks |-> FlattenSeq(blocks[i].sentences)])

\* min_page_count and min_repeat_ratio (60 %, rounded to the nearest page).
MinPageCount == 3
Threshold(pages) ==
    LET share == (6 * Len(pages) + 5) \div 10
    IN  IF share > MinPageCount THEN share ELSE MinPageCount

\* The marks that Line finds on enough of the pages that have any text.
Repeated(pages, Line(_)) ==
    LET On(mark) == {i \in DOMAIN pages : pages[i] # <<>> /\ Line(pages[i]).mark = mark}
        marks == {Line(pages[i]).mark : i \in {j \in DOMAIN pages : pages[j] # <<>>}}
    IN  IF Len(pages) < MinPageCount THEN {}
        ELSE {mark \in marks : Cardinality(On(mark)) >= Threshold(pages)}

\* _clean_pages: the first line goes if it is a header, then the last if it is a footer;
\* a page of one line loses it for either.
CleanPages(pages) ==
    LET headers == Repeated(pages, Head)
        footers == Repeated(pages, Last)
        WithoutHeader(page) ==
            IF page # <<>> /\ Head(page).mark \in headers THEN Tail(page) ELSE page
        Clean(page) ==
            IF page # <<>> /\ WithoutHeader(page) # <<>> /\ Last(page).mark \in footers
            THEN Front(WithoutHeader(page)) ELSE WithoutHeader(page)
    IN  [i \in DOMAIN pages |-> Clean(pages[i])]

\* recover_sections: what precedes the first heading is dropped, and so is a heading
\* without text; a document without headings is one section.
RecoverSections(pages) ==
    LET blocks == FlattenSeq(pages)
        Body(first) == LET after == SubSeq(blocks, first + 1, Len(blocks))
                           next == {i \in DOMAIN after : after[i].heading # NoHeading}
                       IN  SubSeq(after, 1, (IF next = {} THEN Len(after) + 1 ELSE Min(next)) - 1)
        Section(i) == [type |-> blocks[i].heading, blocks |-> Body(i)]
        headings == Ascending({i \in DOMAIN blocks : blocks[i].heading # NoHeading})
        all == IF headings = <<>> THEN <<[type |-> "other", blocks |-> blocks]>>
               ELSE [i \in DOMAIN headings |-> Section(headings[i])]
    IN  Picked(all, {section \in Range(all) : WordsOf(section.blocks) # <<>>})

-----------------------------------------------------------------------------
\* What must never be lost: the words of a line that no three pages begin or end with,
\* when a heading of that kind precedes it, or when no heading follows it at all.
WordsToKeep(pages) ==
    LET blocks == FlattenSeq(pages)
        Ends(page) == {Head(page).mark, Last(page).mark}
        Running(mark) == Cardinality({i \in DOMAIN pages : pages[i] # <<>> /\ mark \in Ends(pages[i])})
                             >= MinPageCount
        own == {i \in DOMAIN blocks : ~Running(blocks[i].mark)}
        headings == {i \in DOMAIN blocks : blocks[i].heading # NoHeading}
        Kept(i) == \/ \E j \in own \cap headings : j < i
                   \/ \A j \in headings : j <= i
    IN  UNION {Range(WordsOf(<<blocks[i]>>)) : i \in {j \in own : Kept(j)}}
=============================================================================
