---------------------------- MODULE SectionChunker ----------------------------
(***************************************************************************)
(* SectionAwareChunker, on the sections that the parser recovers.          *)
(*                                                                         *)
(* The words of a document are distinct, so that what a chunk repeats or   *)
(* loses can be told.  The length of a text is the number of its words, as *)
(* WhitespaceTokenCounter counts them.                                     *)
(***************************************************************************)
EXTENDS PaperParser

CONSTANTS ChunkSize,  \* CHUNK_SIZE_TOKENS
          Overlap,    \* CHUNK_OVERLAP_TOKENS
          MinTokens   \* MIN_CHUNK_TOKENS

ASSUME SizesAssumption == ChunkSize \in Nat \ {0} /\ Overlap \in Nat /\ MinTokens \in Nat

Size(texts) == Len(FlattenSeq(texts))

\* _split_by_words: pieces of the chunk size, the last one what remains.
SplitByWords(sentence) ==
    LET pieces == (Len(sentence) + ChunkSize - 1) \div ChunkSize
        End(i) == IF i * ChunkSize < Len(sentence) THEN i * ChunkSize ELSE Len(sentence)
    IN  [i \in 1..pieces |-> SubSeq(sentence, (i - 1) * ChunkSize + 1, End(i))]

\* The units that are packed: paragraphs, else sentences, else groups of words.
UnitsOf(section) ==
    LET Sentence(s) == IF Len(s) <= ChunkSize THEN <<s>> ELSE SplitByWords(s)
        Paragraph(p) == IF Size(p) <= ChunkSize THEN <<FlattenSeq(p)>>
                        ELSE FlattenSeq([i \in DOMAIN p |-> Sentence(p[i])])
    IN  FlattenSeq([i \in DOMAIN section |-> Paragraph(section[i].sentences)])

\* Mutant: the most recent unit is carried over whatever its length.
OverlapTailAtLeastOne(units) ==
    LET Fits(k) == Size(SubSeq(units, k, Len(units))) <= Overlap
    IN  IF Overlap = 0 THEN <<>>
        ELSE SubSeq(units, CHOOSE k \in 1..Len(units) :
                               /\ k = Len(units) \/ Fits(k)
                               /\ \A j \in 1..(k - 1) : ~Fits(j), Len(units))

\* _overlap_tail: the longest run of whole units at the end that fits the overlap.
OverlapTail(units) ==
    LET Fits(k) == Size(SubSeq(units, k, Len(units))) <= Overlap
    IN  SubSeq(units, CHOOSE k \in 1..(Len(units) + 1) : Fits(k) /\ \A j \in 1..(k - 1) : ~Fits(j),
               Len(units))

\* _pack_units: done are the chunks that are full, current the units of the next.
PackUnits(units) ==
    LET Full(acc, unit) == acc.current # <<>> /\ Size(acc.current) + Len(unit) > ChunkSize
        Pack(acc, unit) ==
            IF Full(acc, unit)
            THEN [done |-> Append(acc.done, FlattenSeq(acc.current)),
                  current |-> Append(OverlapTail(acc.current), unit)]
            ELSE [acc EXCEPT !.current = Append(@, unit)]
        packed[n \in 0..Len(units)] == IF n = 0 THEN [done |-> <<>>, current |-> <<>>]
                                       ELSE Pack(packed[n - 1], units[n])
        all == packed[Len(units)]
    IN  Append(all.done, FlattenSeq(all.current))

\* _merge_tiny_trailing_chunk: with all of its text, the words it repeats included.
MergeTinyTrailing(chunks) ==
    LET n == Len(chunks)
    IN  IF n <= 1 \/ Len(chunks[n]) >= MinTokens THEN chunks
        ELSE Append(SubSeq(chunks, 1, n - 2), chunks[n - 1] \o chunks[n])

\* A section without text gives no chunk; one that fits gives one.
ChunksOfSection(section) ==
    CASE WordsOf(section) = <<>> -> <<>>
      [] Len(WordsOf(section)) \in 1..ChunkSize -> <<WordsOf(section)>>
      [] OTHER -> MergeTinyTrailing(PackUnits(UnitsOf(section)))

-----------------------------------------------------------------------------
(* What the chunks of a section must be, whatever way they are cut. *)

\* Each chunk goes on where the one before ended, after repeating at most Overlap
\* words of its end; a text that was merged may repeat them inside.
NothingLost(words, chunks) ==
    LET Place(w) == CHOOSE i \in DOMAIN words : words[i] = w
        text == [k \in DOMAIN chunks |-> [i \in DOMAIN chunks[k] |-> Place(chunks[k][i])]]
        Continues(from, t) == /\ t # <<>>
                              /\ \A i \in 1..(Len(t) - 1) : t[i + 1] = t[i] + 1
                              /\ from - Overlap < Head(t) /\ Head(t) <= from + 1
                              /\ Last(t) > from
        Merged(from, t) == \E k \in 1..(Len(t) - 1) : /\ Continues(from, SubSeq(t, 1, k))
                                                      /\ Continues(t[k], SubSeq(t, k + 1, Len(t)))
        Before(k) == IF k = 1 THEN 0 ELSE Last(text[k - 1])
    IN  /\ chunks # <<>> /\ Last(Last(text)) = Len(words)
        /\ \A k \in DOMAIN text : \/ Continues(Before(k), text[k])
                                  \/ k = Len(text) /\ Merged(Before(k), text[k])

\* A chunk exceeds the configured size by what it repeats and what is merged, no more.
SizesBounded(chunks) ==
    \A k \in DOMAIN chunks :
        Len(chunks[k]) <= ChunkSize + Overlap + (IF k = Len(chunks) /\ MinTokens > 0
                                                 THEN MinTokens - 1 ELSE 0)
=============================================================================
