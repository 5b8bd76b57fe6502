------------------------------ MODULE Chunking ------------------------------
(***************************************************************************)
(* How a document becomes chunks (text_chunker.py), how each learns what   *)
(* surrounds it (context_extractor.py) and what of it is embedded          *)
(* (obsidian_lite.py, knowledge_atom.py).                                  *)
(*                                                                         *)
(* A document is a sequence of blocks: headings, and paragraphs made of    *)
(* sentences.  A word is named by its place, so no two of a document are   *)
(* equal, and a text is a sequence of words.  Characters are counted in    *)
(* words: windows, limits and overlaps are numbers of words.               *)
(***************************************************************************)
EXTENDS Integers, Sequences, FiniteSets, SequencesExt

\* Of a paragraph, the length of each of its sentences.
Headings   == [kind : {"heading"}, level : Nat \ {0}]
Paragraphs == [kind : {"paragraph"}, sentences : Seq(Nat \ {0}) \ {<<>>}]
Documents  == Seq(Headings \cup Paragraphs) \ {<<>>}

Title(i) == <<i>>
Sentence(i, s, length) == [w \in 1..length |-> <<i, s, w>>]
Sentences(i, block) == [s \in DOMAIN block.sentences |-> Sentence(i, s, block.sentences[s])]

BlockWords(i, block) ==
    IF block.kind = "heading" THEN <<Title(i)>> ELSE FlattenSeq(Sentences(i, block))

\* The whole text of a document, and the text below its headings.
Content(doc) == FlattenSeq([i \in DOMAIN doc |-> BlockWords(i, doc[i])])
Body(doc) == FlattenSeq([i \in DOMAIN doc |->
                           IF doc[i].kind = "heading" THEN <<>> ELSE BlockWords(i, doc[i])])
Titles(doc) == FlattenSeq([i \in DOMAIN doc |->
                             IF doc[i].kind = "heading" THEN BlockWords(i, doc[i]) ELSE <<>>])

Cut(limit, text) == SubSeq(text, 1, IF limit < Len(text) THEN limit ELSE Len(text))

\* _estimate_tokens: a token is three quarters of a word, rounded down.
Tokens(text) == (4 * Len(text)) \div 3

-----------------------------------------------------------------------------
(* _split_into_sections: the headings above, and the paragraphs below one. *)
AboveLoosely(titles, level) == IF level < Len(titles) THEN SubSeq(titles, 1, level - 1) ELSE titles
Above(titles, level) == IF level <= Len(titles) THEN SubSeq(titles, 1, level - 1) ELSE titles

\* Some text before the first heading is a section of its own.
AddBlock(doc, sections, i) ==
    LET titles == IF sections = <<>> THEN <<>> ELSE Last(sections).headings
        block  == doc[i]
    IN CASE block.kind = "heading" ->
              Append(sections, [headings |-> Append(Above(titles, block.level), Title(i)), paras |-> <<>>])
         [] block.kind = "paragraph" /\ sections = <<>> ->
              <<[headings |-> <<>>, paras |-> <<Sentences(i, block)>>]>>
         [] OTHER ->
              [sections EXCEPT ![Len(sections)].paras = Append(@, Sentences(i, block))]

Sections(doc) ==
    LET upto[i \in 0..Len(doc)] == IF i = 0 THEN <<>> ELSE AddBlock(doc, upto[i - 1], i)
    IN upto[Len(doc)]

-----------------------------------------------------------------------------
(* _split_section, _split_by_sentences: parts are packed until the next one *)
(* would exceed the budget.                                                 *)
NoPack == [groups |-> <<>>, current |-> <<>>, tokens |-> 0]

FullLate(pack, part, max) == pack.tokens > max
Full(pack, part, max) == pack.tokens + Tokens(part) > max /\ pack.current # <<>>

Groups(pack) == IF pack.current = <<>> THEN pack.groups ELSE Append(pack.groups, pack.current)

Pack(pack, part, max) ==
    IF Full(pack, part, max)
    THEN [groups |-> Append(pack.groups, pack.current), current |-> part, tokens |-> Tokens(part)]
    ELSE [pack EXCEPT !.current = @ \o part, !.tokens = @ + Tokens(part)]

BySentences(para, max) ==
    LET packed[i \in 0..Len(para)] == IF i = 0 THEN NoPack ELSE Pack(packed[i - 1], para[i], max)
    IN Groups(packed[Len(para)])

\* A paragraph beyond the budget is split by itself.
PackPara(pack, para, max) ==
    IF Tokens(FlattenSeq(para)) > max
    THEN [NoPack EXCEPT !.groups = Groups(pack) \o BySentences(para, max)]
    ELSE Pack(pack, FlattenSeq(para), max)

ByParagraphs(paras, max) ==
    LET packed[i \in 0..Len(paras)] == IF i = 0 THEN NoPack ELSE PackPara(packed[i - 1], paras[i], max)
    IN Groups(packed[Len(paras)])

SectionTexts(paras, max) ==
    IF Tokens(FlattenSeq(FlattenSeq(paras))) <= max
    THEN <<FlattenSeq(FlattenSeq(paras))>>
    ELSE ByParagraphs(paras, max)

SectionChunks(section, max) ==
    LET texts == SectionTexts(section.paras, max)
    IN [i \in DOMAIN texts |-> [headings |-> section.headings, text |-> texts[i]]]

\* A section without a text of its own is no chunk.
Split(sections, max) ==
    FlattenSeq([i \in DOMAIN sections |->
                  IF sections[i].paras = <<>> THEN <<>> ELSE SectionChunks(sections[i], max)])

-----------------------------------------------------------------------------
(* _merge_small_chunks: into the predecessor, which keeps its headings. *)
Absorbs(merged, chunk, min, max) ==
    /\ Tokens(chunk.text) < min
    /\ merged # <<>>
    /\ Tokens(Last(merged).text) + Tokens(chunk.text) <= max

MergeNext(merged, chunk, min, max) ==
    IF Absorbs(merged, chunk, min, max)
    THEN [merged EXCEPT ![Len(merged)].text = @ \o chunk.text]
    ELSE Append(merged, chunk)

Merge(chunks, min, max) ==
    LET merged[i \in 0..Len(chunks)] ==
          IF i = 0 THEN <<>> ELSE MergeNext(merged[i - 1], chunks[i], min, max)
    IN merged[Len(chunks)]

-----------------------------------------------------------------------------
(* resplit_chunks_character_windows; _chunk_text with the whole content as  *)
(* one chunk.  The windows of a text of n words:                            *)
WindowsOf(n, size, overlap) ==
    IF n <= size THEN 1 ELSE 1 + (n - overlap - 1) \div (size - overlap)

Window(text, k, size, overlap) ==
    LET start == (k - 1) * (size - overlap)
    IN SubSeq(text, start + 1, IF start + size < Len(text) THEN start + size ELSE Len(text))

Windows(chunk, size, overlap) ==
    [k \in 1..WindowsOf(Len(chunk.text), size, overlap) |->
        [chunk EXCEPT !.text = Window(@, k, size, overlap)]]

Resplit(chunks, size, overlap) ==
    IF size = 0 \/ overlap >= size
    THEN chunks
    ELSE FlattenSeq([i \in DOMAIN chunks |-> Windows(chunks[i], size, overlap)])

-----------------------------------------------------------------------------
(* ContextExtractor.extract: the neighbours, each below its headings. *)
NeighboursAndSelf(i, chunks, window) == {j \in DOMAIN chunks : j \in (i - window)..(i + window)}
Neighbours(i, chunks, window) == {j \in DOMAIN chunks : j \in (i - window)..(i + window) /\ j # i}

Context(chunks, i, window, limit) ==
    Cut(limit, FlattenSeq([j \in DOMAIN chunks |->
                  IF j \in Neighbours(i, chunks, window) THEN chunks[j].headings \o chunks[j].text ELSE <<>>]))

\* build_obsidian_chunks: the headings stand before the text of a note's chunk.
Enrich(chunks, window, limit) ==
    [i \in DOMAIN chunks |->
        [headings |-> chunks[i].headings, text |-> chunks[i].text,
         embed |-> chunks[i].headings \o chunks[i].text, context |-> Context(chunks, i, window, limit)]]
=============================================================================
