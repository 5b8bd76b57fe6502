------------------------------ MODULE Scoring ------------------------------
(***************************************************************************)
(* How LocalSearchMixin (_search_local.py) scores one document against a   *)
(* query: the title match and its tie-break, the exact-file match, the     *)
(* lexical boost, the folder prior and the penalty of external papers.     *)
(*                                                                         *)
(* A text is the sequence of its terms; a term is a model value, and of    *)
(* the strings behind the terms only their lengths and which starts with   *)
(* which are kept.  Scores are hundredths.                                 *)
(***************************************************************************)
EXTENDS Lists, FiniteSetsExt, SequencesExt

CONSTANTS Terms,
          StartsWith,  \* <<t, u>>: the term t starts with the term u; reflexive
          Letters      \* term -> its length

ASSUME TermsAssumption ==
    /\ StartsWith \subseteq Terms \X Terms
    /\ \A t \in Terms : <<t, t>> \in StartsWith
    /\ Letters \in [Terms -> Nat \ {0}]

(* _query_terms: each term once, in the order of first occurrence. *)
Distinct(text) == Picked(text, {i \in DOMAIN text : \A j \in 1..(i - 1) : text[j] # text[i]})

(* The number of query terms that occur in a text, inside a word or not; a
   vocabulary in which terms occur in others only at their start. *)
Occurs(term, text) == \E i \in DOMAIN text : <<text[i], term>> \in StartsWith

Hits(text, query) == Cardinality({i \in DOMAIN query : Occurs(query[i], text)})

AllOccur(text, query) == text # <<>> /\ query # <<>> /\ Hits(text, query) = Len(query)

(* The query, as a phrase, is a substring of the text from the i-th term on. *)
PhraseAt(text, query, i) ==
    LET n == Len(query)
    IN  /\ i + n - 1 <= Len(text)
        /\ \A k \in 1..(n - 1) : text[i + k - 1] = query[k]
        /\ <<text[i + n - 1], query[n]>> \in StartsWith

Phrase(text, query) == query # <<>> /\ \E i \in DOMAIN text : PhraseAt(text, query, i)

(* _match_phrase_prefix_score, as the number of leading query terms matched. *)
Run(text, query, i) ==
    Max({k \in 0..Len(query) :
            \A j \in 1..k : i + j - 1 <= Len(text) /\ <<text[i + j - 1], query[j]>> \in StartsWith})

PrefixRun(text, query) == Max({0} \cup {Run(text, query, i) : i \in DOMAIN text})

HundredthsOf(score, part, whole) == IF whole = 0 THEN 0 ELSE (score * part) \div whole

TextLength(text) == Total([i \in DOMAIN text |-> Letters[text[i]]]) + Len(text) - 1

(* A query of fewer than four letters names no note and no file. *)
Short(query) == TextLength(Distinct(query)) < 4

(* A document is a row of the store or an atom.  Its base is its uri without
   the fragment; names are its title, the stem of its path and its aliases; note
   says whether the title ends in .md or .txt. *)
IsDocument(doc) ==
    /\ {"uri", "base", "cluster"} \subseteq DOMAIN doc
    /\ doc.names \in Seq(Seq(Terms)) /\ doc.names # <<>>
    /\ doc.headings \in Seq(Terms) /\ doc.tags \in Seq(Terms) /\ doc.links \in Seq(Terms)
    /\ doc.body \in Seq(Terms) /\ doc.folder \in Seq(Terms)
    /\ doc.external \in BOOLEAN /\ doc.note \in BOOLEAN

Title(doc) == doc.names[1]

(* _build_bm25_corpus_text, without the labels it puts between the parts; how
   often it repeats them makes the scores, which are inputs. *)
Words(doc) ==
    Title(doc) \o doc.headings \o FlattenSeq(SubSeq(doc.names, 3, Len(doc.names)))
        \o doc.tags \o doc.links \o doc.body

(* BM25 scores the documents that have a word of the query, the whole word. *)
Shares(doc, query) == \E i \in DOMAIN query : Contains(Words(doc), query[i])

Names(doc) == Distinct(FlattenSeq(doc.names))

FolderPrior(doc, query) ==
    12 * Hits(doc.folder, Distinct(query))
      + (IF Phrase(Distinct(doc.folder), Distinct(query)) THEN 35 ELSE 0)

ExactFileScore(doc, query) ==
    LET q == Distinct(query)
        headings == Distinct(doc.headings)
        found == {x \in {500} : Phrase(Names(doc), q)}
                     \cup {x \in {450} : AllOccur(Names(doc), q)}
                     \cup {x \in {400} : Phrase(headings, q)}
                     \cup {x \in {350} : AllOccur(headings, q)}
                     \cup {x \in {300} : Phrase(Distinct(doc.body), q)}
    IN  IF Short(query) THEN 0 ELSE Max({0} \cup found)

NameScore(name, query) ==
    Max({0} \cup {x \in {700} : name = query}
            \cup {x \in {600} : Phrase(name, query)}
            \cup {x \in {520} : AllOccur(name, query)})
      + HundredthsOf(120, PrefixRun(name, query), Len(query))

TitleScore(doc, query) ==
    Max({0} \cup {NameScore(Distinct(doc.names[i]), Distinct(query))
                    : i \in {j \in DOMAIN doc.names : ~Short(query) /\ doc.names[j] # <<>>}})

(* _best_title_candidate: the shortest of the names, the first of its length. *)
BestName(doc) ==
    LET all == [i \in DOMAIN doc.names |-> Distinct(doc.names[i])]
        names == Picked(all, {i \in DOMAIN all : all[i] # <<>>})
        i == CHOOSE j \in DOMAIN names :
                \A k \in DOMAIN names : \/ TextLength(names[j]) < TextLength(names[k])
                                        \/ TextLength(names[j]) = TextLength(names[k]) /\ j <= k
    IN  IF names = <<>> THEN <<>> ELSE names[i]

Bit(b) == IF b THEN 1 ELSE 0

(* _title_arbitration_tuple, the order among documents of equal title score. *)
Arbitration(doc, query) ==
    LET q == Distinct(query)
        name == BestName(doc)
        headings == Distinct(doc.headings)
        extra == Cardinality({i \in DOMAIN name : \A j \in DOMAIN q : q[j] # name[i]})
                   + (IF \A i \in DOMAIN q : \E j \in DOMAIN name : name[j] = q[i] THEN 0 ELSE 10)
        gap == Max({0, TextLength(name) - TextLength(q)})
        noise == IF doc.note THEN Max({0, Len(Title(doc)) - 1 - Len(q)}) ELSE 0
        unknown == name = <<>> \/ q = <<>>
    IN  << TitleScore(doc, query),
           Bit(name # <<>> /\ name = q),
           Bit(name # <<>> /\ q # <<>> /\ PhraseAt(name, q, 1)),
           Bit(headings # <<>> /\ q # <<>> /\ PhraseAt(headings, q, 1)),
           IF unknown THEN -999 ELSE -extra,
           IF unknown THEN -(999 + noise) ELSE -(gap + noise) >>

(* The lexicographic order of Python's tuples. *)
Greater(a, b) == \E i \in DOMAIN a : a[i] > b[i] /\ \A j \in 1..(i - 1) : a[j] = b[j]

(* _lexical_alignment_boost. *)
LexicalBoost(doc, query) ==
    LET q == Distinct(query)
    IN  IF q = <<>> THEN 0
        ELSE (IF Phrase(Title(doc), query) THEN 400 ELSE 0)
               + (IF Phrase(doc.headings, query) THEN 250 ELSE 0)
               + 75 * Hits(Title(doc), q) + 35 * Hits(doc.headings, q)
               + 20 * Hits(doc.tags, q) + 15 * Hits(doc.links, q)

(* _external_reference_penalty. *)
Penalty(doc, query) == IF doc.external /\ ~Phrase(Title(doc), query) THEN 60 ELSE 0

(* _build_snippet finds something to quote: the query in the text, or a word of
   it that has more than three letters; an empty query, anything. *)
Quotable(doc, query) ==
    /\ doc.body # <<>>
    /\ \/ query = <<>> \/ Phrase(doc.body, query)
       \/ \E i \in DOMAIN query : Letters[query[i]] > 3 /\ Occurs(query[i], doc.body)

(* The leading query words a title or the headings match, in the backstop. *)
PrefixScore(doc, query) ==
    LET q == Distinct(query)
    IN  HundredthsOf(100, Max({PrefixRun(Distinct(Title(doc)), q), PrefixRun(Distinct(doc.headings), q)}),
                     Len(q))
=============================================================================
