------------------------------ MODULE Ranking ------------------------------
(***************************************************************************)
(* How a search is answered from a store's documents (_search_local.py),   *)
(* fused from keyword and vector rankings (hybrid_search.py), and what the *)
(* quality gate and the meta-learner make of it (quality_gate.py).         *)
(*                                                                         *)
(* The two raw rankings are inputs: BM25 gives each document that shares a *)
(* term with the query some score, the grid returns some documents, of any *)
(* store, possibly one document under two glyphs.  Everything after is as  *)
(* in the code, in integers: scores in hundredths, fused scores in         *)
(* multiples of 1/Unit, confidences in ten-thousandths, alpha in           *)
(* thousandths.                                                            *)
(***************************************************************************)
EXTENDS Scoring

CONSTANTS
    Text,        \* row or atom -> what is in it
    MaxSources   \* max_sources

ASSUME RankingAssumption ==
    /\ MaxSources \in Nat \ {0}
    /\ \A uri \in DOMAIN Text : IsDocument(Text[uri])

(* Two rows of a store can have one uri: a file of a Postgres store that was
   uploaded again keeps its old row.  Rankings are sequences of [doc, score], by
   uri; a uri is named by the document it is resolved to.  Python's sort is
   stable, also in reverse. *)
Descending(entries) ==
    LET before(i, j) == \/ entries[i].score > entries[j].score
                        \/ entries[i].score = entries[j].score /\ i < j
    IN  InOrder(entries, DOMAIN entries,
                {p \in (DOMAIN entries) \X (DOMAIN entries) : before(p[1], p[2])})

Upto(n, s) == SubSeq(s, 1, Min({n, Len(s)}))

Docs(ranked) == [i \in DOMAIN ranked |-> ranked[i].doc]

All(ask) == ask.docs \o ask.atoms

Resolves(ask, doc) == doc \in Range(All(ask))

SameUri(d, e) == Text[d].uri = Text[e].uri

(* _get_doc_by_uri: the first row with the uri; of another store's, the hit. *)
Found(ask, doc) ==
    LET places == {i \in DOMAIN All(ask) : SameUri(All(ask)[i], doc)}
    IN  IF places = {} THEN doc ELSE All(ask)[Min(places)]

(* _document_cluster_key: a note and its atoms, the uri's base when the grid's
   document is not of this store. *)
ClusterOf(ask, doc) == IF Resolves(ask, doc) THEN Text[doc].cluster ELSE Text[doc].base

(* Of each cluster the first few are kept. *)
FirstOfClusters(ask, docs, most) ==
    {i \in DOMAIN docs :
        Cardinality({j \in 1..(i - 1) : ClusterOf(ask, docs[j]) = ClusterOf(ask, docs[i])}) < most}

(* _dedupe_doc_clusters; _cluster_ranked_entries with ranked entries. *)
Clustered(ask, docs, most) == Picked(docs, FirstOfClusters(ask, docs, most))

ClusteredEntries(ask, ranked, most) == Picked(ranked, FirstOfClusters(ask, Docs(ranked), most))

-----------------------------------------------------------------------------
(* _collect_bm25_ranked: raw scores, then adjusted ones. *)
KeywordRanked(ask, query, most) ==
    LET all == All(ask)
        hit == Picked([i \in DOMAIN all |-> [doc |-> Found(ask, all[i]), score |-> ask.raw[i]]],
                      {i \in DOMAIN all : ask.raw[i] > 0 /\ Shares(Text[all[i]], query)})
        top == Upto(most, Descending(hit))
        adjusted == [i \in DOMAIN top |->
                        LET d == Text[top[i].doc]
                        IN  [top[i] EXCEPT !.score = 100 * @ + LexicalBoost(d, query)
                                + FolderPrior(d, query) - Penalty(d, query)]]
    IN  ClusteredEntries(ask, Descending(adjusted), 2)

(* _collect_sem_ranked: hits of another store keep their bare score; the query
   is whichever is active. *)
SemanticRanked(ask, query) ==
    LET adjusted == [i \in DOMAIN ask.seen |->
            LET doc == Found(ask, ask.seen[i].doc)
                d == Text[doc]
            IN  [doc |-> doc,
                 score |-> 100 * ask.seen[i].score
                    + IF Resolves(ask, doc) THEN 6 * LexicalBoost(d, query) + 100 * FolderPrior(d, query)
                                                  - 25 * Penalty(d, query)
                                            ELSE 0]]
    IN  ClusteredEntries(ask, Descending(adjusted), 2)

(* reciprocal_rank_fusion with k = 60, for lists of up to four entries. *)
Unit == 61 * 62 * 63 * 32

Weight(rank) == Unit \div (60 + rank)

(* Variant: a rank counts from the end of its list. *)
RankScoreReversed(ranked, doc) ==
    Total([i \in DOMAIN ranked |-> IF ranked[i].doc = doc THEN Weight(Len(ranked) + 1 - i) ELSE 0])

RankScore(ranked, doc) ==
    Total([i \in DOMAIN ranked |-> IF ranked[i].doc = doc THEN Weight(i) ELSE 0])

Fused(ask, semantic, keyword) ==
    LET seen == Distinct(Docs(semantic) \o Docs(keyword))
        scored == [i \in DOMAIN seen |->
                     [doc |-> seen[i],
                      score |-> RankScore(semantic, seen[i]) + RankScore(keyword, seen[i])]]
    IN  ClusteredEntries(ask, Upto(MaxSources, Descending(scored)), 2)

-----------------------------------------------------------------------------
(* a / b in ten-thousandths, rounded. *)
Ratio(a, b) ==
    LET hundreds == (a * 100) \div b
        rest == ((a * 100) % b) * 100
    IN  hundreds * 100 + rest \div b + (IF 2 * (rest % b) >= b THEN 1 ELSE 0)

(* compute_search_confidence: the factor by which disagreement of the two
   paths lowers the fused score, as <<numerator, denominator>>. *)
Agreement(keyword, semantic) ==
    LET both == Cardinality(keyword \cap semantic)
        least == Min({Cardinality(keyword), Cardinality(semantic)})
        most == Max({Cardinality(keyword), Cardinality(semantic)})
    IN  IF most = 0 THEN <<1, 1>>
        ELSE IF least = 0 \/ 2 * both * (least + most) < least * most THEN <<1, 4>>
        ELSE <<both * (least + most), 2 * least * most>>

Bases(ranked) == {Text[ranked[i].doc].base : i \in DOMAIN ranked}

Confidence(fused, keyword, semantic) ==
    LET most == 2 * Weight(1)
        top == IF fused = <<>> THEN 0 ELSE Min({most, fused[1].score})
        agreed == Agreement(Bases(keyword), Bases(semantic))
    IN  Ratio(top * agreed[1], most * agreed[2])

Verdict(confidence) ==
    IF confidence > 7500 THEN "PASS" ELSE IF confidence > 4500 THEN "FORGE" ELSE "INHIBIT"

-----------------------------------------------------------------------------
(* _exact_note_resolution: the cluster with the best title match, unless the
   runner-up is too close; <<docs, confidence>>, docs empty when undecided. *)
NoNote == [docs |-> <<>>, confidence |-> 0]

Scored(docs, query) == Picked(docs, {i \in DOMAIN docs : TitleScore(Text[docs[i]], query) > 0})

(* The clusters of the documents whose title matches, as [score, arb, docs]
   with the best score and the best arbitration of their documents. *)
NamedClusters(docs, query) ==
    LET named == Scored(docs, query)
        clusters == Distinct([i \in DOMAIN named |-> Text[named[i]].cluster])
        Of(c) == Picked(named, {i \in DOMAIN named : Text[named[i]].cluster = c})
        Best(all) == CHOOSE a \in all : \A b \in all : ~Greater(b, a)
    IN  [i \in DOMAIN clusters |->
           [docs |-> Of(clusters[i]),
            score |-> Max({TitleScore(Text[d], query) : d \in Range(Of(clusters[i]))}),
            arb |-> Best({Arbitration(Text[d], query) : d \in Range(Of(clusters[i]))})]]

Before(c, d) == Greater(<<c.score>> \o c.arb, <<d.score>> \o d.arb)

ByTitle(clusters) ==
    LET before(i, j) == \/ Before(clusters[i], clusters[j])
                        \/ ~Before(clusters[j], clusters[i]) /\ i < j
    IN  InOrder(clusters, DOMAIN clusters,
                {p \in (DOMAIN clusters) \X (DOMAIN clusters) : before(p[1], p[2])})

(* Of the first two, whether the tie-break separates them clearly. *)
ClearlyAhead(c, d) ==
    /\ Greater(c.arb, d.arb)
    /\ Greater(Tail(c.arb), Tail(d.arb))
    /\ c.arb[5] - d.arb[5] >= 1 \/ c.arb[6] - d.arb[6] >= 8

Undecided(clusters) ==
    \/ clusters = <<>>
    \/ clusters[1].score < 520
    \/ /\ Len(clusters) > 1 /\ clusters[1].score < 600
       /\ clusters[1].score - clusters[2].score < 55
       /\ ~ClearlyAhead(clusters[1], clusters[2])

ExactNote(docs, query, most) ==
    LET clusters == ByTitle(NamedClusters(docs, query))
    IN  IF Undecided(clusters) THEN NoNote
        ELSE [docs |-> Upto(most, clusters[1].docs),
              confidence |-> IF clusters[1].score >= 700 THEN 9200
                             ELSE IF clusters[1].score >= 600 THEN 8800 ELSE 8400]

(* _apply_exact_file_post_filter. *)
OnlyExact(ask, docs, query) ==
    LET best == Max({0} \cup {ExactFileScore(Text[d], query) : d \in Range(docs)})
        winners == {ClusterOf(ask, d) : d \in {e \in Range(docs) : ExactFileScore(Text[e], query) >= best}}
    IN  IF best < 300 THEN docs ELSE Picked(docs, {i \in DOMAIN docs : ClusterOf(ask, docs[i]) \in winners})

Resolved(ask, docs) == Picked(docs, {i \in DOMAIN docs : Resolves(ask, docs[i])})

(* _lexical_backstop_docs. *)
Backstop(ask, query) ==
    LET ranked == Resolved(ask, Docs(KeywordRanked(ask, query, Max({2 * MaxSources, 5}))))
        direct(d) == ExactFileScore(Text[d], query) + FolderPrior(Text[d], query) + PrefixScore(Text[d], query)
        scored == Picked([i \in DOMAIN ask.docs |-> [doc |-> ask.docs[i], score |-> direct(ask.docs[i])]],
                         {i \in DOMAIN ask.docs : direct(ask.docs[i]) > 0})
    IN  Upto(MaxSources, Clustered(ask, OnlyExact(ask, ranked \o Docs(Descending(scored)), query), 1))

-----------------------------------------------------------------------------
(* The answer to a search: the documents it names as sources, and how sure it
   is; ranked are the two rankings and their fusion when it used them. *)
Result(ask, sources, confidence, noted, low, ranked) ==
    [ask |-> ask, sources |-> Upto(MaxSources, sources), confidence |-> confidence,
     noted |-> noted, low |-> low, ranked |-> ranked]

NoAsk == [engine |-> "none", store |-> "", docs |-> <<>>, atoms |-> <<>>, mode |-> "none",
          query |-> <<>>, original |-> <<>>, raw |-> <<>>, seen |-> <<>>]

Unranked == [keyword |-> <<>>, semantic |-> <<>>, fused |-> <<>>]

(* _run_hybrid_rerank: alpha sets how many keyword hits take part. *)
KeywordPool(alpha) == Max({1, (2 * MaxSources * (1500 - alpha)) \div 1000})

Rerank(ask, keyword, semantic) ==
    LET fused == Fused(ask, semantic, keyword)
    IN  [fused |-> fused, confidence |-> Confidence(fused, keyword, semantic),
         docs |-> Clustered(ask, OnlyExact(ask, Resolved(ask, Docs(fused)), ask.query), 2)]

QuotablePlaces(ask) == {i \in DOMAIN ask.docs : Quotable(Text[ask.docs[i]], ask.query)}

(* Variant: a document already among the sources is added again. *)
AugmentedTwice(ask, sources) == sources \o Picked(ask.docs, QuotablePlaces(ask))

(* _forge_augment_sources: what has another uri than the sources so far. *)
Augmented(ask, sources) ==
    LET new == {i \in QuotablePlaces(ask) :
                  /\ \A j \in DOMAIN sources : ~SameUri(ask.docs[i], sources[j])
                  /\ \A j \in QuotablePlaces(ask) : j < i => ~SameUri(ask.docs[i], ask.docs[j])}
    IN  sources \o Picked(ask.docs, new)

(* The hybrid answer; when neither the note nor the rerank has a document, the
   search falls through to the keyword answer. *)
HybridDocs(note, ranked) ==
    IF note.confidence > ranked.confidence THEN note.docs ELSE ranked.docs

HybridAnswer(ask, note, backstop, ranked, rankings) ==
    LET confidence == Max({note.confidence, ranked.confidence})
        verdict == Verdict(confidence)
        docs == HybridDocs(note, ranked)
        chosen == IF verdict = "INHIBIT" /\ backstop # <<>> THEN backstop ELSE docs
        noted == /\ note.docs # <<>>
                 /\ \/ note.confidence > ranked.confidence
                    \/ ClusterOf(ask, chosen[1]) = ClusterOf(ask, note.docs[1])
        named == Upto(MaxSources, chosen)
    IN  Result(ask, IF verdict = "FORGE" THEN Augmented(ask, named) ELSE named,
               confidence, noted, verdict = "INHIBIT",
               [rankings EXCEPT !.fused = ranked.fused])

(* _resolve_semantic_sources; the clusters it keeps it keeps whole, so that
   clustering once more changes nothing. *)
SemanticDocs(ask, active) ==
    LET resolved == Distinct(Resolved(ask, Docs(Upto(2 * MaxSources, SemanticRanked(ask, active)))))
    IN  OnlyExact(ask, Clustered(ask, resolved, 2), ask.query)

(* The keyword answer, the backstop when nothing can be quoted, and at last
   any documents at all. *)
KeywordAnswer(ask, note, backstop, active) ==
    LET quoted == Picked(ask.docs, QuotablePlaces(ask))
        semantic == IF ask.mode \in {"semantic", "multimodal"} THEN SemanticDocs(ask, active) ELSE <<>>
        docs == IF quoted # <<>> THEN quoted
                ELSE IF backstop # <<>> /\ note.docs # <<>> THEN note.docs
                ELSE IF backstop # <<>> THEN backstop
                ELSE IF semantic # <<>> THEN semantic ELSE ask.docs
        confidence == IF quoted # <<>> THEN 7000
                      ELSE IF backstop # <<>> /\ note.docs # <<>> THEN note.confidence
                      ELSE IF backstop # <<>> THEN (IF ask.mode = "keyword" THEN 5000 ELSE 4500)
                      ELSE 3000
    IN  Result(ask, docs, confidence, note.docs # <<>> /\ confidence >= 8000, FALSE, Unranked)

(* The note the query names comes before what is near it. *)
Preferred(noted, semantic) == IF noted # <<>> THEN noted ELSE semantic

(* _provider_search: what the language model is given to answer from. *)
ProviderAnswer(ask, note, backstop, active) ==
    LET semantic == Clustered(ask, Distinct(Resolved(ask, Docs(Upto(MaxSources, SemanticRanked(ask, active))))), 2)
        relevant == Clustered(ask, OnlyExact(ask, Preferred(note.docs, semantic), ask.query), 2)
        found == Picked(ask.docs, {i \in DOMAIN ask.docs :
                                      \/ ask.query = <<>>
                                      \/ Phrase(Text[ask.docs[i]].headings, ask.query)
                                      \/ Phrase(Text[ask.docs[i]].body, ask.query)})
        docs == IF relevant # <<>> THEN relevant ELSE IF found # <<>> THEN found ELSE backstop
        confidence == IF note.docs # <<>> THEN note.confidence
                      ELSE IF relevant # <<>> THEN 7000
                      ELSE IF found # <<>> THEN 5500
                      ELSE IF backstop # <<>> THEN 4500 ELSE 3000
    IN  Result(ask, docs, confidence, note.docs # <<>>, confidence <= 4500, Unranked)
=============================================================================
